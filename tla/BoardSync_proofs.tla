---------------------------- MODULE BoardSync_proofs ----------------------------
(* Two invariants of a board and the stores that edit it. The first follows   *)
(* what each store sends: no tab loses an edit or has it overtaken, whatever  *)
(* the reducer computes. The second follows the arrangement: every board the  *)
(* reducer makes is canonical, and a closed conversation stays closed. Both   *)
(* hold for every number of stores, edits, renames and failures.              *)
EXTENDS BoardSync, SequenceTheorems, FiniteSetTheorems, WellFoundedInduction, TLAPS

---------------------------------------------------------------------------
(* The invariant, for one store s of c and the intents T the server took.     *)

Fields ==
  {"confirmed", "intents", "done", "inflight", "loaded", "unavailable", "conflictStreak",
   "rejectCap", "retry", "writes", "load", "poll"}

IsStore(s) ==
  /\ s = [f \in Fields |-> s[f]]
  /\ s.writes = [w \in {1, 2} |-> s.writes[w]]

SeedCall(r) ==
  r = [at |-> "sent", kind |-> "seed", base |-> r.base, fallback |-> r.fallback]

(* A request under way carries the oldest edits of the outbox.                *)
DrainCall(c, s, r) ==
  /\ r = [at |-> "sent", kind |-> "drain", first |-> r.first, prefix |-> r.prefix,
          base |-> r.base]
  /\ r.first = s.done /\ r.prefix \in Seq(Menu[c])
  /\ Len(r.prefix) \in 1 .. Len(s.intents) - s.done
  /\ \A i \in 1 .. Len(r.prefix) : r.prefix[i] = s.intents[s.done + i]

IsAnswer(r) ==
  r = [f \in {"at", "status", "board", "call"} |-> r[f]] /\ r.at = "answered"

(* An acceptance tells that they were taken, a refusal that they are bad.     *)
Answered(c, s, T, r) ==
  /\ IsAnswer(r)
  /\ SeedCall(r.call) \/ DrainCall(c, s, r.call)
  /\ r.call.kind = "drain" =>
       /\ r.status = "ok" =>
            \A n \in s.done + 1 .. s.done + Len(r.call.prefix) : <<c, n>> \in T
       /\ r.status = "rejected" => ~validBatch(r.call.prefix)

Requested(c, s, T) ==
  LET r == s.writes[1]
  IN /\ s.inflight \in BOOLEAN /\ (s.inflight <=> r # NoCall)
     /\ r = NoCall \/ SeedCall(r) \/ DrainCall(c, s, r) \/ Answered(c, s, T, r)
     /\ s.writes[2] = NoCall

lands(c, s, T, n) == <<c, n>> \in T \/ ~validBatch(<<s.intents[n]>>)

InOrder(c, s, T) ==
  /\ \A n : <<c, n>> \in T => n \in 1 .. Len(s.intents)
  /\ \A n \in 1 .. s.done : lands(c, s, T, n)
  /\ \A n \in 1 .. Len(s.intents) : <<c, n>> \in T => \A k \in 1 .. n - 1 : lands(c, s, T, k)

Typed(c, s) ==
  /\ IsStore(s) /\ s.intents \in Seq(Menu[c]) /\ s.done \in 0 .. Len(s.intents)
  /\ s.rejectCap \in Nat

Good(c, s, T) == Typed(c, s) /\ Requested(c, s, T) /\ InOrder(c, s, T)

IInv ==
  /\ store = [c \in Stores |-> store[c]]
  /\ \A c \in Stores \ seededOver : Good(c, store[c], taken)

---------------------------------------------------------------------------
(* What drain sends.                                                          *)

(* Evaluating once is evaluating.                                             *)
LEMMA DrainSends == ASSUME NEW s PROVE drain(s) = sending(s)
  BY DEF drain, once

(* A request's prefix is the beginning of the outbox and not empty.           *)
LEMMA PrefixFacts ==
  ASSUME NEW M, NEW s, s.intents \in Seq(M), s.done \in 0 .. Len(s.intents),
         s.rejectCap \in Nat, outbox(s) # <<>>
  PROVE  /\ patchPrefix(s) \in Seq(M)
         /\ Len(patchPrefix(s)) \in 1 .. Len(s.intents) - s.done
         /\ \A i \in 1 .. Len(patchPrefix(s)) : patchPrefix(s)[i] = s.intents[s.done + i]
<1> DEFINE rest == outbox(s)
           cap == IF s.rejectCap = 0 THEN PatchCap ELSE s.rejectCap
<1>1. Len(s.intents) \in Nat /\ \A i \in 1 .. Len(s.intents) : s.intents[i] \in M
  OBVIOUS
<1>2. /\ rest \in Seq(M)
      /\ Len(rest) = IF s.done + 1 <= Len(s.intents) THEN Len(s.intents) - s.done ELSE 0
      /\ \A i \in 1 .. Len(s.intents) - s.done : rest[i] = s.intents[s.done + i]
  <2> DEFINE m == s.done + 1
             n == Len(s.intents)
  <2>1. m \in Int /\ n \in Int /\ \A i \in m .. n : s.intents[i] \in M
    BY <1>1
  <2> HIDE DEF m, n
  <2>2. /\ SubSeq(s.intents, m, n) \in Seq(M)
        /\ Len(SubSeq(s.intents, m, n)) = IF m <= n THEN n - m + 1 ELSE 0
        /\ \A i \in 1 .. n - m + 1 : SubSeq(s.intents, m, n)[i] = s.intents[m + i - 1]
    BY <2>1, SubSeqProperties
  <2>3. rest = SubSeq(s.intents, m, n)
    BY DEF outbox, m, n
  <2>4. (m <= n => n - m + 1 = n - s.done) /\ \A i \in Int : m + i - 1 = s.done + i
    BY <2>1 DEF m
  <2>5. Len(rest) = IF m <= n THEN n - s.done ELSE 0
    BY <2>2, <2>3, <2>4
  <2>6. n - m + 1 = n - s.done
    BY <2>1 DEF m
  <2>7. ASSUME NEW i \in 1 .. n - s.done PROVE rest[i] = s.intents[s.done + i]
    <3>1. i \in 1 .. n - m + 1 /\ i \in Int
      BY <2>6, <2>7
    <3>2. SubSeq(s.intents, m, n)[i] = s.intents[m + i - 1]
      BY <2>2, <3>1
    <3>3. m + i - 1 = s.done + i
      BY <2>4, <3>1
    <3>4. SubSeq(s.intents, m, n)[i] = s.intents[s.done + i]
      BY <3>2, <3>3, Zenon
    <3> QED BY <2>3, <3>4, Zenon
  <2> QED BY <2>2, <2>3, <2>5, <2>7 DEF m, n
<1>3. Len(rest) # 0
  BY <1>2, EmptySeq
<1>4. cap \in Nat \ {0}
  BY SyncAssumption
<1>5. patchPrefix(s) = IF Len(rest) <= cap THEN rest ELSE SubSeq(rest, 1, cap)
  BY DEF patchPrefix
<1> HIDE DEF rest, cap
<1>6. CASE Len(rest) <= cap
  BY <1>1, <1>2, <1>3, <1>5, <1>6
<1>7. CASE Len(rest) > cap
  <2>1. \A i \in 1 .. cap : rest[i] \in M
    BY <1>2, <1>4, <1>7
  <2>2. /\ SubSeq(rest, 1, cap) \in Seq(M)
        /\ Len(SubSeq(rest, 1, cap)) = cap
        /\ \A i \in 1 .. cap : SubSeq(rest, 1, cap)[i] = rest[i]
    BY <2>1, <1>4, SubSeqProperties
  <2> QED BY <1>1, <1>2, <1>3, <1>4, <1>5, <1>7, <2>2
<1> QED BY <1>1, <1>2, <1>4, <1>6, <1>7

---------------------------------------------------------------------------
(* What a step may do to one store.                                           *)

(* Nothing that is sent, or was, changes.                                     *)
LEMMA Kept ==
  ASSUME NEW c, NEW s, NEW T, Good(c, s, T), NEW s2, IsStore(s2),
         s2.intents = s.intents, s2.done = s.done, s2.rejectCap = s.rejectCap,
         s2.inflight = s.inflight, s2.writes = s.writes
  PROVE  Good(c, s2, T)
<1>1. Typed(c, s2)
  BY DEF Good, Typed
<1>2. Requested(c, s2, T)
  <2>1. ASSUME NEW r PROVE DrainCall(c, s2, r) <=> DrainCall(c, s, r)
    BY DEF DrainCall
  <2>2. ASSUME NEW r PROVE Answered(c, s2, T, r) <=> Answered(c, s, T, r)
    BY <2>1 DEF Answered
  <2> QED BY <2>1, <2>2 DEF Good, Requested
<1>4. InOrder(c, s2, T)
  BY DEF Good, InOrder, lands
<1> QED BY <1>1, <1>2, <1>4 DEF Good

(* An answer is taken in: what the outbox drops has landed.                   *)
LEMMA Quiet ==
  ASSUME NEW c, NEW s, NEW T, Good(c, s, T), NEW s2, IsStore(s2),
         s2.intents = s.intents,
         s2.done \in s.done .. Len(s.intents),
         \A n \in s.done + 1 .. s2.done : lands(c, s, T, n),
         s2.inflight = FALSE, s2.writes[1] = NoCall, s2.writes[2] = NoCall,
         s2.rejectCap \in Nat
  PROVE  Good(c, s2, T)
<1>0. s.done \in Nat /\ Len(s.intents) \in Nat
  BY DEF Good, Typed
<1>1. Typed(c, s2)
  BY <1>0 DEF Good, Typed
<1>2. Requested(c, s2, T)
  BY DEF Good, Requested
<1>4. \A n \in 1 .. s2.done : lands(c, s, T, n)
  BY <1>0 DEF Good, InOrder
<1>5. InOrder(c, s2, T)
  BY <1>4 DEF Good, InOrder, lands
<1> QED BY <1>1, <1>2, <1>5 DEF Good

(* drain sends the beginning of the outbox where no request is under way.     *)
LEMMA Sent ==
  ASSUME NEW c, NEW s, NEW T, Good(c, s, T)
  PROVE  Good(c, drain(s), T)
<1> DEFINE r == [at |-> "sent", kind |-> "drain", first |-> s.done,
                 prefix |-> patchPrefix(s), base |-> s.confirmed.revision]
           s2 == [s EXCEPT !.inflight = TRUE, !.writes[1] = r]
<1>1. CASE s.inflight \/ outbox(s) = <<>>
  BY <1>1, DrainSends DEF sending
<1>2. CASE ~s.inflight /\ outbox(s) # <<>>
  <2>1. s.writes[1] = NoCall /\ freeSlot(s) = 1
    BY <1>2 DEF Good, Requested, freeSlot
  <2>2. drain(s) = s2
    BY <1>2, <2>1, DrainSends DEF sending
  <2>3. /\ patchPrefix(s) \in Seq(Menu[c])
        /\ Len(patchPrefix(s)) \in 1 .. Len(s.intents) - s.done
        /\ \A i \in 1 .. Len(patchPrefix(s)) : patchPrefix(s)[i] = s.intents[s.done + i]
    BY <1>2, PrefixFacts DEF Good, Typed
  <2>4. /\ IsStore(s2) /\ s2.intents = s.intents /\ s2.done = s.done
        /\ s2.rejectCap = s.rejectCap
        /\ s2.inflight = TRUE /\ s2.writes[1] = r /\ s2.writes[2] = s.writes[2]
    <3> DEFINE W == [s.writes EXCEPT ![1] = r]
    <3> HIDE DEF r
    <3>1. IsStore(s) BY DEF Good, Typed
    <3>2. s.writes = [w \in {1, 2} |-> s.writes[w]]
      BY <3>1 DEF IsStore, Fields
    <3>3. W = [w \in {1, 2} |-> W[w]] /\ W[1] = r /\ W[2] = s.writes[2]
      BY <3>2
    <3>4. s2 = [s EXCEPT !.inflight = TRUE, !.writes = W]
      OBVIOUS
    <3> HIDE DEF W, s2
    <3>5. s2.writes = W
      BY <3>1, <3>4 DEF IsStore, Fields
    <3>6. IsStore(s2)
      BY <3>1, <3>3, <3>4, <3>5 DEF IsStore, Fields
    <3> QED BY <3>1, <3>3, <3>4, <3>5, <3>6 DEF IsStore, Fields
  <2> HIDE DEF s2
  <2>5. DrainCall(c, s2, r)
    BY <2>3, <2>4 DEF DrainCall
  <2>6. r # NoCall
    BY DEF NoCall
  <2>8. Typed(c, s2)
    BY <2>4 DEF Good, Typed
  <2> HIDE DEF r
  <2>9. Requested(c, s2, T)
    BY <2>4, <2>5, <2>6 DEF Good, Requested
  <2>11. InOrder(c, s2, T)
    BY <2>4 DEF Good, InOrder, lands
  <2> QED BY <2>2, <2>8, <2>9, <2>11 DEF Good
<1> QED BY <1>1, <1>2

(* Only what the server took of a store matters to it.                        *)
LEMMA Others ==
  ASSUME NEW d, NEW s, NEW T, NEW T2, Good(d, s, T),
         \A n : <<d, n>> \in T2 <=> <<d, n>> \in T
  PROVE  Good(d, s, T2)
<1>1. Requested(d, s, T2)
  BY DEF Good, Requested, Answered
<1>2. InOrder(d, s, T2)
  BY DEF Good, InOrder, lands
<1> QED BY <1>1, <1>2 DEF Good

(* A store whose seed overlapped a drain may be in any state. The others do   *)
(* not see it.                                                                *)
LEMMA Elsewhere ==
  ASSUME IInv, NEW c \in Stores, NEW s2, store' = [store EXCEPT ![c] = s2],
         seededOver \subseteq seededOver', c \in seededOver',
         \A d \in Stores \ {c} : \A n : <<d, n>> \in taken' <=> <<d, n>> \in taken
  PROVE  IInv'
<1>1. store' = [d \in Stores |-> store'[d]]
  BY DEF IInv
<1>2. ASSUME NEW d \in Stores \ seededOver' PROVE Good(d, store'[d], taken')
  <2>1. d # c /\ d \in Stores \ seededOver
    OBVIOUS
  <2>2. Good(d, store[d], taken) /\ store'[d] = store[d]
    BY <2>1 DEF IInv
  <2> QED BY <2>1, <2>2, Others
<1> QED BY <1>1, <1>2 DEF IInv

(* A step that keeps one store good keeps the invariant.                     *)
LEMMA Updates ==
  ASSUME IInv, NEW c \in Stores \ seededOver, seededOver' = seededOver,
         NEW s2, store' = [store EXCEPT ![c] = s2], Good(c, s2, taken'),
         \A d \in Stores \ {c} : \A n : <<d, n>> \in taken' <=> <<d, n>> \in taken
  PROVE  IInv'
<1>1. store' = [d \in Stores |-> store'[d]]
  BY DEF IInv
<1>2. \A d \in Stores : store'[d] = IF d = c THEN s2 ELSE store[d]
  BY DEF IInv
<1>3. ASSUME NEW d \in Stores \ seededOver PROVE Good(d, store'[d], taken')
  <2>1. CASE d = c
    BY <1>2, <2>1
  <2>2. CASE d # c
    <3>1. Good(d, store[d], taken) /\ store'[d] = store[d]
      BY <1>2, <2>2 DEF IInv
    <3> QED BY <3>1, <2>2, Others
  <2> QED BY <2>1, <2>2
<1> QED BY <1>1, <1>3 DEF IInv

---------------------------------------------------------------------------
(* Requests and their answers at one store.                                   *)

(* A write under way is the only one of its store.                            *)
LEMMA OneWrite ==
  ASSUME NEW c, NEW s, NEW T, Good(c, s, T), NEW w \in {1, 2}
  PROVE  /\ s.writes[w].at = "sent" =>
              w = 1 /\ (SeedCall(s.writes[1]) \/ DrainCall(c, s, s.writes[1]))
         /\ s.writes[w].at = "answered" => w = 1 /\ Answered(c, s, T, s.writes[1])
<1>1. /\ s.writes[2] = NoCall
      /\ \/ s.writes[1] = NoCall \/ SeedCall(s.writes[1]) \/ DrainCall(c, s, s.writes[1])
         \/ Answered(c, s, T, s.writes[1])
  BY DEF Good, Requested
<1>2. NoCall.at = "idle"
  BY DEF NoCall
<1>3. \A r : (SeedCall(r) => r.at = "sent") /\ (DrainCall(c, s, r) => r.at = "sent")
               /\ (Answered(c, s, T, r) => r.at = "answered")
  BY DEF SeedCall, DrainCall, Answered, IsAnswer
<1> QED BY <1>1, <1>2, <1>3

(* ... and so is the answer to a drain.                                      *)
LEMMA OneAnswer ==
  ASSUME NEW c, NEW s, NEW T, Good(c, s, T), NEW w \in {1, 2}, s.writes[w].at = "answered",
         s.writes[w].call.kind = "drain"
  PROVE  w = 1 /\ Answered(c, s, T, s.writes[1]) /\ DrainCall(c, s, s.writes[1].call)
<1>1. w = 1 /\ Answered(c, s, T, s.writes[1])
  BY OneWrite
<1>2. \A r : SeedCall(r) => r.kind = "seed"
  BY DEF SeedCall
<1> QED BY <1>1, <1>2 DEF Answered

(* Replacing a store's first write.                                           *)
withWrite(s, r) == [s EXCEPT !.writes[1] = r]

(* Which variables of a store that leaves alone.                              *)
LEMMA WriteFields ==
  ASSUME NEW s, IsStore(s), NEW r, NEW s2, s2 = withWrite(s, r)
  PROVE  /\ IsStore(s2) /\ s2.intents = s.intents /\ s2.done = s.done
         /\ s2.rejectCap = s.rejectCap
         /\ s2.inflight = s.inflight /\ s2.writes[1] = r /\ s2.writes[2] = s.writes[2]
<1> DEFINE W == [s.writes EXCEPT ![1] = r]
<1>1. s.writes = [w \in {1, 2} |-> s.writes[w]]
  BY DEF IsStore, Fields
<1>2. W = [w \in {1, 2} |-> W[w]] /\ W[1] = r /\ W[2] = s.writes[2]
  BY <1>1
<1>3. s2 = [s EXCEPT !.writes = W]
  BY DEF withWrite
<1> HIDE DEF W
<1>4. s2.writes = W
  BY <1>3 DEF IsStore, Fields
<1>5. IsStore(s2)
  BY <1>2, <1>3, <1>4 DEF IsStore, Fields
<1> QED BY <1>2, <1>3, <1>4, <1>5 DEF IsStore, Fields

(* What a request carries is in the outbox.                                  *)
LEMMA WithinBounds ==
  ASSUME NEW a \in Nat, NEW b \in Nat, NEW l \in 1 .. b - a, NEW n \in a + 1 .. a + l
  PROVE  n \in 1 .. b
  OBVIOUS

told(s, status, seen) ==
  withWrite(s, [at |-> "answered", status |-> status, board |-> seen,
                call |-> [s.writes[1] EXCEPT !.base = 0]])

(* The answer to a request, which took the edits it carried or none.          *)
LEMMA Told ==
  ASSUME NEW c, NEW s, NEW T, Good(c, s, T), NEW T2, NEW status, NEW seen,
         NEW call, call = s.writes[1], SeedCall(call) \/ DrainCall(c, s, call),
         \/ /\ \A n : <<c, n>> \in T2 <=> <<c, n>> \in T
            /\ call.kind = "drain" => status # "ok"
         \/ /\ call.kind = "drain"
            /\ \A n : <<c, n>> \in T2 <=>
                        <<c, n>> \in T \/ n \in s.done + 1 .. s.done + Len(call.prefix)
         \/ /\ call.kind = "seed" /\ \A n : <<c, n>> \in T2 <=> <<c, n>> \in T,
         call.kind = "drain" /\ status = "rejected" => ~validBatch(call.prefix)
  PROVE  Good(c, told(s, status, seen), T2)
<1> DEFINE k == [call EXCEPT !.base = 0]
           r == [at |-> "answered", status |-> status, board |-> seen, call |-> k]
           s2 == told(s, status, seen)
<1> HIDE DEF k
<1>1. SeedCall(call) => SeedCall(k) /\ call.kind = "seed" /\ k.kind = "seed"
  BY DEF SeedCall, k
<1>2. DrainCall(c, s, call) =>
        DrainCall(c, s, k) /\ call.kind = "drain" /\ k.kind = "drain" /\ k.prefix = call.prefix
  BY DEF DrainCall, k
<1>3. r # NoCall /\ IsAnswer(r) /\ r.call = k /\ r.status = status
  BY DEF NoCall, IsAnswer
<1> HIDE DEF r
<1>4. /\ IsStore(s2) /\ s2.intents = s.intents /\ s2.done = s.done
      /\ s2.rejectCap = s.rejectCap
      /\ s2.inflight = s.inflight /\ s2.writes[1] = r /\ s2.writes[2] = s.writes[2]
  <2>1. IsStore(s) /\ s2 = withWrite(s, r)
    BY DEF Good, Typed, told, k, r
  <2> HIDE DEF s2
  <2> QED BY <2>1, WriteFields
<1> HIDE DEF s2
<1>5. call # NoCall
  BY DEF SeedCall, DrainCall, NoCall
<1>6. Typed(c, s2)
  BY <1>4 DEF Good, Typed
<1>7. \A q : DrainCall(c, s2, q) <=> DrainCall(c, s, q)
  BY <1>4 DEF DrainCall
<1>8. Answered(c, s2, T2, r)
  <2>1. CASE SeedCall(call)
    BY <1>1, <1>3, <2>1 DEF Answered
  <2>2. CASE DrainCall(c, s, call)
    <3>1. DrainCall(c, s2, r.call) /\ r.call.prefix = call.prefix /\ call.kind = "drain"
      BY <1>2, <1>3, <1>7, <2>2
    <3>2. r.status = "ok" =>
            \A n \in s2.done + 1 .. s2.done + Len(r.call.prefix) : <<c, n>> \in T2
      BY <1>3, <1>4, <3>1
    <3>3. r.status = "rejected" => ~validBatch(r.call.prefix)
      BY <1>3, <3>1
    <3> QED BY <1>3, <3>1, <3>2, <3>3 DEF Answered
  <2> QED BY <2>1, <2>2
<1>9. Requested(c, s2, T2)
  BY <1>3, <1>4, <1>5, <1>8 DEF Good, Requested
<1>11. InOrder(c, s2, T2)
  <2>1. s.done \in Nat /\ Len(s.intents) \in Nat
    BY DEF Good, Typed
  <2>2. InOrder(c, s, T)
    BY DEF Good
  <2>3. CASE \A n : <<c, n>> \in T2 <=> <<c, n>> \in T
    BY <1>4, <2>2, <2>3 DEF InOrder, lands
  <2>4. CASE /\ call.kind = "drain"
             /\ \A n : <<c, n>> \in T2 <=>
                         <<c, n>> \in T \/ n \in s.done + 1 .. s.done + Len(call.prefix)
    <3>1. Len(call.prefix) \in 1 .. Len(s.intents) - s.done
      BY <1>1, <2>4 DEF DrainCall
    <3>2. ASSUME NEW n, <<c, n>> \in T2 PROVE n \in 1 .. Len(s.intents)
      <4>1. <<c, n>> \in T => n \in 1 .. Len(s.intents)
        BY <2>2 DEF InOrder
      <4>2. n \in s.done + 1 .. s.done + Len(call.prefix) => n \in 1 .. Len(s.intents)
        BY <2>1, <3>1, WithinBounds, Zenon
      <4>3. <<c, n>> \in T \/ n \in s.done + 1 .. s.done + Len(call.prefix)
        BY <2>4, <3>2, Zenon
      <4> QED BY <4>1, <4>2, <4>3, Zenon
    <3>3. \A n \in 1 .. s.done + Len(call.prefix) : lands(c, s, T2, n)
      BY <2>1, <2>2, <2>4, <3>1 DEF InOrder, lands
    <3>4. ASSUME NEW n \in 1 .. Len(s.intents), <<c, n>> \in T2, NEW j \in 1 .. n - 1
          PROVE  lands(c, s, T2, j)
      <4>1. CASE <<c, n>> \in T
        <5>1. lands(c, s, T, j)
          BY <2>2, <3>4, <4>1 DEF InOrder
        <5> QED BY <2>4, <5>1 DEF lands
      <4>2. CASE n \in s.done + 1 .. s.done + Len(call.prefix)
        BY <2>1, <3>1, <3>3, <4>2
      <4> QED BY <2>4, <3>4, <4>1, <4>2
    <3>5. \A n \in 1 .. s.done : lands(c, s, T2, n)
      BY <2>1, <3>1, <3>3
    <3> QED BY <1>4, <3>2, <3>4, <3>5 DEF InOrder, lands
  <2> QED BY <2>3, <2>4
<1> QED BY <1>6, <1>9, <1>11 DEF Good, s2

---------------------------------------------------------------------------
(* The effects of the actions on one store.                                   *)

edited(s, m) == [s EXCEPT !.intents = Append(s.intents, m)]
restarted(s) == [s EXCEPT !.retry = FALSE, !.conflictStreak = 0]
freed(s) == [s EXCEPT !.writes[1] = NoCall, !.inflight = FALSE]

(* Which variables of a store an edit leaves alone.                          *)
LEMMA EditedFields ==
  ASSUME NEW s, IsStore(s), NEW m, NEW s2, s2 = edited(s, m)
  PROVE  /\ IsStore(s2) /\ s2.intents = Append(s.intents, m) /\ s2.done = s.done
         /\ s2.rejectCap = s.rejectCap
         /\ s2.inflight = s.inflight /\ s2.writes = s.writes
<1> DEFINE q == Append(s.intents, m)
<1>1. s2 = [s EXCEPT !.intents = q]
  BY DEF edited
<1> HIDE DEF q
<1>2. IsStore(s2)
  BY <1>1 DEF IsStore, Fields
<1> QED BY <1>1, <1>2 DEF IsStore, Fields, q

(* An edit joins the outbox behind what is under way.                         *)
LEMMA Edited ==
  ASSUME NEW c, NEW s, NEW T, Good(c, s, T), NEW m \in Menu[c]
  PROVE  Good(c, edited(s, m), T)
<1> DEFINE s2 == edited(s, m)
<1>1. /\ IsStore(s2) /\ s2.intents = Append(s.intents, m) /\ s2.done = s.done
      /\ s2.rejectCap = s.rejectCap
      /\ s2.inflight = s.inflight /\ s2.writes = s.writes
  BY EditedFields DEF Good, Typed
<1> HIDE DEF s2
<1>2. s.intents \in Seq(Menu[c]) /\ s.done \in 0 .. Len(s.intents) /\ Len(s.intents) \in Nat
  BY DEF Good, Typed
<1>3. /\ s2.intents \in Seq(Menu[c]) /\ Len(s2.intents) = Len(s.intents) + 1
      /\ \A i \in 1 .. Len(s.intents) : s2.intents[i] = s.intents[i]
  <2> DEFINE q == s.intents
             M == Menu[c]
  <2>1. q \in Seq(M) /\ m \in M
    BY <1>2
  <2> HIDE DEF q, M
  <2>2. /\ Append(q, m) \in Seq(M) /\ Len(Append(q, m)) = Len(q) + 1
        /\ \A i \in 1 .. Len(q) : Append(q, m)[i] = q[i]
    BY <2>1
  <2> QED BY <1>1, <2>2 DEF q, M
<1>4. Typed(c, s2)
  BY <1>1, <1>2, <1>3 DEF Good, Typed
<1>5. Requested(c, s2, T)
  <2>1. ASSUME NEW r, DrainCall(c, s, r) PROVE DrainCall(c, s2, r)
    <3>1. \A i \in 1 .. Len(r.prefix) : s.done + i \in 1 .. Len(s.intents)
      BY <1>2, <2>1 DEF DrainCall
    <3>2. \A i \in 1 .. Len(r.prefix) : r.prefix[i] = s2.intents[s2.done + i]
      BY <1>1, <1>3, <2>1, <3>1 DEF DrainCall
    <3>3. Len(r.prefix) \in 1 .. Len(s2.intents) - s2.done
      BY <1>1, <1>2, <1>3, <2>1 DEF DrainCall
    <3> QED BY <1>1, <2>1, <3>2, <3>3 DEF DrainCall
  <2>2. ASSUME NEW r, Answered(c, s, T, r) PROVE Answered(c, s2, T, r)
    BY <1>1, <2>1, <2>2 DEF Answered
  <2> QED BY <1>1, <2>1, <2>2 DEF Good, Requested
<1>7. InOrder(c, s2, T)
  <2>1. InOrder(c, s, T)
    BY DEF Good
  <2>2. \A n \in 1 .. Len(s.intents) : lands(c, s2, T, n) <=> lands(c, s, T, n)
    BY <1>3 DEF lands
  <2>3. ASSUME NEW n, <<c, n>> \in T PROVE n \in 1 .. Len(s.intents)
    BY <2>1, <2>3 DEF InOrder
  <2>4. \A n \in 1 .. s2.done : lands(c, s2, T, n)
    BY <1>1, <1>2, <2>1, <2>2 DEF InOrder
  <2>5. ASSUME NEW n \in 1 .. Len(s2.intents), <<c, n>> \in T, NEW k \in 1 .. n - 1
        PROVE  lands(c, s2, T, k)
    <3>1. n \in 1 .. Len(s.intents)
      BY <2>3, <2>5
    <3>2. lands(c, s, T, k)
      BY <2>1, <2>5, <3>1 DEF InOrder
    <3> QED BY <1>2, <2>2, <3>1, <3>2
  <2>6. \A n : <<c, n>> \in T => n \in 1 .. Len(s2.intents)
    BY <1>2, <1>3, <2>3
  <2> QED BY <2>4, <2>5, <2>6 DEF InOrder
<1> QED BY <1>4, <1>5, <1>7 DEF Good, s2

(* The timer forgets the conflicts and nothing else.                         *)
LEMMA Restarted ==
  ASSUME NEW c, NEW s, NEW T, Good(c, s, T)
  PROVE  Good(c, restarted(s), T)
<1> DEFINE s2 == restarted(s)
<1>1. IsStore(s)
  BY DEF Good, Typed
<1>2. s2 = [s EXCEPT !.retry = FALSE, !.conflictStreak = 0]
  BY DEF restarted
<1> HIDE DEF s2
<1>3. /\ IsStore(s2) /\ s2.intents = s.intents /\ s2.done = s.done
      /\ s2.rejectCap = s.rejectCap
      /\ s2.inflight = s.inflight /\ s2.writes = s.writes
  BY <1>1, <1>2 DEF IsStore, Fields
<1>4. Good(c, s2, T)
  BY <1>3, Kept
<1> QED BY <1>4 DEF s2

(* Which variables of a store remain when its write is over.                 *)
LEMMA FreedFields ==
  ASSUME NEW s, IsStore(s), s.writes[2] = NoCall, NEW s2, s2 = freed(s)
  PROVE  /\ IsStore(s2) /\ s2.intents = s.intents /\ s2.done = s.done
         /\ s2.rejectCap = s.rejectCap
         /\ s2.inflight = FALSE /\ s2.writes[1] = NoCall /\ s2.writes[2] = NoCall
<1> DEFINE W == [s.writes EXCEPT ![1] = NoCall]
<1>1. W = [w \in {1, 2} |-> W[w]] /\ W[1] = NoCall /\ W[2] = NoCall
  <2>1. s.writes = [w \in {1, 2} |-> s.writes[w]]
    BY DEF IsStore, Fields
  <2> QED BY <2>1
<1>2. s2 = [s EXCEPT !.writes = W, !.inflight = FALSE]
  BY DEF freed
<1> HIDE DEF W
<1>3. s2.writes = W
  BY <1>2 DEF IsStore, Fields
<1>4. IsStore(s2)
  BY <1>1, <1>2, <1>3 DEF IsStore, Fields
<1> QED BY <1>1, <1>2, <1>3, <1>4 DEF IsStore, Fields

(* What the handlers of answers leave of a store before they drain it.        *)
accepted(s, b, d) ==
  [freed(s) EXCEPT !.retry = FALSE, !.conflictStreak = 0, !.rejectCap = 0,
                   !.unavailable = FALSE, !.confirmed = b, !.done = d]
refused(s, cap, d) ==
  [freed(s) EXCEPT !.retry = FALSE, !.conflictStreak = 0, !.rejectCap = cap, !.done = d]
overtaken(s, b) == [freed(s) EXCEPT !.confirmed = b, !.conflictStreak = @ + 1]
delayed(s) == [s EXCEPT !.retry = TRUE]
skewed(s) == [freed(s) EXCEPT !.rejectCap = 0, !.unavailable = TRUE, !.retry = TRUE]
seeded(s, b) == [freed(s) EXCEPT !.confirmed = b]

(* A handled answer leaves the outbox, or drops from it what has landed.     *)
LEMMA Handled ==
  ASSUME NEW c, NEW s, NEW T, Good(c, s, T), NEW s2, IsStore(s2),
         s2.intents = freed(s).intents,
         s2.inflight = freed(s).inflight, s2.writes = freed(s).writes,
         s2.rejectCap \in Nat,
         s2.done \in s.done .. Len(s.intents),
         \A n \in s.done + 1 .. s2.done : lands(c, s, T, n)
  PROVE  Good(c, s2, T)
<1>1. IsStore(s) /\ s.writes[2] = NoCall
  BY DEF Good, Typed, Requested
<1>2. /\ freed(s).intents = s.intents /\ freed(s).inflight = FALSE
      /\ freed(s).writes[1] = NoCall /\ freed(s).writes[2] = NoCall
  BY <1>1, FreedFields
<1>3. /\ s2.intents = s.intents
      /\ s2.inflight = FALSE /\ s2.writes[1] = NoCall /\ s2.writes[2] = NoCall
  BY <1>2
<1> QED BY <1>3, Quiet

(* An acceptance drops edits that were taken.                                *)
LEMMA AcceptedStore ==
  ASSUME NEW c, NEW s, NEW T, Good(c, s, T), NEW b, NEW d \in s.done .. Len(s.intents),
         \A n \in s.done + 1 .. d : lands(c, s, T, n)
  PROVE  Good(c, accepted(s, b, d), T)
<1> DEFINE f == freed(s)
           s2 == accepted(s, b, d)
<1>1. IsStore(f)
  BY FreedFields DEF Good, Typed, Requested
<1>2. s2 = [f EXCEPT !.retry = FALSE, !.conflictStreak = 0, !.rejectCap = 0,
                     !.unavailable = FALSE, !.confirmed = b, !.done = d]
  BY DEF accepted
<1> HIDE DEF f, s2
<1>3. /\ IsStore(s2) /\ s2.intents = f.intents
      /\ s2.inflight = f.inflight /\ s2.writes = f.writes /\ s2.rejectCap = 0 /\ s2.done = d
  BY <1>1, <1>2 DEF IsStore, Fields
<1>4. Good(c, s2, T)
  BY <1>3, Handled DEF f
<1> QED BY <1>4 DEF s2

(* A refusal drops nothing, or the one edit that is bad.                     *)
LEMMA RefusedStore ==
  ASSUME NEW c, NEW s, NEW T, Good(c, s, T), NEW cap \in Nat,
         NEW d \in s.done .. Len(s.intents), \A n \in s.done + 1 .. d : lands(c, s, T, n)
  PROVE  Good(c, refused(s, cap, d), T)
<1> DEFINE f == freed(s)
           s2 == refused(s, cap, d)
<1>1. IsStore(f)
  BY FreedFields DEF Good, Typed, Requested
<1>2. s2 = [f EXCEPT !.retry = FALSE, !.conflictStreak = 0, !.rejectCap = cap, !.done = d]
  BY DEF refused
<1> HIDE DEF f, s2
<1>3. /\ IsStore(s2) /\ s2.intents = f.intents
      /\ s2.inflight = f.inflight /\ s2.writes = f.writes /\ s2.rejectCap = cap /\ s2.done = d
  BY <1>1, <1>2 DEF IsStore, Fields
<1>4. Good(c, s2, T)
  BY <1>3, Handled DEF f
<1> QED BY <1>4 DEF s2

(* A conflict, an error and a seed's answer drop nothing.                     *)
LEMMA SameOutbox ==
  ASSUME NEW c, NEW s, NEW T, Good(c, s, T), NEW b
  PROVE  /\ Good(c, overtaken(s, b), T) /\ Good(c, delayed(overtaken(s, b)), T)
         /\ Good(c, skewed(s), T) /\ Good(c, delayed(freed(s)), T) /\ Good(c, seeded(s, b), T)
<1> DEFINE f == freed(s)
           o == overtaken(s, b)
<1>1. /\ IsStore(f) /\ f.done = s.done /\ f.rejectCap = s.rejectCap
      /\ f.rejectCap \in Nat /\ s.done \in s.done .. Len(s.intents)
      /\ \A n \in s.done + 1 .. s.done : lands(c, s, T, n)
  <2>1. IsStore(s) /\ s.writes[2] = NoCall /\ s.rejectCap \in Nat
    BY DEF Good, Typed, Requested
  <2>2. s.done \in Nat /\ Len(s.intents) \in Nat /\ s.done <= Len(s.intents)
    BY DEF Good, Typed
  <2>3. IsStore(f) /\ f.done = s.done /\ f.rejectCap = s.rejectCap
    BY <2>1, FreedFields
  <2> QED BY <2>1, <2>2, <2>3
<1>2. /\ o = [f EXCEPT !.confirmed = b, !.conflictStreak = @ + 1]
      /\ skewed(s) = [f EXCEPT !.rejectCap = 0, !.unavailable = TRUE, !.retry = TRUE]
      /\ delayed(f) = [f EXCEPT !.retry = TRUE] /\ seeded(s, b) = [f EXCEPT !.confirmed = b]
      /\ delayed(o) = [o EXCEPT !.retry = TRUE]
  BY DEF overtaken, skewed, delayed, seeded
<1> HIDE DEF f, o
<1>3. ASSUME NEW s2, IsStore(s2), s2.intents = f.intents, s2.inflight = f.inflight, s2.writes = f.writes,
             s2.rejectCap \in Nat, s2.done = f.done
      PROVE  Good(c, s2, T)
  BY <1>1, <1>3, Handled DEF f
<1>4. /\ IsStore(o) /\ o.intents = f.intents
      /\ o.inflight = f.inflight /\ o.writes = f.writes /\ o.rejectCap = f.rejectCap
      /\ o.done = f.done
  BY <1>1, <1>2 DEF IsStore, Fields
<1>5. ASSUME NEW s2, s2 = [o EXCEPT !.retry = TRUE] PROVE Good(c, s2, T)
  <2>1. /\ IsStore(s2) /\ s2.intents = f.intents
        /\ s2.inflight = f.inflight /\ s2.writes = f.writes /\ s2.rejectCap = f.rejectCap
        /\ s2.done = f.done
    BY <1>4, <1>5 DEF IsStore, Fields
  <2> QED BY <1>1, <1>3, <2>1
<1>6. ASSUME NEW s2, \/ s2 = [f EXCEPT !.rejectCap = 0, !.unavailable = TRUE, !.retry = TRUE]
                     \/ s2 = [f EXCEPT !.retry = TRUE] \/ s2 = [f EXCEPT !.confirmed = b]
      PROVE  Good(c, s2, T)
  <2>1. /\ IsStore(s2) /\ s2.intents = f.intents
        /\ s2.inflight = f.inflight /\ s2.writes = f.writes /\ s2.rejectCap \in {0, f.rejectCap}
        /\ s2.done = f.done
    BY <1>1, <1>6 DEF IsStore, Fields
  <2> QED BY <1>1, <1>3, <2>1
<1>7. Good(c, o, T)
  BY <1>1, <1>3, <1>4
<1>8. Good(c, delayed(o), T)
  BY <1>2, <1>5
<1>9. Good(c, skewed(s), T) /\ Good(c, delayed(f), T) /\ Good(c, seeded(s, b), T)
  BY <1>2, <1>6
<1> QED BY <1>7, <1>8, <1>9 DEF f, o

(* Loads and polls change neither the outbox nor what is under way.           *)
opened(s) == [s EXCEPT !.load = NoCall, !.loaded = TRUE]
showing(s, b) == [opened(s) EXCEPT !.confirmed = b]
offline(s) == [s EXCEPT !.load = NoCall, !.loaded = TRUE, !.unavailable = TRUE]
fetched(s, b) == [s EXCEPT !.load = [at |-> "answered", board |-> b]]
polling(s, p) == [s EXCEPT !.poll = p]
seeding(s, b, r) ==
  [opened(s) EXCEPT !.confirmed = b, !.inflight = TRUE, !.writes[1] = r]

(* A load that is over, with a board or without.                             *)
LEMMA Shown ==
  ASSUME NEW c, NEW s, NEW T, Good(c, s, T), NEW b
  PROVE  Good(c, showing(s, b), T) /\ Good(c, offline(s), T)
<1>1. ASSUME NEW s2, \/ s2 = [s EXCEPT !.load = NoCall, !.loaded = TRUE, !.confirmed = b]
                     \/ s2 = [s EXCEPT !.load = NoCall, !.loaded = TRUE, !.unavailable = TRUE]
      PROVE  Good(c, s2, T)
  <2>1. IsStore(s)
    BY DEF Good, Typed
  <2>2. /\ IsStore(s2) /\ s2.intents = s.intents
        /\ s2.inflight = s.inflight /\ s2.writes = s.writes /\ s2.rejectCap = s.rejectCap
        /\ s2.done = s.done
    BY <1>1, <2>1 DEF IsStore, Fields
  <2> QED BY <2>2, Kept
<1>2. showing(s, b) = [s EXCEPT !.load = NoCall, !.loaded = TRUE, !.confirmed = b]
  BY DEF showing, opened
<1>3. offline(s) = [s EXCEPT !.load = NoCall, !.loaded = TRUE, !.unavailable = TRUE]
  BY DEF offline
<1> QED BY <1>1, <1>2, <1>3

(* A load answered by the server.                                            *)
LEMMA Fetched ==
  ASSUME NEW c, NEW s, NEW T, Good(c, s, T), NEW b
  PROVE  Good(c, fetched(s, b), T)
<1> DEFINE s2 == fetched(s, b)
           a == [at |-> "answered", board |-> b]
<1>1. IsStore(s) /\ s2 = [s EXCEPT !.load = a]
  BY DEF Good, Typed, fetched
<1> HIDE DEF s2, a
<1>2. /\ IsStore(s2) /\ s2.intents = s.intents /\ s2.done = s.done
      /\ s2.inflight = s.inflight /\ s2.writes = s.writes /\ s2.rejectCap = s.rejectCap
  BY <1>1 DEF IsStore, Fields
<1>3. Good(c, s2, T)
  BY <1>2, Kept
<1> QED BY <1>3 DEF s2

(* A poll under way, and one that is over.                                   *)
LEMMA PollingStore ==
  ASSUME NEW c, NEW s, NEW T, Good(c, s, T), NEW p, NEW b
  PROVE  Good(c, polling(s, p), T) /\ Good(c, adopted(s, b), T)
<1>1. ASSUME NEW s2, \/ s2 = [s EXCEPT !.poll = p]
                     \/ s2 = [s EXCEPT !.confirmed = b, !.unavailable = FALSE]
      PROVE  Good(c, s2, T)
  <2>1. IsStore(s)
    BY DEF Good, Typed
  <2>2. /\ IsStore(s2) /\ s2.intents = s.intents
        /\ s2.inflight = s.inflight /\ s2.writes = s.writes /\ s2.rejectCap = s.rejectCap
        /\ s2.done = s.done
    BY <1>1, <2>1 DEF IsStore, Fields
  <2> QED BY <2>2, Kept
<1>2. polling(s, p) = [s EXCEPT !.poll = p]
  BY DEF polling
<1>3. \/ adopted(s, b) = s
      \/ adopted(s, b) = [s EXCEPT !.confirmed = b, !.unavailable = FALSE]
  BY DEF adopted
<1> QED BY <1>1, <1>2, <1>3

(* The seed is sent by a store that has no drain in flight.                    *)
LEMMA SeedingStore ==
  ASSUME NEW c, NEW s, NEW T, Good(c, s, T), NEW b, NEW r, SeedCall(r)
  PROVE  Good(c, seeding(s, b, r), T)
<1> DEFINE s2 == seeding(s, b, r)
           W == [s.writes EXCEPT ![1] = r]
<1>1. IsStore(s) /\ s.writes[2] = NoCall /\ r # NoCall
  BY DEF Good, Typed, Requested, SeedCall, NoCall
<1>2. W = [w \in {1, 2} |-> W[w]] /\ W[1] = r /\ W[2] = NoCall
  <2>1. s.writes = [w \in {1, 2} |-> s.writes[w]]
    BY <1>1 DEF IsStore
  <2> QED BY <1>1, <2>1
<1>3. s2 = [s EXCEPT !.load = NoCall, !.loaded = TRUE, !.confirmed = b,
                     !.inflight = TRUE, !.writes = W]
  BY DEF seeding, opened
<1> HIDE DEF s2, W
<1>4. /\ s2.writes = W /\ s2.intents = s.intents
      /\ s2.inflight = TRUE /\ s2.rejectCap = s.rejectCap /\ s2.done = s.done
      /\ s2 = [f \in Fields |-> s2[f]]
  BY <1>1, <1>3 DEF IsStore, Fields
<1>5. Typed(c, s2)
  BY <1>2, <1>4 DEF Good, Typed, IsStore
<1>6. Requested(c, s2, T)
  BY <1>1, <1>2, <1>4 DEF Requested
<1>8. InOrder(c, s2, T)
  BY <1>4 DEF Good, InOrder, lands
<1>9. Good(c, s2, T)
  BY <1>5, <1>6, <1>8 DEF Good
<1> QED BY <1>9 DEF s2

---------------------------------------------------------------------------
(* Each action preserves the invariant.                                       *)

LEMMA MutateStep ==
  ASSUME IInv, NEW c \in Stores \ seededOver, seededOver' = seededOver, NEW m \in Menu[c], Mutate(c, m) PROVE IInv'
<1>1. Good(c, store[c], taken)
  BY DEF IInv
<1>2. /\ taken' = taken
      /\ store' = [store EXCEPT ![c] = drain(edited(store[c], m))]
  BY DEF Mutate, update, edited
<1>3. Good(c, drain(edited(store[c], m)), taken')
  BY <1>1, <1>2, Edited, Sent
<1> QED BY <1>2, <1>3, Updates

(* The timer.                                                                *)
LEMMA RetryStep ==
  ASSUME IInv, NEW c \in Stores \ seededOver, seededOver' = seededOver, RetryFires(c) PROVE IInv'
<1>1. Good(c, store[c], taken)
  BY DEF IInv
<1>2. taken' = taken /\ store' = [store EXCEPT ![c] = drain(restarted(store[c]))]
  BY DEF RetryFires, update, restarted
<1>3. Good(c, drain(restarted(store[c])), taken')
  BY <1>1, <1>2, Restarted, Sent
<1> QED BY <1>2, <1>3, Updates

(* An answer as an update of the store.                                       *)
LEMMA AnswerTold ==
  ASSUME NEW c, NEW status, NEW seen, answer(c, 1, status, seen)
  PROVE  store' = [store EXCEPT ![c] = told(store[c], status, seen)]
  BY DEF answer, told, withWrite

(* The server takes the edits of a request only when it accepts it.           *)
LEMMA ServeStep ==
  ASSUME IInv, NEW c \in Stores \ seededOver, seededOver' = seededOver, NEW w \in {1, 2}, Serve(c, w) PROVE IInv'
<1> DEFINE call == store[c].writes[1]
<1>1. Good(c, store[c], taken)
  BY DEF IInv
<1>2. w = 1 /\ (SeedCall(call) \/ DrainCall(c, store[c], call))
  BY <1>1, OneWrite DEF Serve
<1>3. PICK prefs, seen :
        LET status == verdict(call, prefs)
        IN /\ answer(c, 1, status, seen)
           /\ \/ status = "ok" /\ taken' = takes(c, call)
              \/ status # "ok" /\ taken' = taken
  BY <1>2 DEF Serve
<1> DEFINE status == verdict(call, prefs)
<1>4. call.kind = "drain" /\ status = "rejected" => ~validBatch(call.prefix)
  BY DEF verdict
<1> HIDE DEF status
<1>5. store' = [store EXCEPT ![c] = told(store[c], status, seen)]
  BY <1>3, AnswerTold DEF status
<1>6. /\ call.kind = "drain" => call.first = store[c].done
      /\ call.kind \in {"seed", "drain"}
  BY <1>2 DEF SeedCall, DrainCall
<1> HIDE DEF call
<1>7. CASE call.kind = "drain" /\ status = "ok"
  <2>1. \A d, n : <<d, n>> \in taken' <=>
           \/ <<d, n>> \in taken
           \/ d = c /\ n \in store[c].done + 1 .. store[c].done + Len(call.prefix)
    BY <1>3, <1>6, <1>7 DEF takes, status, call
  <2>2. Good(c, told(store[c], status, seen), taken')
    BY <1>1, <1>2, <1>4, <1>7, <2>1, Told DEF call
  <2> QED BY <1>5, <2>1, <2>2, Updates
<1>8. CASE call.kind = "seed" \/ status # "ok"
  <2>1. taken' = taken
    BY <1>3, <1>8 DEF takes, status, call
  <2>2. Good(c, told(store[c], status, seen), taken')
    BY <1>1, <1>2, <1>4, <1>6, <1>8, <2>1, Told DEF call
  <2> QED BY <1>5, <2>1, <2>2, Updates
<1> QED BY <1>6, <1>7, <1>8

(* A request that does not get through.                                      *)
LEMMA WriteFailsStep ==
  ASSUME IInv, NEW c \in Stores \ seededOver, seededOver' = seededOver, NEW w \in {1, 2}, WriteFails(c, w) PROVE IInv'
<1> DEFINE call == store[c].writes[1]
<1>1. Good(c, store[c], taken)
  BY DEF IInv
<1>2. w = 1 /\ (SeedCall(call) \/ DrainCall(c, store[c], call))
  BY <1>1, OneWrite DEF WriteFails
<1>3. PICK status \in {"error", "envelope"} : answer(c, 1, status, emptyBoard)
  BY <1>2 DEF WriteFails
<1>4. taken' = taken
  BY DEF WriteFails
<1>5. store' = [store EXCEPT ![c] = told(store[c], status, emptyBoard)]
  BY <1>3, AnswerTold
<1>6. Good(c, told(store[c], status, emptyBoard), taken')
  BY <1>1, <1>2, <1>4, Told
<1> QED BY <1>4, <1>5, <1>6, Updates

(* A lost acceptance is an error to the store.                                *)
lost(s) == withWrite(s, [s.writes[1] EXCEPT !.status = "error", !.board = emptyBoard])

(* The store still has the edits that were taken, and sends them again.      *)
LEMMA LostStore ==
  ASSUME NEW c, NEW s, NEW T, Good(c, s, T), Answered(c, s, T, s.writes[1])
  PROVE  Good(c, lost(s), T)
<1> DEFINE r == [s.writes[1] EXCEPT !.status = "error", !.board = emptyBoard]
           s2 == lost(s)
<1>1. r # NoCall /\ r.status = "error" /\ r.call = s.writes[1].call
        /\ IsAnswer(r)
  <2> DEFINE q == s.writes[1]
  <2>1. IsAnswer(q)
    BY DEF Answered
  <2>2. r = [q EXCEPT !.status = "error", !.board = emptyBoard]
    OBVIOUS
  <2> HIDE DEF q, r
  <2>3. IsAnswer(r) /\ r.status = "error" /\ r.call = q.call
    BY <2>1, <2>2 DEF IsAnswer
  <2> QED BY <2>3 DEF IsAnswer, NoCall, q
<1>2. IsStore(s) /\ s2 = withWrite(s, r) /\ s.writes[1] # NoCall
  BY DEF Good, Typed, lost, Answered, IsAnswer, NoCall
<1> HIDE DEF r, s2
<1>3. /\ IsStore(s2) /\ s2.intents = s.intents /\ s2.done = s.done
      /\ s2.rejectCap = s.rejectCap
      /\ s2.inflight = s.inflight /\ s2.writes[1] = r /\ s2.writes[2] = s.writes[2]
  BY <1>2, WriteFields
<1>4. \A q : DrainCall(c, s2, q) <=> DrainCall(c, s, q)
  BY <1>3 DEF DrainCall
<1>5. Answered(c, s2, T, r)
  BY <1>1, <1>4 DEF Answered
<1>6. Typed(c, s2)
  BY <1>3 DEF Good, Typed
<1>7. Requested(c, s2, T)
  BY <1>1, <1>2, <1>3, <1>5 DEF Good, Requested
<1>9. InOrder(c, s2, T)
  BY <1>3 DEF Good, InOrder, lands
<1>10. Good(c, s2, T)
  BY <1>6, <1>7, <1>9 DEF Good
<1> QED BY <1>10 DEF s2

(* An acceptance that does not get back.                                     *)
LEMMA AnswerLostStep ==
  ASSUME IInv, NEW c \in Stores \ seededOver, seededOver' = seededOver, NEW w \in {1, 2}, AnswerLost(c, w) PROVE IInv'
<1>1. Good(c, store[c], taken)
  BY DEF IInv
<1>2. w = 1 /\ Answered(c, store[c], taken, store[c].writes[1]) /\ taken' = taken
  BY <1>1, OneWrite DEF AnswerLost
<1>3. AnswerLost(c, 1)
  BY <1>2
<1>4. store' = [store EXCEPT ![c] = lost(store[c])]
  BY <1>3 DEF AnswerLost, update, lost, withWrite
<1>5. Good(c, lost(store[c]), taken')
  BY <1>1, <1>2, LostStore
<1> QED BY <1>2, <1>4, <1>5, Updates

---------------------------------------------------------------------------
(* The answers handled.                                                       *)

LEMMA DrainAnswer ==
  ASSUME IInv, NEW c \in Stores \ seededOver, seededOver' = seededOver, NEW w \in {1, 2}, NEW status, answered(c, w, "drain", status)
  PROVE  /\ w = 1 /\ Good(c, store[c], taken)
         /\ Answered(c, store[c], taken, store[c].writes[1])
         /\ DrainCall(c, store[c], store[c].writes[1].call)
         /\ store[c].writes[1].call.kind = "drain" /\ store[c].writes[1].status = status
<1>1. Good(c, store[c], taken)
  BY DEF IInv
<1>2. store[c].writes[w].at = "answered" /\ store[c].writes[w].call.kind = "drain"
        /\ store[c].writes[w].status = status
  BY DEF answered
<1> QED BY <1>1, <1>2, OneAnswer

(* An acceptance handled.                                                    *)
LEMMA AcceptedStep ==
  ASSUME IInv, NEW c \in Stores \ seededOver, seededOver' = seededOver, NEW w \in {1, 2}, Accepted(c, w) PROVE IInv'
<1> DEFINE s == store[c]
           r == s.writes[1]
           d == dropped(s, Len(r.call.prefix))
<1>1. /\ w = 1 /\ Good(c, s, taken) /\ Answered(c, s, taken, r) /\ DrainCall(c, s, r.call)
      /\ r.call.kind = "drain" /\ r.status = "ok"
  BY DrainAnswer DEF Accepted
<1>2. Accepted(c, 1)
  BY <1>1
<1>3. taken' = taken /\ store' = [store EXCEPT ![c] = drain(accepted(s, r.board, d))]
  BY <1>2 DEF Accepted, update, accepted, freed, resumed, sentLength
<1> HIDE DEF s, r
<1>4. s.done \in Nat /\ Len(s.intents) \in Nat /\ Len(r.call.prefix) \in 1 .. Len(s.intents) - s.done
  BY <1>1 DEF Good, Typed, DrainCall
<1>5. d = s.done + Len(r.call.prefix) /\ d \in s.done .. Len(s.intents)
  BY <1>4 DEF dropped
<1> HIDE DEF d
<1>6. \A n \in s.done + 1 .. d : lands(c, s, taken, n)
  BY <1>1, <1>5 DEF Answered, lands
<1>7. Good(c, accepted(s, r.board, d), taken)
  BY <1>1, <1>5, <1>6, AcceptedStore
<1>8. Good(c, drain(accepted(s, r.board, d)), taken')
  BY <1>3, <1>7, Sent
<1> QED BY <1>3, <1>8, Updates DEF s, r

(* Half of a refused request is a number again.                              *)
LEMMA Half == ASSUME NEW n \in Nat PROVE n \div 2 \in Nat
  OBVIOUS

(* A refusal handled: only an edit that stands alone is dropped.             *)
LEMMA RejectedStep ==
  ASSUME IInv, NEW c \in Stores \ seededOver, seededOver' = seededOver, NEW w \in {1, 2}, Rejected(c, w) PROVE IInv'
<1> DEFINE s == store[c]
           r == s.writes[1]
           alone == Len(r.call.prefix) = 1
           cap == IF alone THEN 0 ELSE Len(r.call.prefix) \div 2
           d == IF alone THEN dropped(s, 1) ELSE freed(s).done
<1>1. /\ w = 1 /\ Good(c, s, taken) /\ Answered(c, s, taken, r) /\ DrainCall(c, s, r.call)
      /\ r.call.kind = "drain" /\ r.status = "rejected"
  BY DrainAnswer DEF Rejected
<1>2. Rejected(c, 1)
  BY <1>1
<1>3. taken' = taken /\ store' = [store EXCEPT ![c] = drain(refused(s, cap, d))]
  BY <1>2 DEF Rejected, update, refused, freed, resumed, sentLength
<1> HIDE DEF s, r
<1>4. s.done \in Nat /\ Len(s.intents) \in Nat /\ Len(r.call.prefix) \in 1 .. Len(s.intents) - s.done
  BY <1>1 DEF Good, Typed, DrainCall
<1>5. freed(s).done = s.done
  <2>1. IsStore(s) /\ s.writes[2] = NoCall
    BY <1>1 DEF Good, Typed, Requested
  <2> QED BY <2>1, FreedFields
<1>6. cap \in Nat
  <2>1. Len(r.call.prefix) \in Nat
    BY <1>4
  <2>2. Len(r.call.prefix) \div 2 \in Nat
    BY <2>1, Half
  <2> QED BY <2>2, Zenon
<1>7. d = (IF alone THEN s.done + 1 ELSE s.done) /\ d \in s.done .. Len(s.intents)
  BY <1>4, <1>5 DEF dropped
<1> HIDE DEF cap, d
<1>8. ASSUME alone PROVE ~validBatch(<<s.intents[s.done + 1]>>)
  <2>1. r.call.prefix \in Seq(Menu[c]) /\ r.call.prefix[1] = s.intents[s.done + 1]
    BY <1>1, <1>8 DEF DrainCall
  <2>2. r.call.prefix = <<s.intents[s.done + 1]>>
    BY <1>8, <2>1
  <2> QED BY <1>1, <2>2 DEF Answered
<1>9. \A n \in s.done + 1 .. d : lands(c, s, taken, n)
  BY <1>4, <1>7, <1>8 DEF lands
<1>10. Good(c, refused(s, cap, d), taken)
  BY <1>1, <1>6, <1>7, <1>9, RefusedStore
<1>11. Good(c, drain(refused(s, cap, d)), taken')
  BY <1>3, <1>10, Sent
<1> QED BY <1>3, <1>11, Updates DEF s, r

(* A conflict, an error and skew drop nothing.                                *)
LEMMA ConflictedStep ==
  ASSUME IInv, NEW c \in Stores \ seededOver, seededOver' = seededOver, NEW w \in {1, 2}, Conflicted(c, w) PROVE IInv'
<1> DEFINE o == overtaken(store[c], store[c].writes[1].board)
<1>1. w = 1 /\ Good(c, store[c], taken)
  BY DrainAnswer DEF Conflicted
<1>2. Conflicted(c, 1)
  BY <1>1
<1>3. /\ taken' = taken
      /\ \/ store' = [store EXCEPT ![c] = drain(o)]
         \/ store' = [store EXCEPT ![c] = delayed(o)]
  BY <1>2 DEF Conflicted, update, overtaken, delayed, freed, resumed
<1>4. Good(c, o, taken) /\ Good(c, delayed(o), taken)
  BY <1>1, SameOutbox
<1> HIDE DEF o
<1>5. Good(c, drain(o), taken') /\ Good(c, delayed(o), taken')
  BY <1>3, <1>4, Sent
<1> QED BY <1>3, <1>5, Updates

(* Skew handled.                                                             *)
LEMMA SkewFoundStep ==
  ASSUME IInv, NEW c \in Stores \ seededOver, seededOver' = seededOver, NEW w \in {1, 2}, SkewFound(c, w) PROVE IInv'
<1>1. w = 1 /\ Good(c, store[c], taken)
  BY DrainAnswer DEF SkewFound
<1>2. SkewFound(c, 1)
  BY <1>1
<1>3. taken' = taken /\ store' = [store EXCEPT ![c] = skewed(store[c])]
  BY <1>2 DEF SkewFound, update, skewed, freed, resumed
<1>4. Good(c, skewed(store[c]), taken')
  BY <1>1, <1>3, SameOutbox
<1> QED BY <1>3, <1>4, Updates

(* An error handled.                                                         *)
LEMMA FailedStep ==
  ASSUME IInv, NEW c \in Stores \ seededOver, seededOver' = seededOver, NEW w \in {1, 2}, Failed(c, w) PROVE IInv'
<1>1. w = 1 /\ Good(c, store[c], taken)
  BY DrainAnswer DEF Failed
<1>2. Failed(c, 1)
  BY <1>1
<1>3. taken' = taken /\ store' = [store EXCEPT ![c] = delayed(freed(store[c]))]
  BY <1>2 DEF Failed, update, delayed, freed, resumed
<1>4. Good(c, delayed(freed(store[c])), taken')
  BY <1>1, <1>3, SameOutbox
<1> QED BY <1>3, <1>4, Updates

(* The answer to the seed handled.                                           *)
LEMMA SeededStep ==
  ASSUME IInv, NEW c \in Stores \ seededOver, seededOver' = seededOver, NEW w \in {1, 2}, Seeded(c, w) PROVE IInv'
<1>1. Good(c, store[c], taken)
  BY DEF IInv
<1>2. w = 1
  BY <1>1, OneWrite DEF Seeded, answered
<1>3. Seeded(c, 1)
  BY <1>2
<1>4. PICK b : taken' = taken /\ store' = [store EXCEPT ![c] = drain(seeded(store[c], b))]
  BY <1>3 DEF Seeded, update, seeded, freed, resumed
<1>5. Good(c, drain(seeded(store[c], b)), taken')
  BY <1>1, <1>4, SameOutbox, Sent
<1> QED BY <1>4, <1>5, Updates

---------------------------------------------------------------------------
(* Loads and polls.                                                           *)

LEMMA ServeLoadStep ==
  ASSUME IInv, NEW c \in Stores \ seededOver, seededOver' = seededOver, ServeLoad(c) PROVE IInv'
<1>1. Good(c, store[c], taken)
  BY DEF IInv
<1>2. /\ taken' = taken /\ store[c].load.at = "sent"
      /\ store' = [store EXCEPT ![c] = fetched(store[c], board)]
  BY DEF ServeLoad, update, fetched
<1>3. Good(c, fetched(store[c], board), taken')
  BY <1>1, <1>2, Fetched
<1> QED BY <1>2, <1>3, Updates

(* A load that fails.                                                        *)
LEMMA LoadFailsStep ==
  ASSUME IInv, NEW c \in Stores \ seededOver, seededOver' = seededOver, LoadFails(c) PROVE IInv'
<1>1. Good(c, store[c], taken)
  BY DEF IInv
<1>2. taken' = taken /\ store' = [store EXCEPT ![c] = offline(store[c])]
  BY DEF LoadFails, update, offline
<1>3. Good(c, offline(store[c]), taken')
  BY <1>1, <1>2, Shown
<1> QED BY <1>2, <1>3, Updates

(* A load; its seed goes out while no drain is under way.                     *)
LEMMA LoadedStep ==
  ASSUME IInv, NEW c \in Stores \ seededOver, seededOver' = seededOver, Loaded(c) PROVE IInv'
<1>1. Good(c, store[c], taken) /\ taken' = taken
  BY DEF IInv, Loaded
<1>2. CASE ~seeds(c)
  <2>1. store' = [store EXCEPT ![c] = showing(store[c], store[c].load.board)]
    BY <1>2 DEF Loaded, update, showing, opened
  <2>2. Good(c, showing(store[c], store[c].load.board), taken')
    BY <1>1, Shown
  <2> QED BY <1>1, <2>1, <2>2, Updates
<1>3. CASE seeds(c)
  <2> DEFINE r == [at |-> "sent", kind |-> "seed", base |-> 0,
                   fallback |-> store[c].load.board]
  <2>1. ~store[c].inflight
    BY <1>3 DEF Loaded
  <2>2. store[c].writes[1] = NoCall
    BY <1>1, <2>1 DEF Good, Requested
  <2>3. freeSlot(store[c]) = 1 /\ SeedCall(r)
    BY <2>2 DEF freeSlot, SeedCall
  <2>4. \E b : store' = [store EXCEPT ![c] = seeding(store[c], b, r)]
    BY <1>3, <2>3 DEF Loaded, update, seeding, opened
  <2> HIDE DEF r
  <2>5. PICK b : store' = [store EXCEPT ![c] = seeding(store[c], b, r)]
    BY <2>4
  <2>6. Good(c, seeding(store[c], b, r), taken')
    BY <1>1, <2>2, <2>3, SeedingStore
  <2> QED BY <1>1, <2>5, <2>6, Updates
<1> QED BY <1>2, <1>3

(* A poll, answered at once or late.                                         *)
LEMMA PollStep ==
  ASSUME IInv, NEW c \in Stores \ seededOver, seededOver' = seededOver, Poll(c) \/ PollDelayed(c) \/ Polled(c) PROVE IInv'
<1>1. Good(c, store[c], taken) /\ taken' = taken
  BY DEF IInv, Poll, PollDelayed, Polled
<1>2. \E p, b : \/ store' = [store EXCEPT ![c] = adopted(store[c], b)]
                \/ store' = [store EXCEPT ![c] = polling(store[c], p)]
                \/ store' = [store EXCEPT ![c] = adopted(polling(store[c], p), b)]
  BY DEF Poll, PollDelayed, Polled, update, polling
<1>3. PICK p, b : \/ store' = [store EXCEPT ![c] = adopted(store[c], b)]
                  \/ store' = [store EXCEPT ![c] = polling(store[c], p)]
                  \/ store' = [store EXCEPT ![c] = adopted(polling(store[c], p), b)]
  BY <1>2
<1>4. /\ Good(c, adopted(store[c], b), taken') /\ Good(c, polling(store[c], p), taken')
      /\ Good(c, adopted(polling(store[c], p), b), taken')
  BY <1>1, PollingStore
<1> QED BY <1>1, <1>3, <1>4, Updates

---------------------------------------------------------------------------
(* The theorem.                                                               *)

LEMMA NewStoreGood ==
  ASSUME NEW c \in Stores
  PROVE  Good(c, newStore(c), {})
<1> DEFINE s == newStore(c)
<1>1. /\ s = [f \in Fields |-> s[f]] /\ s.intents = <<>> /\ s.done = 0 /\ s.rejectCap = 0
      /\ s.inflight = FALSE /\ s.writes = [w \in {1, 2} |-> NoCall]
  BY DEF newStore, Fields
<1> HIDE DEF s
<1>2. IsStore(s) /\ s.writes[1] = NoCall /\ s.writes[2] = NoCall
  BY <1>1 DEF IsStore
<1>3. Typed(c, s)
  <2>1. <<>> \in Seq(Menu[c]) /\ Len(<<>>) = 0
    OBVIOUS
  <2>2. s.done \in 0 .. Len(s.intents) /\ s.rejectCap \in Nat
    BY <1>1, <2>1
  <2> QED BY <1>1, <1>2, <2>1, <2>2 DEF Typed
<1>4. Requested(c, s, {})
  <2>1. s.inflight = FALSE
    BY <1>1
  <2> QED BY <1>2, <2>1, Zenon DEF Requested
<1>6. InOrder(c, s, {})
  <2>1. 1 .. s.done = {}
    BY <1>1
  <2> QED BY <2>1, Zenon DEF InOrder
<1> QED BY <1>3, <1>4, <1>6 DEF Good, s

(* The invariant holds at first,                                             *)
LEMMA InitInvariant == ASSUME Init PROVE IInv
  BY NewStoreGood DEF Init, IInv

(* A step of one store: the next states of the stores and what was taken of    *)
(* others.                                                                    *)
StoreStep(c) ==
  \/ \E m \in Menu[c] : Mutate(c, m)
  \/ RetryFires(c) \/ ServerStep(c) \/ WriteAnswered(c)
  \/ Loaded(c) \/ Poll(c) \/ Polled(c) \/ Fault(c)

LEMMA StepsOfOne ==
  ASSUME NEW c \in Stores, StoreStep(c)
  PROVE  /\ \E x : store' = [store EXCEPT ![c] = x]
         /\ \A d \in Stores \ {c} : \A n : <<d, n>> \in taken' <=> <<d, n>> \in taken
         /\ seededOver' = seededOver \/ seededOver' = seededOver \cup {c}
<1>1. ASSUME NEW x, update(c, x) PROVE \E y : store' = [store EXCEPT ![c] = y]
  BY <1>1 DEF update
<1>2. ASSUME NEW w, NEW status, NEW seen, answer(c, w, status, seen)
      PROVE  \E y : store' = [store EXCEPT ![c] = y]
  BY <1>2 DEF answer
<1>3. CASE \E m \in Menu[c] : Mutate(c, m)
  BY <1>1, <1>3 DEF Mutate
<1>4. CASE RetryFires(c) \/ Poll(c) \/ Polled(c) \/ ServeLoad(c)
  BY <1>1, <1>4 DEF RetryFires, Poll, Polled, ServeLoad
<1>5. CASE LoadFails(c) \/ PollDelayed(c)
  BY <1>1, <1>5 DEF LoadFails, PollDelayed
<1>6. CASE Loaded(c)
  <2>1. seededOver' = seededOver \cup {c} \/ seededOver' = seededOver \cup {}
    BY <1>6 DEF Loaded
  <2>2. taken' = taken /\ \E x : update(c, x)
    BY <1>6 DEF Loaded
  <2> QED BY <1>1, <2>1, <2>2
<1>7. CASE WriteAnswered(c)
  <2>1. PICK w : \/ Accepted(c, w) \/ Rejected(c, w) \/ Conflicted(c, w) \/ SkewFound(c, w)
                 \/ Failed(c, w) \/ Seeded(c, w)
    BY <1>7 DEF WriteAnswered
  <2>2. taken' = taken /\ seededOver' = seededOver
    BY <2>1 DEF Accepted, Rejected, Conflicted, SkewFound, Failed, Seeded
  <2>3. \E x : update(c, x)
    <3>1. CASE Accepted(c, w)
      BY <3>1 DEF Accepted
    <3>2. CASE Rejected(c, w)
      BY <3>2 DEF Rejected
    <3>3. CASE Conflicted(c, w)
      BY <3>3 DEF Conflicted
    <3>4. CASE SkewFound(c, w) \/ Failed(c, w)
      BY <3>4 DEF SkewFound, Failed
    <3>5. CASE Seeded(c, w)
      BY <3>5 DEF Seeded
    <3> QED BY <2>1, <3>1, <3>2, <3>3, <3>4, <3>5
  <2> QED BY <1>1, <2>2, <2>3
<1>8. ASSUME NEW w, WriteFails(c, w) \/ AnswerLost(c, w)
      PROVE  /\ \E x : store' = [store EXCEPT ![c] = x]
             /\ taken' = taken /\ seededOver' = seededOver
  BY <1>1, <1>2, <1>8 DEF WriteFails, AnswerLost
<1>9. ASSUME NEW w, Serve(c, w)
      PROVE  /\ \E x : store' = [store EXCEPT ![c] = x]
             /\ \A d \in Stores \ {c} : \A n : <<d, n>> \in taken' <=> <<d, n>> \in taken
             /\ seededOver' = seededOver
  <2> DEFINE call == store[c].writes[w]
  <2>1. /\ seededOver' = seededOver
        /\ \E status, seen : answer(c, w, status, seen)
        /\ taken' = taken \/ taken' = takes(c, call)
    BY <1>9 DEF Serve
  <2>2. \A d \in Stores \ {c} : \A n : <<d, n>> \in takes(c, call) <=> <<d, n>> \in taken
    BY DEF takes
  <2> QED BY <1>2, <2>1, <2>2
<1>10. CASE ServerStep(c)
  BY <1>4, <1>9, <1>10 DEF ServerStep
<1>11. CASE Fault(c)
  BY <1>5, <1>8, <1>11 DEF Fault
<1> QED BY <1>3, <1>4, <1>6, <1>7, <1>10, <1>11 DEF StoreStep

(* The invariant is preserved by a step of one store,                         *)
LEMMA StoreStepInvariant == ASSUME IInv, NEW c \in Stores, StoreStep(c) PROVE IInv'
<1>1. PICK x : store' = [store EXCEPT ![c] = x]
  BY StepsOfOne
<1>2. \A d \in Stores \ {c} : \A n : <<d, n>> \in taken' <=> <<d, n>> \in taken
  BY StepsOfOne
<1>3. seededOver' = seededOver \/ seededOver' = seededOver \cup {c}
  BY StepsOfOne
<1>4. CASE c \in seededOver'
  BY <1>1, <1>2, <1>3, <1>4, Elsewhere
<1>5. CASE c \notin seededOver'
  <2>1. c \in Stores \ seededOver /\ seededOver' = seededOver
    BY <1>3, <1>5
  <2>2. CASE \E m \in Menu[c] : Mutate(c, m)
    BY <2>1, <2>2, MutateStep
  <2>3. CASE RetryFires(c)
    BY <2>1, <2>3, RetryStep
  <2>4. CASE ServerStep(c)
    BY <2>1, <2>4, ServeLoadStep, ServeStep DEF ServerStep
  <2>5. CASE WriteAnswered(c)
    BY <2>1, <2>5, AcceptedStep, RejectedStep, ConflictedStep, SkewFoundStep, FailedStep,
       SeededStep DEF WriteAnswered
  <2>6. CASE Loaded(c)
    BY <2>1, <2>6, LoadedStep
  <2>7. CASE Poll(c) \/ Polled(c)
    BY <2>1, <2>7, PollStep
  <2>8. CASE Fault(c)
    BY <2>1, <2>8, WriteFailsStep, AnswerLostStep, LoadFailsStep, PollStep DEF Fault
  <2> QED BY <2>2, <2>3, <2>4, <2>5, <2>6, <2>7, <2>8 DEF StoreStep
<1> QED BY <1>4, <1>5

(* and by every step,                                                        *)
LEMMA StepInvariant == ASSUME IInv, [Next]_vars PROVE IInv'
<1>1. ASSUME store' = store, taken' = taken, seededOver' = seededOver PROVE IInv'
  BY <1>1 DEF IInv
<1>2. ASSUME NEW c \in Stores, StoreStep(c) PROVE IInv'
  BY <1>2, StoreStepInvariant
<1>3. CASE MigrationCommits \/ RepairBoard
  BY <1>1, <1>3 DEF MigrationCommits, RepairBoard
<1>4. CASE UNCHANGED vars
  BY <1>1, <1>4 DEF vars
<1> QED BY <1>2, <1>3, <1>4 DEF Next, StoreStep

(* and implies the property.                                                 *)
LEMMA InvariantGivesOrder == ASSUME IInv PROVE IntentsLandInOrder
<1>1. ASSUME NEW c \in Stores \ seededOver
      PROVE  /\ \A n \in 1 .. store[c].done : landed(c, n)
             /\ \A n \in 1 .. Len(store[c].intents) :
                  <<c, n>> \in taken => \A k \in 1 .. n - 1 : landed(c, k)
  <2>1. InOrder(c, store[c], taken)
    BY DEF IInv, Good
  <2>2. \A n : landed(c, n) <=> lands(c, store[c], taken, n)
    BY DEF landed, refusable, lands
  <2> QED BY <2>1, <2>2 DEF InOrder
<1> QED BY <1>1 DEF IntentsLandInOrder

(* An edit of a board leaves the outbox of its tab only after the server took *)
(* it, and the server takes the edits of a tab in order, whatever the other   *)
(* tabs, migrations, conflicts, failures and lost answers do.                 *)
THEOREM EditsLandInOrder == Spec => []IntentsLandInOrder
<1>1. Init => IInv
  BY InitInvariant
<1>2. IInv /\ [Next]_vars => IInv'
  BY StepInvariant
<1>3. IInv => IntentsLandInOrder
  BY InvariantGivesOrder
<1> QED BY <1>1, <1>2, <1>3, PTL DEF Spec

---------------------------------------------------------------------------
(* Induction, as a fact about sets of numbers.                                *)
LEMMA Induct ==
  ASSUME NEW T, 0 \in T, \A n \in Nat : n \in T => n + 1 \in T
  PROVE  \A n \in Nat : n \in T
<1> DEFINE Bad == {n \in Nat : n \notin T}
<1>1. IsWellFoundedOn(OpToRel(<, Nat), Nat)
  BY NatLessThanWellFounded
<1> SUFFICES ASSUME Bad # {} PROVE FALSE
  OBVIOUS
<1>2. PICK n \in Bad : \A m \in Bad : <<m, n>> \notin OpToRel(<, Nat)
  <2> HIDE DEF Bad
  <2>1. Bad \subseteq Nat
    BY DEF Bad
  <2> QED BY <1>1, <2>1, WFMin
<1>3. n # 0 /\ n - 1 \in Nat /\ n - 1 < n /\ n - 1 + 1 = n
  OBVIOUS
<1>4. n - 1 \in Bad
  BY <1>3
<1> QED BY <1>2, <1>3, <1>4 DEF OpToRel

(* Recursion over the numbers up to N: it has a solution,                     *)
Steps(X, N) == [1 .. N -> [X -> X]]
runs(g, x, N, step) == g[0] = x /\ \A n \in 1 .. N : g[n] = step[n][g[n - 1]]

(* by induction on how far it is asked for.                                   *)
LEMMA Iterates ==
  ASSUME NEW X, NEW x \in X, NEW N \in Nat, NEW step \in Steps(X, N)
  PROVE  \E g \in [0 .. N -> X] : runs(g, x, N, step)
<1> DEFINE solves(g, m) == g \in [0 .. m -> X] /\ runs(g, x, m, step)
           T == {m \in Nat : m <= N => \E g : solves(g, m)}
<1>1. 0 \in T
  <2>1. solves([n \in 0 .. 0 |-> x], 0)
    BY DEF runs
  <2> QED BY <2>1
<1>2. ASSUME NEW m \in Nat, m \in T PROVE m + 1 \in T
  <2> SUFFICES ASSUME m + 1 <= N PROVE \E g : solves(g, m + 1)
    OBVIOUS
  <2>1. m <= N /\ m + 1 \in 1 .. N
    OBVIOUS
  <2>2. PICK g : solves(g, m)
    BY <1>2, <2>1
  <2> DEFINE h == [n \in 0 .. m + 1 |-> IF n = m + 1 THEN step[m + 1][g[m]] ELSE g[n]]
  <2>3. g \in [0 .. m -> X] /\ g[m] \in X
    BY <2>2
  <2>4. step[m + 1] \in [X -> X]
    BY <2>1 DEF Steps
  <2>5. step[m + 1][g[m]] \in X
    BY <2>3, <2>4
  <2>6. h \in [0 .. m + 1 -> X]
    BY <2>3, <2>5
  <2>7. h[0] = x
    BY <2>2 DEF runs
  <2>8. ASSUME NEW n \in 1 .. m + 1 PROVE h[n] = step[n][h[n - 1]]
    <3>1. CASE n = m + 1
      <4>1. m \in 0 .. m + 1 /\ m # m + 1 /\ n - 1 = m
        BY <3>1
      <4> QED BY <3>1, <4>1
    <3>2. CASE n # m + 1
      <4>1. n \in 1 .. m /\ n - 1 \in 0 .. m /\ n - 1 # m + 1
        BY <3>2
      <4>2. h[n] = g[n] /\ h[n - 1] = g[n - 1]
        BY <4>1
      <4> QED BY <2>2, <4>1, <4>2 DEF runs
    <3> QED BY <3>1, <3>2
  <2> QED BY <2>6, <2>7, <2>8 DEF runs
<1>3. N \in T
  <2> HIDE DEF T
  <2> QED BY <1>1, <1>2, Induct
<1> QED BY <1>3

(* which stays in X.                                                          *)
LEMMA IteratesWithin ==
  ASSUME NEW X, NEW x \in X, NEW N \in Nat, NEW step \in Steps(X, N), NEW h, h[0] = x,
         \A n \in 1 .. N : h[n - 1] \in X => h[n] = step[n][h[n - 1]]
  PROVE  \A n \in 0 .. N : h[n] \in X
<1> DEFINE T == {m \in Nat : m <= N => h[m] \in X}
<1>1. 0 \in T
  OBVIOUS
<1>2. ASSUME NEW m \in Nat, m \in T PROVE m + 1 \in T
  <2> SUFFICES ASSUME m + 1 <= N PROVE h[m + 1] \in X
    OBVIOUS
  <2>1. m <= N /\ m + 1 \in 1 .. N /\ m + 1 - 1 = m
    OBVIOUS
  <2>2. h[m] \in X /\ step[m + 1] \in [X -> X]
    BY <1>2, <2>1 DEF Steps
  <2>3. h[m + 1] = step[m + 1][h[m]]
    BY <2>1, <2>2
  <2> QED BY <2>2, <2>3
<1> HIDE DEF T
<1>3. \A m \in Nat : m \in T
  BY <1>1, <1>2, Induct
<1> QED BY <1>3 DEF T

(* What unique computes, member by member.                                    *)
uniques(kept, l) ==
  /\ kept[0] = <<>>
  /\ \A n \in 1 .. Len(l) :
       kept[n] = IF \E k \in 1 .. n - 1 : l[k] = l[n] THEN kept[n - 1]
                 ELSE Append(kept[n - 1], l[n])

(* unique computes member by member, for every list.                          *)
LEMMA UniqueRuns ==
  ASSUME NEW S, NEW l \in Seq(S)
  PROVE  \E kept \in [0 .. Len(l) -> Seq(S)] : uniques(kept, l) /\ unique(l) = kept[Len(l)]
<1> DEFINE N == Len(l)
           X == Seq(S)
           next(n, s) == IF \E k \in 1 .. n - 1 : l[k] = l[n] THEN s ELSE Append(s, l[n])
           step == [n \in 1 .. N |-> [s \in X |-> next(n, s)]]
           body(f) == [n \in 0 .. N |->
                         IF n = 0 THEN <<>>
                         ELSE IF \E k \in 1 .. n - 1 : l[k] = l[n] THEN f[n - 1]
                         ELSE Append(f[n - 1], l[n])]
           kept == CHOOSE f : f = body(f)
<1>1. N \in Nat /\ <<>> \in X /\ \A n \in 1 .. N : \A s \in X : next(n, s) \in X
  OBVIOUS
<1>2. \A f : body(f) = [n \in 0 .. N |-> IF n = 0 THEN <<>> ELSE next(n, f[n - 1])]
  OBVIOUS
<1>3. unique(l) = kept[N]
  BY DEF unique
<1> HIDE DEF N, X, next, body
<1>4. step \in Steps(X, N)
  BY <1>1 DEF Steps
<1>5. \A n \in 1 .. N : \A s \in X : step[n][s] = next(n, s)
  OBVIOUS
<1> HIDE DEF step
<1>6. PICK g \in [0 .. N -> X] : runs(g, <<>>, N, step)
  BY <1>1, <1>4, Iterates
<1>7. \A n \in 1 .. N : n \in 0 .. N /\ n - 1 \in 0 .. N /\ n # 0
  BY <1>1
<1>8. \A n \in 0 .. N : n = 0 \/ n \in 1 .. N
  BY <1>1
<1>9. \A n \in 1 .. N : g[n] = next(n, g[n - 1])
  BY <1>5, <1>6, <1>7 DEF runs
<1>10. g = body(g)
  <2>1. \A n \in 0 .. N : g[n] = IF n = 0 THEN <<>> ELSE next(n, g[n - 1])
    BY <1>6, <1>7, <1>8, <1>9 DEF runs
  <2> QED BY <1>2, <2>1
<1>11. kept = body(kept)
  BY <1>10
<1> HIDE DEF kept
<1>12. kept = [n \in 0 .. N |-> IF n = 0 THEN <<>> ELSE next(n, kept[n - 1])]
  BY <1>2, <1>11
<1>13. kept[0] = <<>> /\ \A n \in 1 .. N : kept[n] = next(n, kept[n - 1])
  BY <1>1, <1>7, <1>12
<1>14. \A n \in 0 .. N : kept[n] \in X
  BY <1>1, <1>4, <1>5, <1>13, IteratesWithin
<1>15. kept \in [0 .. N -> X]
  BY <1>12, <1>14
<1>16. uniques(kept, l)
  BY <1>13 DEF uniques, next, N
<1> QED BY <1>3, <1>15, <1>16 DEF N, X

(* What only computes, member by member.                                      *)
onlies(chosen, l, K) ==
  /\ chosen[0] = <<>>
  /\ \A n \in 1 .. Len(l) :
       chosen[n] = IF l[n] \in K THEN Append(chosen[n - 1], l[n]) ELSE chosen[n - 1]

(* only does too.                                                             *)
LEMMA OnlyRuns ==
  ASSUME NEW S, NEW l \in Seq(S), NEW K
  PROVE  \E chosen \in [0 .. Len(l) -> Seq(S)] : onlies(chosen, l, K) /\ only(l, K) = chosen[Len(l)]
<1> DEFINE N == Len(l)
           X == Seq(S)
           next(n, s) == IF l[n] \in K THEN Append(s, l[n]) ELSE s
           step == [n \in 1 .. N |-> [s \in X |-> next(n, s)]]
           body(f) == [n \in 0 .. N |->
                         IF n = 0 THEN <<>>
                         ELSE IF l[n] \in K THEN Append(f[n - 1], l[n])
                         ELSE f[n - 1]]
           chosen == CHOOSE f : f = body(f)
<1>1. N \in Nat /\ <<>> \in X /\ \A n \in 1 .. N : \A s \in X : next(n, s) \in X
  OBVIOUS
<1>2. \A f : body(f) = [n \in 0 .. N |-> IF n = 0 THEN <<>> ELSE next(n, f[n - 1])]
  OBVIOUS
<1>3. only(l, K) = chosen[N]
  BY DEF only
<1> HIDE DEF N, X, next, body
<1>4. step \in Steps(X, N)
  BY <1>1 DEF Steps
<1>5. \A n \in 1 .. N : \A s \in X : step[n][s] = next(n, s)
  OBVIOUS
<1> HIDE DEF step
<1>6. PICK g \in [0 .. N -> X] : runs(g, <<>>, N, step)
  BY <1>1, <1>4, Iterates
<1>7. \A n \in 1 .. N : n \in 0 .. N /\ n - 1 \in 0 .. N /\ n # 0
  BY <1>1
<1>8. \A n \in 0 .. N : n = 0 \/ n \in 1 .. N
  BY <1>1
<1>9. \A n \in 1 .. N : g[n] = next(n, g[n - 1])
  BY <1>5, <1>6, <1>7 DEF runs
<1>10. g = body(g)
  <2>1. \A n \in 0 .. N : g[n] = IF n = 0 THEN <<>> ELSE next(n, g[n - 1])
    BY <1>6, <1>7, <1>8, <1>9 DEF runs
  <2> QED BY <1>2, <2>1
<1>11. chosen = body(chosen)
  BY <1>10
<1> HIDE DEF chosen
<1>12. chosen = [n \in 0 .. N |-> IF n = 0 THEN <<>> ELSE next(n, chosen[n - 1])]
  BY <1>2, <1>11
<1>13. chosen[0] = <<>> /\ \A n \in 1 .. N : chosen[n] = next(n, chosen[n - 1])
  BY <1>1, <1>7, <1>12
<1>14. \A n \in 0 .. N : chosen[n] \in X
  BY <1>1, <1>4, <1>5, <1>13, IteratesWithin
<1>15. chosen \in [0 .. N -> X]
  BY <1>12, <1>14
<1>16. onlies(chosen, l, K)
  BY <1>13 DEF onlies, next, N
<1> QED BY <1>3, <1>15, <1>16 DEF N, X

distinct(list) == \A i, j \in DOMAIN list : list[i] = list[j] => i = j

(* What appending adds, and when it repeats nothing.                          *)
LEMMA AppendIs ==
  ASSUME NEW S, NEW s \in Seq(S), NEW x \in S
  PROVE  /\ Append(s, x) \in Seq(S) /\ ToSet(Append(s, x)) = ToSet(s) \cup {x}
         /\ distinct(s) /\ x \notin ToSet(s) => distinct(Append(s, x))
<1> DEFINE t == Append(s, x)
<1>1. /\ t \in Seq(S) /\ Len(t) = Len(s) + 1 /\ Len(s) \in Nat /\ t[Len(s) + 1] = x
      /\ \A i \in 1 .. Len(s) : t[i] = s[i]
  OBVIOUS
<1>2. DOMAIN t = 1 .. Len(s) + 1 /\ DOMAIN s = 1 .. Len(s)
  BY <1>1
<1> HIDE DEF t
<1>3. ToSet(t) = ToSet(s) \cup {x}
  <2>1. \A i \in DOMAIN t : t[i] \in ToSet(s) \cup {x}
    BY <1>1, <1>2 DEF ToSet
  <2>2. \A i \in DOMAIN s : s[i] \in ToSet(t)
    BY <1>1, <1>2 DEF ToSet
  <2>3. x \in ToSet(t)
    BY <1>1, <1>2 DEF ToSet
  <2> QED BY <2>1, <2>2, <2>3 DEF ToSet
<1>4. ASSUME distinct(s), x \notin ToSet(s), NEW i \in DOMAIN t, NEW j \in DOMAIN t, t[i] = t[j]
      PROVE  i = j
  <2>1. \A k \in 1 .. Len(s) : t[k] # x
    BY <1>1, <1>2, <1>4 DEF ToSet
  <2>2. i \in 1 .. Len(s) <=> j \in 1 .. Len(s)
    BY <1>1, <1>2, <1>4, <2>1
  <2>3. CASE i \in 1 .. Len(s)
    BY <1>1, <1>2, <1>4, <2>2, <2>3 DEF distinct
  <2>4. CASE i \notin 1 .. Len(s)
    BY <1>1, <1>2, <2>2, <2>4
  <2> QED BY <2>3, <2>4
<1> QED BY <1>1, <1>3, <1>4 DEF distinct, t

(* unique keeps the members of a list and names each once.                    *)
LEMMA UniqueIs ==
  ASSUME NEW S, NEW l \in Seq(S)
  PROVE  unique(l) \in Seq(S) /\ ToSet(unique(l)) = ToSet(l) /\ distinct(unique(l))
<1>1. PICK kept \in [0 .. Len(l) -> Seq(S)] : uniques(kept, l) /\ unique(l) = kept[Len(l)]
  BY UniqueRuns
<1> DEFINE N == Len(l)
           good(n) == ToSet(kept[n]) = {l[k] : k \in 1 .. n} /\ distinct(kept[n])
           T == {n \in Nat : n <= N => good(n)}
<1>2. N \in Nat /\ DOMAIN l = 1 .. N /\ \A n \in 1 .. N : l[n] \in S
  OBVIOUS
<1>3. 0 \in T
  <2>1. kept[0] = <<>> /\ DOMAIN <<>> = {} /\ 1 .. 0 = {}
    BY <1>1 DEF uniques
  <2>2. ToSet(kept[0]) = {} /\ {l[k] : k \in 1 .. 0} = {}
    BY <2>1 DEF ToSet
  <2> QED BY <2>1, <2>2 DEF distinct
<1>4. ASSUME NEW m \in Nat, m \in T PROVE m + 1 \in T
  <2> SUFFICES ASSUME m + 1 <= N PROVE good(m + 1)
    OBVIOUS
  <2>1. /\ m <= N /\ m \in 0 .. N /\ m + 1 \in 1 .. N /\ m + 1 - 1 = m
        /\ 1 .. m + 1 = (1 .. m) \cup {m + 1}
    BY <1>2
  <2>2. good(m) /\ kept[m] \in Seq(S) /\ l[m + 1] \in S
    BY <1>2, <1>4, <2>1
  <2>3. kept[m + 1] = IF \E k \in 1 .. m : l[k] = l[m + 1] THEN kept[m] ELSE Append(kept[m], l[m + 1])
    BY <1>1, <2>1 DEF uniques
  <2>4. {l[k] : k \in 1 .. m + 1} = {l[k] : k \in 1 .. m} \cup {l[m + 1]}
    BY <2>1
  <2>5. CASE \E k \in 1 .. m : l[k] = l[m + 1]
    BY <2>2, <2>3, <2>4, <2>5
  <2>6. CASE ~\E k \in 1 .. m : l[k] = l[m + 1]
    <3>1. l[m + 1] \notin ToSet(kept[m])
      BY <2>2, <2>6
    <3>2. kept[m + 1] = Append(kept[m], l[m + 1])
      BY <2>3, <2>6
    <3> QED BY <2>2, <2>4, <3>1, <3>2, AppendIs
  <2> QED BY <2>5, <2>6
<1> HIDE DEF T
<1>5. N \in T
  BY <1>2, <1>3, <1>4, Induct
<1>6. good(N)
  BY <1>2, <1>5 DEF T
<1>7. ToSet(l) = {l[k] : k \in 1 .. N}
  BY <1>2 DEF ToSet
<1> QED BY <1>1, <1>2, <1>6, <1>7

(* only keeps the members that are wanted.                                    *)
LEMMA OnlyIs ==
  ASSUME NEW S, NEW l \in Seq(S), NEW K
  PROVE  /\ only(l, K) \in Seq(S) /\ ToSet(only(l, K)) = ToSet(l) \cap K
         /\ distinct(l) => distinct(only(l, K))
<1>1. PICK chosen \in [0 .. Len(l) -> Seq(S)] :
        onlies(chosen, l, K) /\ only(l, K) = chosen[Len(l)]
  BY OnlyRuns
<1> DEFINE N == Len(l)
           good(n) == /\ ToSet(chosen[n]) = {l[k] : k \in 1 .. n} \cap K
                      /\ distinct(l) => distinct(chosen[n])
           T == {n \in Nat : n <= N => good(n)}
<1>2. N \in Nat /\ DOMAIN l = 1 .. N /\ \A n \in 1 .. N : l[n] \in S
  OBVIOUS
<1>3. 0 \in T
  <2>1. chosen[0] = <<>> /\ DOMAIN <<>> = {} /\ 1 .. 0 = {}
    BY <1>1 DEF onlies
  <2>2. ToSet(chosen[0]) = {} /\ {l[k] : k \in 1 .. 0} = {}
    BY <2>1 DEF ToSet
  <2> QED BY <2>1, <2>2 DEF distinct
<1>4. ASSUME NEW m \in Nat, m \in T PROVE m + 1 \in T
  <2> SUFFICES ASSUME m + 1 <= N PROVE good(m + 1)
    OBVIOUS
  <2>1. /\ m <= N /\ m \in 0 .. N /\ m + 1 \in 1 .. N /\ m + 1 - 1 = m
        /\ 1 .. m + 1 = (1 .. m) \cup {m + 1} /\ m + 1 \notin 1 .. m /\ 1 .. m \subseteq 1 .. N
    BY <1>2
  <2>2. good(m) /\ chosen[m] \in Seq(S) /\ l[m + 1] \in S
    BY <1>2, <1>4, <2>1
  <2>3. chosen[m + 1] = IF l[m + 1] \in K THEN Append(chosen[m], l[m + 1]) ELSE chosen[m]
    BY <1>1, <2>1 DEF onlies
  <2>4. {l[k] : k \in 1 .. m + 1} = {l[k] : k \in 1 .. m} \cup {l[m + 1]}
    BY <2>1
  <2>5. CASE l[m + 1] \notin K
    BY <2>2, <2>3, <2>4, <2>5
  <2>6. CASE l[m + 1] \in K
    <3>1. distinct(l) => l[m + 1] \notin ToSet(chosen[m])
      <4> SUFFICES ASSUME distinct(l), l[m + 1] \in ToSet(chosen[m]) PROVE FALSE
        OBVIOUS
      <4>1. PICK k \in 1 .. m : l[m + 1] = l[k]
        BY <2>2
      <4> QED BY <1>2, <2>1, <4>1 DEF distinct
    <3>2. chosen[m + 1] = Append(chosen[m], l[m + 1])
      BY <2>3, <2>6
    <3>3. ToSet(chosen[m + 1]) = ToSet(chosen[m]) \cup {l[m + 1]}
      BY <2>2, <3>2, AppendIs
    <3>4. distinct(l) => distinct(chosen[m + 1])
      BY <2>2, <3>1, <3>2, AppendIs
    <3> QED BY <2>2, <2>4, <2>6, <3>3, <3>4
  <2> QED BY <2>5, <2>6
<1> HIDE DEF T
<1>5. N \in T
  BY <1>2, <1>3, <1>4, Induct
<1>6. good(N)
  BY <1>2, <1>5 DEF T
<1>7. ToSet(l) = {l[k] : k \in 1 .. N}
  BY <1>2 DEF ToSet
<1> QED BY <1>1, <1>2, <1>6, <1>7

---------------------------------------------------------------------------
(* Where aliases lead.                                                        *)
hop(aliases, x) == IF x \in DOMAIN aliases THEN aliases[x] ELSE x
Steps0 == Cardinality(Paths)

(* The renamings are the functions from some paths to paths.                  *)
LEMMA AliasesAre ==
  ASSUME NEW a
  PROVE  a \in Aliases <=> DOMAIN a \subseteq Paths /\ a \in [DOMAIN a -> Paths]
  BY DEF Aliases

(* One renaming of a path is a path.                                          *)
LEMMA HopIs ==
  ASSUME NEW a \in Aliases, NEW p \in Paths
  PROVE  hop(a, p) \in Paths
  BY AliasesAre DEF hop

(* The number of paths is finite.                                             *)
LEMMA Steps0Is == Steps0 \in Nat /\ (Paths # {} => Steps0 # 0)
  BY ReducerAssumption, FS_CardinalityType, FS_EmptySet DEF Steps0

walks(walk, p, a) ==
  walk[0] = p /\ \A n \in 1 .. Steps0 : walk[n] = hop(a, walk[n - 1])

(* resolvePath follows the aliases as often as there are paths.               *)
LEMMA WalkRuns ==
  ASSUME NEW a \in Aliases, NEW p \in Paths
  PROVE  \E walk \in [0 .. Steps0 -> Paths] :
           /\ walks(walk, p, a)
           /\ resolvePath(p, a) = IF p \in DOMAIN a THEN walk[Steps0] ELSE p
<1> DEFINE N == Steps0
           step == [n \in 1 .. N |-> [x \in Paths |-> hop(a, x)]]
           next(y) == once(y, LAMBDA x : IF x \in DOMAIN a THEN a[x] ELSE x)
           body(f) == [n \in 0 .. N |-> IF n = 0 THEN p ELSE next(f[n - 1])]
           walk == CHOOSE f : f = body(f)
<1>1. N \in Nat
  BY Steps0Is
<1>2. \A y : next(y) = hop(a, y)
  BY DEF once, hop
<1>3. resolvePath(p, a) = IF p \in DOMAIN a THEN walk[N] ELSE p
  BY DEF resolvePath, Steps0
<1> HIDE DEF N, next
<1>4. step \in Steps(Paths, N)
  BY HopIs DEF Steps
<1>5. \A n \in 1 .. N : \A x \in Paths : step[n][x] = hop(a, x)
  OBVIOUS
<1> HIDE DEF step
<1>6. PICK g \in [0 .. N -> Paths] : runs(g, p, N, step)
  BY <1>1, <1>4, Iterates
<1>7. \A n \in 1 .. N : n \in 0 .. N /\ n - 1 \in 0 .. N /\ n # 0
  BY <1>1
<1>8. \A n \in 0 .. N : n = 0 \/ n \in 1 .. N
  BY <1>1
<1>9. \A n \in 1 .. N : g[n] = next(g[n - 1])
  BY <1>2, <1>5, <1>6, <1>7 DEF runs
<1>10. g = body(g)
  <2>1. \A n \in 0 .. N : g[n] = IF n = 0 THEN p ELSE next(g[n - 1])
    BY <1>6, <1>7, <1>8, <1>9 DEF runs
  <2> QED BY <2>1
<1>11. walk = body(walk)
  <2> HIDE DEF body
  <2> QED BY <1>10
<1> HIDE DEF walk
<1>13. walk[0] = p /\ \A n \in 1 .. N : walk[n] = hop(a, walk[n - 1])
  BY <1>1, <1>2, <1>7, <1>11
<1>14. \A n \in 0 .. N : walk[n] \in Paths
  BY <1>1, <1>4, <1>5, <1>13, IteratesWithin
<1>15. walk \in [0 .. N -> Paths]
  BY <1>11, <1>14
<1> QED BY <1>3, <1>13, <1>15 DEF N, walks

(* A set that no alias leaves is not left.                                    *)
LEMMA ResolveWithin ==
  ASSUME NEW a \in Aliases, NEW K \in SUBSET Paths, NEW p \in K,
         \A x \in K : x \in DOMAIN a => a[x] \in K
  PROVE  resolvePath(p, a) \in K
<1>1. PICK walk \in [0 .. Steps0 -> Paths] :
        /\ walks(walk, p, a)
        /\ resolvePath(p, a) = IF p \in DOMAIN a THEN walk[Steps0] ELSE p
  BY WalkRuns
<1> DEFINE step == [n \in 1 .. Steps0 |-> [x \in K |-> hop(a, x)]]
<1>2. step \in Steps(K, Steps0) /\ \A n \in 1 .. Steps0 : \A x \in K : step[n][x] = hop(a, x)
  BY DEF Steps, hop
<1> HIDE DEF step
<1>3. walk[0] = p /\ \A n \in 1 .. Steps0 : walk[n - 1] \in K => walk[n] = step[n][walk[n - 1]]
  BY <1>1, <1>2 DEF walks
<1>4. \A n \in 0 .. Steps0 : walk[n] \in K
  BY <1>2, <1>3, Steps0Is, IteratesWithin
<1> QED BY <1>1, <1>4, Steps0Is

(* It answers with a path.                                                    *)
LEMMA ResolveTyped ==
  ASSUME NEW a \in Aliases, NEW p \in Paths PROVE resolvePath(p, a) \in Paths
  BY ResolveWithin, AliasesAre

(* Canonical aliases lead there at once.                                      *)
flat(a) == \A x \in DOMAIN a : a[x] \notin DOMAIN a

(* Then resolvePath follows at most one alias.                                *)
LEMMA ResolveFlat ==
  ASSUME NEW a \in Aliases, flat(a), NEW p \in Paths
  PROVE  resolvePath(p, a) = hop(a, p) /\ resolvePath(p, a) \notin DOMAIN a
<1>1. PICK walk \in [0 .. Steps0 -> Paths] :
        /\ walks(walk, p, a)
        /\ resolvePath(p, a) = IF p \in DOMAIN a THEN walk[Steps0] ELSE p
  BY WalkRuns
<1>2. CASE p \notin DOMAIN a
  BY <1>1, <1>2 DEF hop
<1>3. CASE p \in DOMAIN a
  <2> DEFINE T == {n \in Nat : n + 1 <= Steps0 => walk[n + 1] = a[p]}
  <2>1. Steps0 \in Nat /\ Steps0 >= 1
    BY Steps0Is
  <2>2. 0 \in T
    <3>1. walk[1] = hop(a, walk[0])
      BY <1>1, <2>1 DEF walks
    <3> QED BY <1>1, <1>3, <3>1 DEF walks, hop
  <2>3. ASSUME NEW n \in Nat, n \in T PROVE n + 1 \in T
    <3> SUFFICES ASSUME n + 1 + 1 <= Steps0 PROVE walk[n + 1 + 1] = a[p]
      OBVIOUS
    <3>1. n + 1 <= Steps0 /\ n + 1 + 1 \in 1 .. Steps0 /\ n + 1 + 1 - 1 = n + 1
      BY <2>1
    <3>2. walk[n + 1 + 1] = hop(a, walk[n + 1])
      BY <1>1, <3>1 DEF walks
    <3> QED BY <1>3, <2>3, <3>1, <3>2 DEF hop, flat
  <2> HIDE DEF T
  <2>4. \A n \in Nat : n \in T
    BY <2>2, <2>3, Induct
  <2>5. Steps0 - 1 \in Nat /\ Steps0 - 1 + 1 = Steps0
    BY <2>1
  <2>6. walk[Steps0] = a[p]
    BY <2>1, <2>4, <2>5 DEF T
  <2> QED BY <1>1, <1>3, <2>6 DEF hop, flat
<1> QED BY <1>2, <1>3

(* Aliases that climb end.                                                    *)
climbs(a, rank) ==
  /\ rank \in [Paths -> 0 .. Steps0]
  /\ \A x \in DOMAIN a : rank[x] >= 1 /\ rank[x] < rank[a[x]]

(* Then resolvePath ends where no alias leads on.                             *)
LEMMA ResolveClimbs ==
  ASSUME NEW a \in Aliases, NEW rank, climbs(a, rank), NEW p \in Paths
  PROVE  resolvePath(p, a) \notin DOMAIN a /\ rank[p] <= rank[resolvePath(p, a)]
<1>1. PICK walk \in [0 .. Steps0 -> Paths] :
        /\ walks(walk, p, a)
        /\ resolvePath(p, a) = IF p \in DOMAIN a THEN walk[Steps0] ELSE p
  BY WalkRuns
<1>2. rank \in [Paths -> 0 .. Steps0] /\ Steps0 \in Nat /\ \A x \in Paths : rank[x] \in Nat
  BY Steps0Is DEF climbs
<1>3. CASE p \notin DOMAIN a
  BY <1>1, <1>2, <1>3
<1>4. CASE p \in DOMAIN a
  <2> DEFINE there(n) == /\ walk[n] \notin DOMAIN a \/ n + 1 <= rank[walk[n]]
                         /\ rank[p] <= rank[walk[n]]
             T == {n \in Nat : n <= Steps0 => there(n)}
  <2>1. 0 \in T
    BY <1>1, <1>2, <1>4 DEF walks, climbs
  <2>2. ASSUME NEW n \in Nat, n \in T PROVE n + 1 \in T
    <3> SUFFICES ASSUME n + 1 <= Steps0 PROVE there(n + 1)
      OBVIOUS
    <3>1. n <= Steps0 /\ n + 1 \in 1 .. Steps0 /\ n + 1 - 1 = n /\ n \in 0 .. Steps0
          /\ n + 1 \in 0 .. Steps0
      BY <1>2
    <3>2. walk[n + 1] = hop(a, walk[n]) /\ walk[n] \in Paths /\ walk[n + 1] \in Paths
      BY <1>1, <3>1 DEF walks
    <3>3. there(n)
      BY <2>2, <3>1
    <3> DEFINE x == walk[n]
               y == walk[n + 1]
    <3>4. rank[x] \in Nat /\ rank[y] \in Nat /\ rank[p] \in Nat
      BY <1>2, <3>2
    <3>5. CASE x \notin DOMAIN a
      BY <3>2, <3>3, <3>5 DEF hop
    <3>6. CASE x \in DOMAIN a
      <4>1. rank[x] < rank[y] /\ n + 1 <= rank[x] /\ rank[p] <= rank[x]
        BY <3>2, <3>3, <3>6 DEF hop, climbs
      <4>2. n + 1 + 1 <= rank[y] /\ rank[p] <= rank[y]
        BY <3>4, <4>1
      <4> QED BY <4>2
    <3> QED BY <3>5, <3>6
  <2> HIDE DEF T
  <2>3. Steps0 \in T
    BY <1>2, <2>1, <2>2, Induct
  <2>4. there(Steps0)
    BY <1>2, <2>3 DEF T
  <2>5. walk[Steps0] \in Paths /\ rank[walk[Steps0]] <= Steps0
    BY <1>2
  <2>6. walk[Steps0] \notin DOMAIN a
    BY <1>2, <2>4, <2>5
  <2> QED BY <1>1, <1>4, <2>4, <2>6
<1> QED BY <1>3, <1>4

---------------------------------------------------------------------------
(* The canonical form.                                                        *)
LEMMA ResolveAllIs ==
  ASSUME NEW l \in Seq(Paths), NEW a \in Aliases
  PROVE  /\ resolveAll(l, a) \in Seq(Paths)
         /\ ToSet(resolveAll(l, a)) = {resolvePath(x, a) : x \in ToSet(l)}
<1> DEFINE r == resolveAll(l, a)
<1>1. Len(l) \in Nat /\ DOMAIN l = 1 .. Len(l) /\ \A i \in 1 .. Len(l) : l[i] \in Paths
  OBVIOUS
<1>2. r = [i \in 1 .. Len(l) |-> resolvePath(l[i], a)]
  BY <1>1 DEF resolveAll
<1>3. \A i \in 1 .. Len(l) : resolvePath(l[i], a) \in Paths
  BY <1>1, ResolveTyped
<1> HIDE DEF r
<1>4. r \in Seq(Paths)
  BY <1>1, <1>2, <1>3
<1>5. ToSet(r) = {r[i] : i \in 1 .. Len(l)}
  BY <1>2 DEF ToSet
<1>6. ToSet(l) = {l[i] : i \in 1 .. Len(l)}
  BY <1>1 DEF ToSet
<1>7. ToSet(r) = {resolvePath(x, a) : x \in ToSet(l)}
  BY <1>2, <1>5, <1>6
<1> QED BY <1>4, <1>7 DEF r

(* without removes what it says and nothing else.                             *)
LEMMA WithoutIs ==
  ASSUME NEW l \in Seq(Paths), NEW G
  PROVE  /\ without(l, G) \in Seq(Paths) /\ ToSet(without(l, G)) = ToSet(l) \ G
         /\ distinct(l) => distinct(without(l, G))
<1>1. ToSet(l) \subseteq Paths
  BY DEF ToSet
<1> QED BY <1>1, OnlyIs DEF without

(* What a list shows of the paths that are not hidden.                        *)
tidy(list, a, hidden) == without(unique(resolveAll(list, a)), ToSet(hidden))

(* A tidied list names no renamed and no closed path, and none twice.         *)
LEMMA TidyIs ==
  ASSUME NEW l \in Seq(Paths), NEW a \in Aliases, NEW hidden, ~cyclic(a)
  PROVE  /\ tidy(l, a, hidden) \in Seq(Paths) /\ distinct(tidy(l, a, hidden))
         /\ ToSet(tidy(l, a, hidden)) \cap (ToSet(hidden) \cup DOMAIN a) = {}
<1>1. \A x \in Paths : resolvePath(x, a) \notin DOMAIN a
  BY DEF cyclic, resolvePath
<1>2. ToSet(l) \subseteq Paths
  BY DEF ToSet
<1> DEFINE s == resolveAll(l, a)
<1>3. s \in Seq(Paths) /\ ToSet(s) \cap DOMAIN a = {}
  BY <1>1, <1>2, ResolveAllIs
<1> HIDE DEF s
<1>4. unique(s) \in Seq(Paths) /\ ToSet(unique(s)) = ToSet(s) /\ distinct(unique(s))
  BY <1>3, UniqueIs
<1> QED BY <1>3, <1>4, WithoutIs DEF tidy, s

(* normalize of any arrangement whose aliases end is canonical.               *)
LEMMA CanonicalIs ==
  ASSUME NEW b \in Arrangement, NEW a \in Aliases, ~cyclic(a), NEW hidden \in Seq(Paths),
         distinct(hidden), ToSet(hidden) \cap DOMAIN a = {}, NEW r, r = canonical(b, a, hidden)
  PROVE  /\ IsNormal(r) /\ r.hidden = hidden /\ DOMAIN r.aliases = DOMAIN a
         /\ \A p \in DOMAIN a : r.aliases[p] = resolvePath(p, a)
<1> DEFINE manual == tidy(b.manual, a, hidden)
           expanded == tidy(b.expanded, a, hidden)
           pinned == tidy(b.explicitManual, a, hidden)
           aliases == [p \in DOMAIN a |-> resolvePath(p, a)]
<1>1. /\ b.manual \in Seq(Paths) /\ b.expanded \in Seq(Paths) /\ b.explicitManual \in Seq(Paths)
      /\ b.mode \in Modes \cup {Null}
  BY DEF Arrangement
<1>2. /\ manual \in Seq(Paths) /\ distinct(manual)
      /\ ToSet(manual) \cap (ToSet(hidden) \cup DOMAIN a) = {}
  BY <1>1, TidyIs
<1>3. /\ expanded \in Seq(Paths) /\ distinct(expanded)
      /\ ToSet(expanded) \cap (ToSet(hidden) \cup DOMAIN a) = {}
  BY <1>1, TidyIs
<1>4. /\ pinned \in Seq(Paths) /\ distinct(pinned)
      /\ ToSet(pinned) \cap (ToSet(hidden) \cup DOMAIN a) = {}
  BY <1>1, TidyIs
<1>5. DOMAIN a \subseteq Paths /\ DOMAIN aliases = DOMAIN a /\ aliases \in Aliases
  BY AliasesAre, ResolveTyped
<1>6. \A p \in DOMAIN aliases : aliases[p] \notin DOMAIN aliases
  BY DEF cyclic
<1> HIDE DEF manual, expanded, pinned, aliases
<1>7. r = [b EXCEPT !.aliases = aliases, !.hidden = hidden, !.manual = manual,
                    !.expanded = expanded, !.explicitManual = only(pinned, ToSet(manual))]
  BY DEF canonical, tidy, manual, expanded, pinned, aliases
<1> DEFINE explicit == only(pinned, ToSet(manual))
<1>8. /\ explicit \in Seq(Paths) /\ distinct(explicit) /\ ToSet(explicit) \subseteq ToSet(manual)
      /\ ToSet(explicit) \cap DOMAIN a = {}
  BY <1>4, OnlyIs
<1> HIDE DEF explicit
<1>9. r = [b EXCEPT !.aliases = aliases, !.hidden = hidden, !.manual = manual,
                    !.expanded = expanded, !.explicitManual = explicit]
  BY <1>7 DEF explicit
<1>10. /\ r \in Arrangement /\ r.aliases = aliases /\ r.hidden = hidden /\ r.manual = manual
       /\ r.expanded = expanded /\ r.explicitManual = explicit
  BY <1>1, <1>2, <1>3, <1>5, <1>8, <1>9 DEF Arrangement
<1>11. IsNormal(r)
  BY <1>2, <1>3, <1>5, <1>6, <1>8, <1>10 DEF IsNormal, distinct
<1>12. \A p \in DOMAIN a : aliases[p] = resolvePath(p, a)
  BY DEF aliases
<1> QED BY <1>5, <1>10, <1>11, <1>12

(* Normalizing a board over aliases that end yields a normal board that       *)
(* hides what the board hid.                                                  *)
LEMMA NormalizeIs ==
  ASSUME NEW b \in Arrangement, NEW a \in Aliases, ~cyclic(a), NEW r, r = normalize(b, a)
  PROVE  /\ IsNormal(r) /\ DOMAIN r.aliases = DOMAIN a
         /\ \A p \in DOMAIN a : r.aliases[p] = resolvePath(p, a)
         /\ ToSet(r.hidden) = {resolvePath(x, a) : x \in ToSet(b.hidden)}
<1> DEFINE hidden == unique(resolveAll(b.hidden, a))
<1>1. r = normalized(b, a)
  BY DEF normalize, once
<1>2. normalized(b, a) = canonical(b, a, hidden)
  BY DEF normalized, once
<1>3. b.hidden \in Seq(Paths) /\ ToSet(b.hidden) \subseteq Paths
  BY DEF Arrangement, ToSet
<1>4. /\ hidden \in Seq(Paths) /\ distinct(hidden)
      /\ ToSet(hidden) = {resolvePath(x, a) : x \in ToSet(b.hidden)}
  BY <1>3, ResolveAllIs, UniqueIs
<1> HIDE DEF hidden
<1>5. \A x \in Paths : resolvePath(x, a) \notin DOMAIN a
  BY DEF cyclic, resolvePath
<1>6. ToSet(hidden) \cap DOMAIN a = {}
  BY <1>3, <1>4, <1>5
<1> QED BY <1>1, <1>2, <1>4, <1>6, CanonicalIs

---------------------------------------------------------------------------
(* Renames follow the conversation.                                           *)
generations(g) == {Conversation[i] : i \in 1 .. g}
Turns == 1 .. Len(Conversation)
rank == [x \in Paths |->
           IF \E i \in Turns : x = Conversation[i] THEN CHOOSE i \in Turns : x = Conversation[i]
           ELSE 0]

(* The generations are different paths, ranked by their number.               *)
LEMMA ConversationIs ==
  /\ Len(Conversation) \in Nat \ {0} /\ DOMAIN Conversation = Turns
  /\ \A i \in Turns : Conversation[i] \in Paths /\ rank[Conversation[i]] = i
  /\ Len(Conversation) <= Steps0
<1>1. Conversation \in Seq(Paths) /\ Conversation # <<>>
  BY EditsAssumption
<1>2. Len(Conversation) \in Nat \ {0} /\ DOMAIN Conversation = Turns
  BY <1>1, EmptySeq DEF Turns
<1>3. \A i \in Turns : Conversation[i] \in Paths
  BY <1>1 DEF Turns
<1>4. \A i, j \in Turns : Conversation[i] = Conversation[j] => i = j
  BY <1>2, EditsAssumption
<1>5. \A i \in Turns : rank[Conversation[i]] = i
  BY <1>3, <1>4 DEF rank
<1>6. Len(Conversation) <= Steps0
  <2>1. Conversation \in Injection(Turns, Paths)
    <3>1. Conversation \in [Turns -> Paths]
      BY <1>1, <1>2, <1>3
    <3> QED BY <1>4, <3>1 DEF Injection, IsInjective
  <2>2. Cardinality(Turns) <= Cardinality(Paths)
    BY <2>1, ReducerAssumption, FS_Injection
  <2>3. Cardinality(Turns) = Len(Conversation)
    BY <1>2, FS_Interval DEF Turns
  <2> QED BY <2>2, <2>3 DEF Steps0
<1> QED BY <1>2, <1>3, <1>5, <1>6

(* Aliases only lead from a known generation to a later one.                  *)
follows(a, g) ==
  \A x \in DOMAIN a : x \in generations(g) /\ a[x] \in generations(g) /\ rank[x] < rank[a[x]]

(* The paths of the first g generations, the last one among them.             *)
LEMMA GenerationsAre ==
  ASSUME NEW g \in Turns
  PROVE  /\ generations(g) \subseteq Paths
         /\ \A x \in generations(g) : rank[x] \in 1 .. g /\ x = Conversation[rank[x]]
         /\ Conversation[g] \in generations(g)
         /\ \A i \in 1 .. g : Conversation[i] \in generations(g)
<1>1. 1 .. g \subseteq Turns /\ g \in 1 .. g
  BY ConversationIs DEF Turns
<1> QED BY <1>1, ConversationIs DEF generations

(* Aliases to later generations climb, so they end.                           *)
LEMMA FollowsClimbs ==
  ASSUME NEW a \in Aliases, NEW g \in Turns, follows(a, g)
  PROVE  climbs(a, rank) /\ ~cyclic(a)
<1>1. rank \in [Paths -> 0 .. Steps0]
  <2>1. \A i \in Turns : i \in 0 .. Steps0
    BY ConversationIs, Steps0Is DEF Turns
  <2>2. 0 \in 0 .. Steps0
    BY Steps0Is
  <2> QED BY <2>1, <2>2 DEF rank
<1>2. climbs(a, rank)
  BY <1>1, GenerationsAre DEF climbs, follows
<1>3. DOMAIN a \subseteq Paths
  BY AliasesAre
<1> QED BY <1>2, <1>3, ResolveClimbs DEF cyclic

(* What such aliases do to a path.                                            *)
LEMMA FollowsLeads ==
  ASSUME NEW a \in Aliases, NEW g \in Turns, follows(a, g), NEW p \in Paths
  PROVE  /\ resolvePath(p, a) \in Paths \ DOMAIN a
         /\ p \in generations(g) => resolvePath(p, a) \in generations(g)
         /\ p \notin generations(g) => resolvePath(p, a) = p
         /\ rank[p] <= rank[resolvePath(p, a)]
<1>1. resolvePath(p, a) \in Paths \ DOMAIN a /\ rank[p] <= rank[resolvePath(p, a)]
  BY FollowsClimbs, ResolveClimbs, ResolveTyped
<1>2. ASSUME p \in generations(g) PROVE resolvePath(p, a) \in generations(g)
  BY <1>2, ResolveWithin, GenerationsAre DEF follows
<1>3. ASSUME p \notin generations(g) PROVE resolvePath(p, a) = p
  BY <1>3 DEF follows, resolvePath
<1> QED BY <1>1, <1>2, <1>3

(* Boards of a project whose conversation has g generations.                  *)
Boards(g) == {b \in Arrangement : IsNormal(b) /\ follows(b.aliases, g)}

(* The hidden paths of a board that a conversation has, or not.               *)
LEMMA BoardIs ==
  ASSUME NEW g \in Turns, NEW b \in Boards(g)
  PROVE  /\ b \in Arrangement /\ b.aliases \in Aliases /\ flat(b.aliases)
         /\ follows(b.aliases, g) /\ ~cyclic(b.aliases)
         /\ \A x \in Paths : resolvePath(x, b.aliases) = hop(b.aliases, x)
         /\ ToSet(b.hidden) \subseteq Paths \ DOMAIN b.aliases
<1>1. b \in Arrangement /\ IsNormal(b) /\ follows(b.aliases, g)
  BY DEF Boards
<1>2. b.aliases \in Aliases /\ b.hidden \in Seq(Paths)
  BY <1>1 DEF Arrangement
<1>3. flat(b.aliases) /\ ToSet(b.hidden) \cap DOMAIN b.aliases = {}
  BY <1>1 DEF IsNormal, flat
<1>4. ToSet(b.hidden) \subseteq Paths
  BY <1>2 DEF ToSet
<1> QED BY <1>1, <1>2, <1>3, <1>4, FollowsClimbs, ResolveFlat

(* A later generation does not disturb a board.                               *)
LEMMA BoardsGrow ==
  ASSUME NEW g \in Turns, NEW h \in Turns, g <= h, NEW b \in Boards(g)
  PROVE  b \in Boards(h)
<1>1. generations(g) \subseteq generations(h)
  BY ConversationIs DEF generations, Turns
<1> QED BY <1>1 DEF Boards, follows

---------------------------------------------------------------------------
(* What a mutation does to a board.                                           *)
Fitting(m, g) ==
  /\ IsMutation(m) /\ mentioned(m) \subseteq generations(g)
  /\ m.kind = "remap-paths" => \A p \in DOMAIN m.pairs : rank[p] < rank[m.pairs[p]]

(* It forgets no rename, keeps closed what is not of the conversation, and the *)
(* conversation too unless it is a reopening.                                 *)
continues(b, r, g, sources) ==
  /\ r \in Boards(g) /\ DOMAIN b.aliases \cup sources \subseteq DOMAIN r.aliases
  /\ ToSet(b.hidden) \ generations(g) \subseteq ToSet(r.hidden)
staysClosed(b, r, g) ==
  ToSet(b.hidden) \cap generations(g) # {} => ToSet(r.hidden) \cap generations(g) # {}
same(b, r) == r.aliases = b.aliases /\ ToSet(b.hidden) \subseteq ToSet(r.hidden)

(* Normalizing what edits a canonical board with its aliases keeps them.      *)
LEMMA NormalizedAgain ==
  ASSUME NEW g \in Turns, NEW b \in Boards(g), NEW x \in Arrangement, NEW r,
         r = normalize(x, b.aliases)
  PROVE  /\ r \in Boards(g) /\ r.aliases = b.aliases
         /\ ToSet(r.hidden) = {hop(b.aliases, y) : y \in ToSet(x.hidden)}
<1> DEFINE a == b.aliases
<1>1. /\ a \in Aliases /\ flat(a) /\ follows(a, g) /\ ~cyclic(a)
      /\ \A y \in Paths : resolvePath(y, a) = hop(a, y)
  BY BoardIs
<1>2. /\ IsNormal(r) /\ DOMAIN r.aliases = DOMAIN a
      /\ \A p \in DOMAIN a : r.aliases[p] = resolvePath(p, a)
      /\ ToSet(r.hidden) = {resolvePath(y, a) : y \in ToSet(x.hidden)}
  BY <1>1, NormalizeIs
<1>3. DOMAIN a \subseteq Paths /\ a \in [DOMAIN a -> Paths]
  BY <1>1, AliasesAre
<1>4. r \in Arrangement /\ r.aliases \in Aliases
  BY <1>2 DEF IsNormal, Arrangement
<1>5. r.aliases = a
  <2>1. r.aliases \in [DOMAIN r.aliases -> Paths]
    BY <1>4, AliasesAre
  <2>2. \A p \in DOMAIN a : r.aliases[p] = a[p]
    BY <1>1, <1>2, <1>3 DEF hop
  <2> QED BY <1>2, <1>3, <2>1, <2>2
<1>6. ToSet(x.hidden) \subseteq Paths
  <2>1. x.hidden \in Seq(Paths)
    BY DEF Arrangement
  <2> QED BY <2>1 DEF ToSet
<1> QED BY <1>1, <1>2, <1>4, <1>5, <1>6 DEF Boards

(* Where nothing renamed is closed, what is closed stays as it is.            *)
LEMMA Renormalized ==
  ASSUME NEW g \in Turns, NEW b \in Boards(g), NEW x \in Arrangement,
         ToSet(x.hidden) \subseteq Paths \ DOMAIN b.aliases, NEW r, r = normalize(x, b.aliases)
  PROVE  r \in Boards(g) /\ r.aliases = b.aliases /\ ToSet(r.hidden) = ToSet(x.hidden)
<1>1. \A y \in ToSet(x.hidden) : hop(b.aliases, y) = y
  BY DEF hop
<1>2. /\ r \in Boards(g) /\ r.aliases = b.aliases
      /\ ToSet(r.hidden) = {hop(b.aliases, y) : y \in ToSet(x.hidden)}
  BY NormalizedAgain
<1> QED BY <1>1, <1>2

(* close adds the path's conversation to what is closed.                      *)
LEMMA CloseIs ==
  ASSUME NEW g \in Turns, NEW b \in Boards(g), NEW p \in generations(g) \ DOMAIN b.aliases
  PROVE  continues(b, close(b, p), g, {}) /\ staysClosed(b, close(b, p), g)
<1> DEFINE x == [b EXCEPT !.manual = without(@, {p}), !.expanded = without(@, {p}),
                          !.explicitManual = without(@, {p}), !.hidden = unique(Append(@, p))]
<1>1. /\ b.manual \in Seq(Paths) /\ b.expanded \in Seq(Paths) /\ b.explicitManual \in Seq(Paths)
      /\ b.hidden \in Seq(Paths) /\ b \in Arrangement /\ p \in Paths
  BY BoardIs, GenerationsAre DEF Arrangement
<1>2. /\ without(b.manual, {p}) \in Seq(Paths) /\ without(b.expanded, {p}) \in Seq(Paths)
      /\ without(b.explicitManual, {p}) \in Seq(Paths)
  BY <1>1, WithoutIs
<1>3. /\ unique(Append(b.hidden, p)) \in Seq(Paths)
      /\ ToSet(unique(Append(b.hidden, p))) = ToSet(b.hidden) \cup {p}
  <2>1. Append(b.hidden, p) \in Seq(Paths) /\ ToSet(Append(b.hidden, p)) = ToSet(b.hidden) \cup {p}
    BY <1>1, AppendIs
  <2> HIDE DEF x
  <2> QED BY <2>1, UniqueIs
<1>4. x \in Arrangement /\ x.hidden = unique(Append(b.hidden, p))
  BY <1>1, <1>2, <1>3 DEF Arrangement
<1>5. ToSet(x.hidden) \subseteq Paths \ DOMAIN b.aliases
  BY <1>1, <1>3, <1>4, BoardIs
<1>6. close(b, p) = normalize(x, b.aliases)
  BY DEF close
<1> HIDE DEF x
<1> QED BY <1>3, <1>4, <1>5, <1>6, Renormalized DEF continues, staysClosed

(* A board that shows one path again only reopens that path,                  *)
LEMMA UnhidesIs ==
  ASSUME NEW g \in Turns, NEW b \in Boards(g), NEW p, NEW x \in Arrangement,
         ToSet(x.hidden) = ToSet(b.hidden) \ {p}, p \in generations(g), NEW r,
         r = normalize(x, b.aliases)
  PROVE  continues(b, r, g, {})
<1>1. ToSet(x.hidden) \subseteq Paths \ DOMAIN b.aliases
  BY BoardIs
<1>2. r \in Boards(g) /\ r.aliases = b.aliases /\ ToSet(r.hidden) = ToSet(x.hidden)
  BY <1>1, Renormalized
<1> QED BY <1>2 DEF continues

(* as restore does.                                                           *)
LEMMA RestoreIs ==
  ASSUME NEW g \in Turns, NEW b \in Boards(g), NEW p \in generations(g) \ DOMAIN b.aliases,
         NEW place \in {"auto", "manual", "expanded"}
  PROVE  continues(b, restore(b, p, place), g, {})
<1> DEFINE shown == [b EXCEPT !.hidden = without(@, {p}), !.explicitManual = without(@, {p})]
           unplaced == [shown EXCEPT !.manual = without(@, {p}), !.expanded = without(@, {p})]
           x == CASE place = "auto"     -> shown
                  [] place = "manual"   -> [unplaced EXCEPT !.manual = Append(@, p),
                                                            !.explicitManual = Append(@, p)]
                  [] place = "expanded" -> [unplaced EXCEPT !.expanded = Append(@, p)]
<1>1. /\ b.manual \in Seq(Paths) /\ b.expanded \in Seq(Paths) /\ b.explicitManual \in Seq(Paths)
      /\ b.hidden \in Seq(Paths) /\ b \in Arrangement /\ p \in Paths
  BY BoardIs, GenerationsAre DEF Arrangement
<1>2. /\ without(b.manual, {p}) \in Seq(Paths) /\ without(b.expanded, {p}) \in Seq(Paths)
      /\ without(b.explicitManual, {p}) \in Seq(Paths) /\ without(b.hidden, {p}) \in Seq(Paths)
      /\ ToSet(without(b.hidden, {p})) = ToSet(b.hidden) \ {p}
  BY <1>1, WithoutIs
<1>3. restore(b, p, place) = normalize(x, b.aliases)
  BY DEF restore
<1>4. shown \in Arrangement /\ shown.hidden = without(b.hidden, {p})
  BY <1>1, <1>2 DEF Arrangement
<1>5. /\ shown.manual = b.manual /\ shown.expanded = b.expanded
      /\ shown.explicitManual = without(b.explicitManual, {p})
  BY <1>1 DEF Arrangement
<1> HIDE DEF shown
<1>6. /\ unplaced \in Arrangement /\ unplaced.hidden = without(b.hidden, {p})
      /\ unplaced.manual \in Seq(Paths) /\ unplaced.expanded \in Seq(Paths)
      /\ unplaced.explicitManual \in Seq(Paths)
  BY <1>2, <1>4, <1>5 DEF Arrangement
<1> HIDE DEF unplaced
<1>7. \A l \in Seq(Paths) : Append(l, p) \in Seq(Paths)
  BY <1>1
<1>8. x \in Arrangement /\ x.hidden = without(b.hidden, {p})
  <2>1. CASE place = "auto"
    BY <1>4, <2>1
  <2>2. CASE place = "manual"
    BY <1>6, <1>7, <2>2 DEF Arrangement
  <2>3. CASE place = "expanded"
    BY <1>6, <1>7, <2>3 DEF Arrangement
  <2> QED BY <2>1, <2>2, <2>3
<1> HIDE DEF x
<1>9. ToSet(x.hidden) = ToSet(b.hidden) \ {p}
  BY <1>2, <1>8
<1>10. x \in Arrangement
  BY <1>8
<1> QED BY <1>3, <1>9, <1>10, UnhidesIs

(* reconcileRoots reopens nothing.                                            *)
LEMMA ReconcileIs ==
  ASSUME NEW g \in Turns, NEW b \in Boards(g), NEW roots \in Seq(Paths),
         NEW gone \in Seq(Paths)
  PROVE  /\ continues(b, reconcileRoots(b, roots, gone), g, {})
         /\ staysClosed(b, reconcileRoots(b, roots, gone), g)
         /\ same(b, reconcileRoots(b, roots, gone))
<1> DEFINE lead(p) == resolvePath(p, b.aliases)
           removed == {lead(p) : p \in ToSet(gone)}
           manual == without(b.manual, removed)
           present == ToSet(manual) \cup ToSet(b.hidden)
                        \cup {lead(b.aliases[p]) : p \in DOMAIN b.aliases}
           shown == without(unique(resolveAll(roots, b.aliases)), present)
           x == [b EXCEPT !.manual = manual \o shown,
                          !.explicitManual = without(@, removed)]
<1>1. reconcileRoots(b, roots, gone) = normalize(x, b.aliases)
  BY DEF reconcileRoots
<1>2. /\ b.manual \in Seq(Paths) /\ b.explicitManual \in Seq(Paths) /\ b \in Arrangement
      /\ b.aliases \in Aliases
  BY BoardIs DEF Arrangement
<1> HIDE DEF removed
<1>3. manual \in Seq(Paths) /\ without(b.explicitManual, removed) \in Seq(Paths)
  BY <1>2, WithoutIs
<1>4. unique(resolveAll(roots, b.aliases)) \in Seq(Paths)
  BY <1>2, ResolveAllIs, UniqueIs
<1> HIDE DEF manual, present
<1>5. shown \in Seq(Paths)
  BY <1>4, WithoutIs
<1> HIDE DEF shown
<1>6. manual \o shown \in Seq(Paths)
  BY <1>3, <1>5
<1>7. x \in Arrangement /\ x.hidden = b.hidden
  BY <1>2, <1>3, <1>6 DEF Arrangement
<1> HIDE DEF x
<1>8. ToSet(x.hidden) \subseteq Paths \ DOMAIN b.aliases
  BY <1>7, BoardIs
<1> QED BY <1>1, <1>7, <1>8, Renormalized DEF continues, staysClosed, same

(* Neither does set-presentation.                                             *)
LEMMA PresentIs ==
  ASSUME NEW g \in Turns, NEW b \in Boards(g), NEW mode \in Modes \cup {Null}, NEW r,
         r = normalize([b EXCEPT !.mode = mode], b.aliases)
  PROVE  continues(b, r, g, {}) /\ staysClosed(b, r, g) /\ same(b, r)
<1> DEFINE x == [b EXCEPT !.mode = mode]
<1>1. x \in Arrangement /\ x.hidden = b.hidden
  BY BoardIs DEF Arrangement
<1>2. r = normalize(x, b.aliases)
  OBVIOUS
<1> HIDE DEF x
<1>3. ToSet(x.hidden) \subseteq Paths \ DOMAIN b.aliases
  BY <1>1, BoardIs
<1> QED BY <1>1, <1>2, <1>3, Renormalized DEF continues, staysClosed, same

(* A rename forgets no other.                                                 *)
LEMMA RemapIs ==
  ASSUME NEW g \in Turns, NEW b \in Boards(g), NEW pairs \in Aliases,
         \A p \in DOMAIN pairs : /\ p \in generations(g) /\ pairs[p] \in generations(g)
                                 /\ rank[p] < rank[pairs[p]]
  PROVE  /\ continues(b, remapPaths(b, pairs), g, DOMAIN pairs)
         /\ staysClosed(b, remapPaths(b, pairs), g)
         /\ DOMAIN pairs = {} => same(b, remapPaths(b, pairs))
<1> DEFINE lead(p) == resolvePath(p, b.aliases)
           active == {p \in DOMAIN pairs : lead(p) # lead(pairs[p])}
           sources == {lead(p) : p \in DOMAIN pairs}
           targets == {lead(pairs[p]) : p \in active}
           keeps == {p \in Paths : lead(p) \notin targets \/ lead(p) \in sources}
           a == [p \in active \cup DOMAIN b.aliases |->
                   IF p \in active THEN pairs[p] ELSE b.aliases[p]]
           x == [b EXCEPT !.manual = only(@, keeps), !.explicitManual = only(@, keeps)]
           r == remapPaths(b, pairs)
<1>1. r = normalize(x, a)
  BY DEF remapPaths
<1>2. /\ b.manual \in Seq(Paths) /\ b.explicitManual \in Seq(Paths) /\ b.hidden \in Seq(Paths)
      /\ b \in Arrangement /\ b.aliases \in Aliases /\ follows(b.aliases, g)
  BY BoardIs DEF Arrangement
<1>3. DOMAIN b.aliases \subseteq Paths /\ b.aliases \in [DOMAIN b.aliases -> Paths]
  BY <1>2, AliasesAre
<1>4. generations(g) \subseteq Paths /\ DOMAIN pairs \subseteq Paths
  BY GenerationsAre, AliasesAre
<1>5. /\ DOMAIN a = active \cup DOMAIN b.aliases
      /\ \A p \in DOMAIN a : p \in generations(g) /\ a[p] \in generations(g) /\ rank[p] < rank[a[p]]
  BY <1>2 DEF follows
<1>6. \A p \in DOMAIN pairs : p \in DOMAIN a
  <2> SUFFICES ASSUME NEW p \in DOMAIN pairs, p \notin DOMAIN b.aliases, lead(p) = lead(pairs[p])
               PROVE  FALSE
    BY <1>5
  <2>1. p \in Paths /\ pairs[p] \in Paths
    BY <1>4
  <2>2. lead(p) = p
    BY DEF resolvePath
  <2>3. rank[pairs[p]] <= rank[lead(pairs[p])]
    BY <1>2, <2>1, FollowsLeads
  <2>4. rank[p] \in Nat /\ rank[pairs[p]] \in Nat
    BY GenerationsAre
  <2> HIDE DEF lead
  <2> QED BY <2>2, <2>3, <2>4
<1> HIDE DEF keeps
<1>7. only(b.manual, keeps) \in Seq(Paths) /\ only(b.explicitManual, keeps) \in Seq(Paths)
  BY <1>2, OnlyIs
<1>8. x \in Arrangement /\ x.hidden = b.hidden
  BY <1>2, <1>7 DEF Arrangement
<1>9. DOMAIN pairs = {} => a = b.aliases
  <2> SUFFICES ASSUME DOMAIN pairs = {} PROVE a = b.aliases
    OBVIOUS
  <2>1. active = {}
    OBVIOUS
  <2> HIDE DEF active
  <2>2. a = [p \in DOMAIN b.aliases |-> b.aliases[p]]
    BY <2>1
  <2> QED BY <1>3, <2>2
<1> HIDE DEF x, active, a, r
<1>10. a \in Aliases /\ follows(a, g)
  <2>1. DOMAIN a \subseteq Paths /\ \A p \in DOMAIN a : a[p] \in Paths
    BY <1>4, <1>5
  <2>2. a = [p \in DOMAIN a |-> a[p]]
    BY DEF a
  <2>3. a \in [DOMAIN a -> Paths]
    BY <2>1, <2>2
  <2> QED BY <1>5, <2>1, <2>3, AliasesAre DEF follows
<1>11. /\ IsNormal(r) /\ DOMAIN r.aliases = DOMAIN a
       /\ \A p \in DOMAIN a : r.aliases[p] = resolvePath(p, a)
       /\ ToSet(r.hidden) = {resolvePath(y, a) : y \in ToSet(b.hidden)}
  BY <1>1, <1>8, <1>10, FollowsClimbs, NormalizeIs
<1>12. follows(r.aliases, g)
  <2> SUFFICES ASSUME NEW p \in DOMAIN a
               PROVE  resolvePath(p, a) \in generations(g) /\ rank[p] < rank[resolvePath(p, a)]
    BY <1>5, <1>11 DEF follows
  <2> DEFINE q == resolvePath(p, a)
  <2>1. p \in generations(g) /\ p \in Paths
    BY <1>4, <1>5
  <2>2. q \in generations(g) /\ q \notin DOMAIN a /\ rank[p] <= rank[q]
    BY <1>10, <2>1, FollowsLeads
  <2> HIDE DEF q
  <2>3. rank[p] # rank[q]
    BY <2>1, <2>2, GenerationsAre
  <2>4. rank[p] \in Nat /\ rank[q] \in Nat
    BY <2>1, <2>2, GenerationsAre
  <2>5. rank[p] < rank[q]
    BY <2>2, <2>3, <2>4
  <2> QED BY <2>2, <2>5 DEF q
<1>13. r \in Boards(g)
  BY <1>11, <1>12 DEF Boards, IsNormal
<1>14. ToSet(b.hidden) \subseteq Paths
  BY BoardIs
<1>15. ToSet(b.hidden) \ generations(g) \subseteq ToSet(r.hidden)
  BY <1>10, <1>11, <1>14, FollowsLeads
<1>16. ToSet(b.hidden) \cap generations(g) # {} => ToSet(r.hidden) \cap generations(g) # {}
  BY <1>10, <1>11, <1>14, FollowsLeads
<1>17. DOMAIN b.aliases \cup DOMAIN pairs \subseteq DOMAIN r.aliases
  BY <1>5, <1>6, <1>11
<1>18. ASSUME DOMAIN pairs = {} PROVE same(b, r)
  <2>1. a = b.aliases
    BY <1>9, <1>18
  <2>2. /\ \A y \in Paths : resolvePath(y, b.aliases) = hop(b.aliases, y)
        /\ ToSet(b.hidden) \subseteq Paths \ DOMAIN b.aliases
    BY BoardIs
  <2>3. r.aliases \in [DOMAIN b.aliases -> Paths]
    BY <1>11, <2>1, AliasesAre DEF IsNormal, Arrangement
  <2>4. \A p \in DOMAIN b.aliases : r.aliases[p] = b.aliases[p]
    BY <1>3, <1>11, <2>1, <2>2 DEF hop
  <2>5. r.aliases = b.aliases
    BY <1>3, <2>3, <2>4
  <2>6. \A y \in ToSet(b.hidden) : resolvePath(y, a) = y
    BY <2>1, <2>2 DEF hop
  <2> QED BY <1>11, <2>5, <2>6 DEF same
<1>19. continues(b, r, g, DOMAIN pairs) /\ staysClosed(b, r, g)
  BY <1>13, <1>15, <1>16, <1>17 DEF continues, staysClosed
<1> QED BY <1>18, <1>19 DEF r

(* One mutation: what a tab says of a generation is done to its successor.    *)
LEMMA ReduceIs ==
  ASSUME NEW g \in Turns, NEW b \in Boards(g), NEW m, Fitting(m, g)
  PROVE  /\ continues(b, reduce(b, m), g, sourcesOf(m))
         /\ m.kind # "restore" => staysClosed(b, reduce(b, m), g)
         /\ mentioned(m) = {} => same(b, reduce(b, m))
<1> DEFINE q == resolvePath(m.path, b.aliases)
           r == reduce(b, m)
<1>1. CASE m.kind = "close"
  <2>1. mentioned(m) = {m.path} /\ sourcesOf(m) = {} /\ m.path \in Paths
    BY <1>1 DEF mentioned, sourcesOf, Fitting, IsMutation
  <2>2. q \in generations(g) \ DOMAIN b.aliases
    BY <2>1, BoardIs, FollowsLeads DEF Fitting
  <2>3. r = close(b, q)
    BY <1>1 DEF reduce
  <2> HIDE DEF q
  <2> QED BY <1>1, <2>1, <2>2, <2>3, CloseIs
<1>2. CASE m.kind = "restore"
  <2>1. /\ mentioned(m) = {m.path} /\ sourcesOf(m) = {} /\ m.path \in Paths
        /\ m.placement \in {"auto", "manual", "expanded"}
    BY <1>2 DEF mentioned, sourcesOf, Fitting, IsMutation
  <2>2. q \in generations(g) \ DOMAIN b.aliases
    BY <2>1, BoardIs, FollowsLeads DEF Fitting
  <2>3. r = restore(b, q, m.placement)
    BY <1>2 DEF reduce
  <2> HIDE DEF q
  <2> QED BY <1>2, <2>1, <2>2, <2>3, RestoreIs
<1>3. CASE m.kind = "reconcile-roots"
  <2>1. m.roots \in Seq(Paths) /\ m.removeManual \in Seq(Paths) /\ sourcesOf(m) = {}
    BY <1>3 DEF Fitting, IsMutation, sourcesOf
  <2>2. r = reconcileRoots(b, m.roots, m.removeManual)
    BY <1>3 DEF reduce
  <2> QED BY <1>3, <2>1, <2>2, ReconcileIs
<1>4. CASE m.kind = "remap-paths"
  <2>1. /\ m.pairs \in Aliases /\ sourcesOf(m) = DOMAIN m.pairs
        /\ mentioned(m) = DOMAIN m.pairs \cup {m.pairs[p] : p \in DOMAIN m.pairs}
    BY <1>4 DEF Fitting, IsMutation, sourcesOf, mentioned
  <2>2. \A p \in DOMAIN m.pairs : /\ p \in generations(g) /\ m.pairs[p] \in generations(g)
                                  /\ rank[p] < rank[m.pairs[p]]
    BY <1>4, <2>1 DEF Fitting
  <2>3. r = remapPaths(b, m.pairs)
    BY <1>4 DEF reduce
  <2> QED BY <1>4, <2>1, <2>2, <2>3, RemapIs
<1>5. CASE m.kind = "set-presentation"
  <2>1. m.mode \in Modes \cup {Null} /\ sourcesOf(m) = {}
    BY <1>5 DEF Fitting, IsMutation, sourcesOf
  <2>2. r = normalize([b EXCEPT !.mode = m.mode], b.aliases)
    BY <1>5 DEF reduce
  <2> QED BY <1>5, <2>1, <2>2, PresentIs
<1> QED BY <1>1, <1>2, <1>3, <1>4, <1>5 DEF Fitting, IsMutation

(* Several, one after the other.                                              *)
batch(after, b, ms) ==
  /\ after[0] = normalize(b, b.aliases)
  /\ \A n \in 1 .. Len(ms) : after[n] = reduce(after[n - 1], ms[n])

(* applyBoardMutations applies them one by one to canonical boards.           *)
LEMMA BatchRuns ==
  ASSUME NEW g \in Turns, NEW b \in Boards(g), NEW ms, Len(ms) \in Nat,
         \A i \in 1 .. Len(ms) : Fitting(ms[i], g)
  PROVE  \E after \in [0 .. Len(ms) -> Boards(g)] :
           batch(after, b, ms) /\ applyBoardMutations(b, ms) = after[Len(ms)]
<1> DEFINE N == Len(ms)
           X == Boards(g)
           x0 == normalize(b, b.aliases)
           step == [n \in 1 .. N |-> [x \in X |-> reduce(x, ms[n])]]
           next(n, y) == once(y, LAMBDA x : IF x = Null THEN Null ELSE reduce(x, ms[n]))
           body(f) == [n \in 0 .. N |-> IF n = 0 THEN x0 ELSE next(n, f[n - 1])]
           after == CHOOSE f : f = body(f)
<1>1. x0 \in X
  <2>1. b \in Arrangement /\ ToSet(b.hidden) \subseteq Paths \ DOMAIN b.aliases
    BY BoardIs
  <2> QED BY <2>1, Renormalized
<1>2. \A x \in X : x # Null
  BY ReducerAssumption DEF Boards
<1>3. \A n \in 1 .. N : \A x \in X : reduce(x, ms[n]) \in X
  BY ReduceIs DEF continues
<1>4. \A n : \A y : next(n, y) = IF y = Null THEN Null ELSE reduce(y, ms[n])
  BY DEF once
<1>5. applyBoardMutations(b, ms) = after[N]
  BY DEF applyBoardMutations
<1> HIDE DEF X, x0, next
<1>6. step \in Steps(X, N)
  BY <1>3 DEF Steps
<1>7. \A n \in 1 .. N : \A x \in X : step[n][x] = reduce(x, ms[n]) /\ next(n, x) = reduce(x, ms[n])
  BY <1>2, <1>4
<1> HIDE DEF N, step
<1>8. N \in Nat
  BY DEF N
<1>9. PICK f \in [0 .. N -> X] : runs(f, x0, N, step)
  BY <1>1, <1>6, <1>8, Iterates
<1>10. \A n \in 1 .. N : n \in 0 .. N /\ n - 1 \in 0 .. N /\ n # 0
  BY <1>8
<1>11. \A n \in 0 .. N : n = 0 \/ n \in 1 .. N
  BY <1>8
<1>12. \A n \in 1 .. N : f[n] = next(n, f[n - 1])
  BY <1>7, <1>9, <1>10 DEF runs
<1>13. f = body(f)
  <2>1. \A n \in 0 .. N : f[n] = IF n = 0 THEN x0 ELSE next(n, f[n - 1])
    BY <1>9, <1>10, <1>11, <1>12 DEF runs
  <2> QED BY <2>1
<1>14. after = body(after)
  <2> HIDE DEF body
  <2> QED BY <1>13
<1> HIDE DEF after
<1>15. after[0] = x0 /\ \A n \in 1 .. N : after[n] = next(n, after[n - 1])
  BY <1>8, <1>10, <1>14
<1>16. \A n \in 1 .. N : after[n - 1] \in X => after[n] = step[n][after[n - 1]]
  BY <1>7, <1>15
<1>17. \A n \in 0 .. N : after[n] \in X
  BY <1>1, <1>6, <1>8, <1>15, <1>16, IteratesWithin
<1>18. after \in [0 .. N -> X]
  BY <1>14, <1>17
<1>19. batch(after, b, ms)
  BY <1>7, <1>10, <1>15, <1>17 DEF batch, x0, N
<1> QED BY <1>5, <1>18, <1>19 DEF N, X

sourcesUpTo(ms, n) == UNION {sourcesOf(ms[i]) : i \in 1 .. n}
opensUpTo(ms, n) == \E i \in 1 .. n : ms[i].kind = "restore"

(* The board keeps known renames and learns those it is told.                 *)
LEMMA BatchIs ==
  ASSUME NEW g \in Turns, NEW b \in Boards(g), NEW ms, Len(ms) \in Nat,
         \A i \in 1 .. Len(ms) : Fitting(ms[i], g), NEW r, r = applyBoardMutations(b, ms)
  PROVE  /\ continues(b, r, g, sourcesUpTo(ms, Len(ms)))
         /\ opensUpTo(ms, Len(ms)) \/ staysClosed(b, r, g)
         /\ (\A i \in 1 .. Len(ms) : mentioned(ms[i]) = {}) => same(b, r)
<1>1. PICK after \in [0 .. Len(ms) -> Boards(g)] : batch(after, b, ms) /\ r = after[Len(ms)]
  BY BatchRuns
<1> DEFINE N == Len(ms)
           silent == \A i \in 1 .. N : mentioned(ms[i]) = {}
           good(n) == /\ continues(b, after[n], g, sourcesUpTo(ms, n))
                      /\ opensUpTo(ms, n) \/ staysClosed(b, after[n], g)
                      /\ silent => same(b, after[n])
           T == {n \in Nat : n <= N => good(n)}
<1>2. 0 \in T
  <2>1. b \in Arrangement /\ ToSet(b.hidden) \subseteq Paths \ DOMAIN b.aliases
    BY BoardIs
  <2>2. /\ after[0] \in Boards(g) /\ after[0].aliases = b.aliases
        /\ ToSet(after[0].hidden) = ToSet(b.hidden)
    BY <1>1, <2>1, Renormalized DEF batch
  <2>3. sourcesUpTo(ms, 0) = {} /\ ~opensUpTo(ms, 0)
    BY DEF sourcesUpTo, opensUpTo
  <2> QED BY <2>2, <2>3 DEF continues, staysClosed, same
<1>3. ASSUME NEW m \in Nat, m \in T PROVE m + 1 \in T
  <2> SUFFICES ASSUME m + 1 <= N PROVE good(m + 1)
    OBVIOUS
  <2>1. /\ m <= N /\ m \in 0 .. N /\ m + 1 \in 1 .. N /\ m + 1 - 1 = m
        /\ 1 .. m + 1 = (1 .. m) \cup {m + 1}
    OBVIOUS
  <2>2. good(m) /\ after[m] \in Boards(g)
    BY <1>1, <1>3, <2>1
  <2>3. after[m + 1] = reduce(after[m], ms[m + 1])
    BY <1>1, <2>1 DEF batch
  <2>4. /\ continues(after[m], after[m + 1], g, sourcesOf(ms[m + 1]))
        /\ ms[m + 1].kind # "restore" => staysClosed(after[m], after[m + 1], g)
        /\ mentioned(ms[m + 1]) = {} => same(after[m], after[m + 1])
    BY <2>1, <2>2, <2>3, ReduceIs
  <2>5. /\ sourcesUpTo(ms, m + 1) = sourcesUpTo(ms, m) \cup sourcesOf(ms[m + 1])
        /\ opensUpTo(ms, m) \/ ms[m + 1].kind = "restore" => opensUpTo(ms, m + 1)
    BY <2>1 DEF sourcesUpTo, opensUpTo
  <2>6. /\ continues(b, after[m + 1], g, sourcesUpTo(ms, m + 1))
        /\ opensUpTo(ms, m + 1) \/ staysClosed(b, after[m + 1], g)
    BY <2>2, <2>4, <2>5 DEF continues, staysClosed
  <2>7. silent => same(b, after[m + 1])
    BY <2>1, <2>2, <2>4 DEF same
  <2> QED BY <2>6, <2>7
<1> HIDE DEF T
<1>4. N \in T
  BY <1>2, <1>3, Induct
<1>5. good(N)
  BY <1>4 DEF T
<1> QED BY <1>1, <1>5

---------------------------------------------------------------------------
(* What the server makes of a request.                                        *)

(* An edit that names transcripts which exist.                                *)
LEMMA MenuFits ==
  ASSUME NEW g \in Turns, NEW c \in Stores, NEW m \in Menu[c], mentioned(m) \subseteq generations(g)
  PROVE  Fitting(m, g)
<1>1. IsMutation(m) /\ (m.kind = "remap-paths" => succession(m.pairs))
  BY EditsAssumption
<1>2. ASSUME m.kind = "remap-paths", NEW p \in DOMAIN m.pairs PROVE rank[p] < rank[m.pairs[p]]
  <2>1. PICK i \in Turns, j \in Turns :
          i < j /\ p = Conversation[i] /\ m.pairs[p] = Conversation[j]
    BY <1>1, <1>2, ConversationIs DEF succession
  <2>2. rank[p] = i /\ rank[m.pairs[p]] = j
    BY <2>1, ConversationIs
  <2> QED BY <2>1, <2>2
<1> QED BY <1>1, <1>2 DEF Fitting

(* Once every earlier generation is renamed, all lead to the latest.          *)
LEMMA AllLead ==
  ASSUME NEW g \in Turns, NEW r \in Boards(g),
         generations(g) \ {Conversation[g]} \subseteq DOMAIN r.aliases
  PROVE  /\ \A p \in generations(g) : resolvePath(p, r.aliases) = Conversation[g]
         /\ \A p \in Paths \ generations(g) : resolvePath(p, r.aliases) = p
         /\ \A y \in ToSet(r.hidden) \cap generations(g) : y = Conversation[g]
<1>1. /\ r.aliases \in Aliases /\ follows(r.aliases, g) /\ generations(g) \subseteq Paths
      /\ ToSet(r.hidden) \subseteq Paths \ DOMAIN r.aliases
  BY BoardIs, GenerationsAre
<1>2. \A p \in Paths : resolvePath(p, r.aliases) \in Paths \ DOMAIN r.aliases
  BY <1>1, FollowsLeads
<1>3. \A p \in generations(g) : resolvePath(p, r.aliases) \in generations(g)
  BY <1>1, FollowsLeads
<1>4. \A p \in Paths \ generations(g) : resolvePath(p, r.aliases) = p
  BY <1>1, FollowsLeads
<1> QED BY <1>1, <1>2, <1>3, <1>4

(* Then a closed conversation is closed.                                      *)
LEMMA ClosedIs ==
  ASSUME NEW g \in Turns, NEW b \in Boards(g), NEW S, NEW r, continues(b, r, g, S),
         staysClosed(b, r, g), generations(g) \ {Conversation[g]} \subseteq S,
         NEW p \in Paths, isHidden(b, p)
  PROVE  isHidden(r, p)
<1>1. r \in Boards(g) /\ generations(g) \ {Conversation[g]} \subseteq DOMAIN r.aliases
  BY DEF continues
<1>2. CASE p \in generations(g)
  <2>1. resolvePath(p, b.aliases) \in generations(g)
    BY <1>2, BoardIs, FollowsLeads
  <2>2. ToSet(r.hidden) \cap generations(g) # {}
    BY <2>1 DEF isHidden, staysClosed
  <2>3. Conversation[g] \in ToSet(r.hidden)
    BY <1>1, <2>2, AllLead
  <2>4. resolvePath(p, r.aliases) = Conversation[g]
    BY <1>1, <1>2, AllLead
  <2> QED BY <2>3, <2>4 DEF isHidden
<1>3. CASE p \notin generations(g)
  <2>1. resolvePath(p, b.aliases) = p
    BY <1>3, BoardIs, FollowsLeads
  <2>2. p \in ToSet(r.hidden)
    BY <1>3, <2>1 DEF isHidden, continues
  <2>3. resolvePath(p, r.aliases) = p
    BY <1>1, <1>3, AllLead
  <2> QED BY <2>2, <2>3 DEF isHidden
<1> QED BY <1>2, <1>3

(* The path p is reopened by one of several mutations.                        *)
reopened(ms, r, p) ==
  \E i \in 1 .. Len(ms) :
    ms[i].kind = "restore" /\ resolvePath(ms[i].path, r.aliases) = resolvePath(p, r.aliases)

(* A path that was closed and is not was reopened by one of them.             *)
LEMMA BatchCloses ==
  ASSUME NEW g \in Turns, NEW b \in Boards(g), NEW ms, Len(ms) \in Nat,
         \A i \in 1 .. Len(ms) : Fitting(ms[i], g), NEW r, r = applyBoardMutations(b, ms),
         generations(g) \ {Conversation[g]} \subseteq sourcesUpTo(ms, Len(ms)),
         NEW p \in Paths, isHidden(b, p), ~isHidden(r, p)
  PROVE  reopened(ms, r, p)
<1>1. /\ continues(b, r, g, sourcesUpTo(ms, Len(ms)))
      /\ opensUpTo(ms, Len(ms)) \/ staysClosed(b, r, g)
  BY BatchIs
<1>2. r \in Boards(g) /\ generations(g) \ {Conversation[g]} \subseteq DOMAIN r.aliases
  BY <1>1 DEF continues
<1>3. ~staysClosed(b, r, g)
  BY <1>1, ClosedIs
<1>4. p \in generations(g)
  <2> SUFFICES ASSUME p \notin generations(g) PROVE FALSE
    OBVIOUS
  <2>1. resolvePath(p, b.aliases) = p
    BY BoardIs, FollowsLeads
  <2>2. resolvePath(p, r.aliases) = p
    BY <1>2, AllLead
  <2> QED BY <1>1, <2>1, <2>2 DEF isHidden, continues
<1>5. PICK i \in 1 .. Len(ms) : ms[i].kind = "restore"
  BY <1>1, <1>3 DEF opensUpTo
<1>6. ms[i].path \in generations(g)
  BY <1>5 DEF Fitting, mentioned
<1> QED BY <1>2, <1>4, <1>5, <1>6, AllLead DEF reopened

(* A request's mutations, with a rename in front.                             *)
LEMMA InFront ==
  ASSUME NEW M, NEW prefix \in Seq(M), NEW x, NEW ms, ms = <<x>> \o prefix
  PROVE  /\ Len(ms) = Len(prefix) + 1 /\ Len(prefix) \in Nat /\ ms[1] = x
         /\ \A i \in 1 .. Len(prefix) : ms[i + 1] = prefix[i]
         /\ \A i \in 1 .. Len(ms) : i = 1 \/ (i - 1 \in 1 .. Len(prefix) /\ ms[i] = prefix[i - 1])
<1>1. Len(prefix) \in Nat
  OBVIOUS
<1>2. <<x>> \in Seq({x}) /\ Len(<<x>>) = 1 /\ <<x>>[1] = x
  OBVIOUS
<1>3. /\ Len(ms) = Len(prefix) + 1
      /\ \A i \in 1 .. Len(prefix) + 1 : ms[i] = IF i <= 1 THEN <<x>>[i] ELSE prefix[i - 1]
  <2>1. <<x>> \in Seq(M \cup {x}) /\ prefix \in Seq(M \cup {x})
    OBVIOUS
  <2> QED BY <1>1, <1>2, <2>1, ConcatProperties
<1>4. ms[1] = x
  BY <1>1, <1>2, <1>3
<1>5. ASSUME NEW i \in 1 .. Len(prefix) PROVE ms[i + 1] = prefix[i]
  <2>1. i + 1 \in 1 .. Len(prefix) + 1 /\ ~(i + 1 <= 1) /\ i + 1 - 1 = i
    BY <1>1
  <2> QED BY <1>3, <2>1
<1>6. ASSUME NEW i \in 1 .. Len(ms), i # 1
      PROVE  i - 1 \in 1 .. Len(prefix) /\ ms[i] = prefix[i - 1]
  <2>1. i \in 1 .. Len(prefix) + 1 /\ ~(i <= 1) /\ i - 1 \in 1 .. Len(prefix)
    BY <1>1, <1>3, <1>6
  <2> QED BY <1>3, <2>1
<1> QED BY <1>1, <1>3, <1>4, <1>5, <1>6

(* Carrying out a request keeps closed what it does not reopen.               *)
LEMMA ServedIs ==
  ASSUME NEW g \in Turns, registry.generations = g, NEW b \in Boards(g), NEW c \in Stores,
         NEW prefix \in Seq(Menu[c]), \A i \in 1 .. Len(prefix) : Fitting(prefix[i], g),
         NEW r, r = applyBoardMutations(b, withAliases(prefix))
  PROVE  /\ r \in Boards(g)
         /\ \A p \in Paths : isHidden(b, p) /\ ~isHidden(r, p) => reopened(prefix, r, p)
<1> DEFINE known == generations(g)
           latest == Conversation[g]
           supplied == UNION {sourcesOf(prefix[i]) : i \in DOMAIN prefix}
           named == UNION {mentioned(prefix[i]) : i \in DOMAIN prefix}
           sources == known \ (supplied \cup {latest})
           remap == [kind |-> "remap-paths", pairs |-> [p \in sources |-> latest]]
           ms == withAliases(prefix)
<1>1. ms = IF known \cap named = {} \/ sources = {} THEN prefix ELSE <<remap>> \o prefix
  BY DEF withAliases, generations
<1>2. /\ Len(prefix) \in Nat /\ DOMAIN prefix = 1 .. Len(prefix)
      /\ supplied = sourcesUpTo(prefix, Len(prefix))
  BY DEF sourcesUpTo
<1>3. \A i \in 1 .. Len(prefix) : mentioned(prefix[i]) \subseteq known \cap named
  BY <1>2 DEF Fitting
<1> HIDE DEF ms, supplied, named
<1>4. CASE known \cap named = {}
  <2>1. ms = prefix
    BY <1>1, <1>4
  <2>2. r = applyBoardMutations(b, prefix)
    BY <2>1 DEF ms
  <2>3. continues(b, r, g, sourcesUpTo(prefix, Len(prefix))) /\ same(b, r)
    <3>1. \A i \in 1 .. Len(prefix) : mentioned(prefix[i]) = {}
      BY <1>3, <1>4
    <3> QED BY <1>2, <2>2, <3>1, BatchIs
  <2> QED BY <2>3 DEF continues, same, isHidden
<1>5. CASE known \cap named # {} /\ sources = {}
  <2>1. ms = prefix
    BY <1>1, <1>5
  <2>2. r = applyBoardMutations(b, prefix)
    BY <2>1 DEF ms
  <2>3. known \ {latest} \subseteq sourcesUpTo(prefix, Len(prefix))
    BY <1>2, <1>5
  <2>4. r \in Boards(g)
    BY <1>2, <2>2, BatchIs DEF continues
  <2> HIDE DEF known, latest
  <2> QED BY <1>2, <2>2, <2>3, <2>4, BatchCloses DEF known, latest
<1>6. CASE known \cap named # {} /\ sources # {}
  <2>1. ms = <<remap>> \o prefix
    BY <1>1, <1>6
  <2>2. /\ sources \subseteq known /\ latest \notin sources /\ known \subseteq Paths /\ latest \in known
        /\ \A x \in known : rank[x] \in 1 .. g /\ x = Conversation[rank[x]]
    BY GenerationsAre
  <2> HIDE DEF sources
  <2>3. Fitting(remap, g)
    <3>1. [p \in sources |-> latest] \in Aliases
      BY <2>2, AliasesAre
    <3>2. IsMutation(remap) /\ mentioned(remap) \subseteq known
      BY <2>2, <3>1 DEF IsMutation, mentioned
    <3>3. ASSUME NEW p \in sources PROVE rank[p] < rank[latest]
      <4>1. rank[latest] = g
        BY ConversationIs
      <4>2. rank[p] \in 1 .. g /\ rank[p] # g
        BY <2>2
      <4>3. g \in Nat
        BY ConversationIs DEF Turns
      <4> QED BY <4>1, <4>2, <4>3
    <3> QED BY <3>2, <3>3 DEF Fitting
  <2> HIDE DEF remap
  <2>4. /\ Len(ms) = Len(prefix) + 1 /\ Len(ms) \in Nat /\ ms[1] = remap
        /\ \A i \in 1 .. Len(prefix) : i + 1 \in 1 .. Len(ms) /\ ms[i + 1] = prefix[i]
        /\ \A i \in 1 .. Len(ms) : i = 1 \/ (i - 1 \in 1 .. Len(prefix) /\ ms[i] = prefix[i - 1])
    BY <1>2, <2>1, InFront
  <2>5. \A i \in 1 .. Len(ms) : Fitting(ms[i], g)
    BY <2>3, <2>4
  <2>6. known \ {latest} \subseteq sourcesUpTo(ms, Len(ms))
    <3>1. sourcesOf(remap) = sources /\ remap.kind = "remap-paths"
      BY DEF sourcesOf, remap
    <3>2. 1 \in 1 .. Len(ms)
      BY <1>2, <2>4
    <3>3. sources \subseteq sourcesUpTo(ms, Len(ms))
      BY <2>4, <3>1, <3>2 DEF sourcesUpTo
    <3>4. supplied \subseteq sourcesUpTo(ms, Len(ms))
      BY <1>2, <2>4 DEF sourcesUpTo
    <3> QED BY <3>3, <3>4 DEF sources
  <2>7. r = applyBoardMutations(b, ms)
    BY DEF ms
  <2>8. r \in Boards(g)
    BY <2>4, <2>5, <2>7, BatchIs DEF continues
  <2>9. \A p \in Paths : isHidden(b, p) /\ ~isHidden(r, p) => reopened(ms, r, p)
    BY <2>4, <2>5, <2>6, <2>7, BatchCloses DEF known, latest
  <2>10. ASSUME NEW p, reopened(ms, r, p) PROVE reopened(prefix, r, p)
    <3>1. PICK i \in 1 .. Len(ms) :
            ms[i].kind = "restore" /\ resolvePath(ms[i].path, r.aliases) = resolvePath(p, r.aliases)
      BY <2>10 DEF reopened
    <3>2. i # 1
      BY <2>4, <3>1 DEF remap
    <3>3. i - 1 \in 1 .. Len(prefix) /\ ms[i] = prefix[i - 1]
      BY <2>4, <3>2
    <3> QED BY <3>1, <3>3 DEF reopened
  <2> QED BY <2>8, <2>9, <2>10
<1> QED BY <1>4, <1>5, <1>6

(* The seed adds to what is hidden.                                           *)
LEMMA SeedIs ==
  ASSUME NEW g \in Turns, NEW b \in Boards(g), NEW r, r = applyLegacyPatch(b, LegacyPrefs)
  PROVE  r \in Boards(g) /\ same(b, r)
<1> DEFINE hidden == unique(b.hidden \o LegacyPrefs.hidden)
           x == [b EXCEPT !.manual = LegacyPrefs.manual, !.explicitManual = LegacyPrefs.manual,
                          !.expanded = LegacyPrefs.expanded, !.mode = LegacyPrefs.mode,
                          !.hidden = hidden]
<1>1. r = normalize(x, b.aliases)
  BY DEF applyLegacyPatch
<1>2. b \in Arrangement /\ b.hidden \in Seq(Paths)
  BY BoardIs DEF Arrangement
<1>3. /\ LegacyPrefs.manual \in Seq(Paths) /\ LegacyPrefs.expanded \in Seq(Paths)
      /\ LegacyPrefs.hidden \in Seq(Paths) /\ LegacyPrefs.mode \in Modes \cup {Null}
  BY EditsAssumption
<1>4. hidden \in Seq(Paths) /\ ToSet(b.hidden) \subseteq ToSet(hidden)
  <2> DEFINE l == b.hidden
             k == LegacyPrefs.hidden
  <2>1. l \in Seq(Paths) /\ k \in Seq(Paths) /\ Len(l) \in Nat /\ Len(k) \in Nat
    BY <1>2, <1>3
  <2> HIDE DEF l, k
  <2>2. /\ l \o k \in Seq(Paths) /\ Len(l \o k) = Len(l) + Len(k)
        /\ \A i \in 1 .. Len(l) : (l \o k)[i] = l[i] /\ i \in 1 .. Len(l) + Len(k)
    BY <2>1
  <2>3. DOMAIN l = 1 .. Len(l) /\ DOMAIN (l \o k) = 1 .. Len(l \o k)
    BY <2>1, <2>2
  <2>4. ToSet(l) \subseteq ToSet(l \o k)
    BY <2>2, <2>3 DEF ToSet
  <2> QED BY <2>2, <2>4, UniqueIs DEF l, k
<1> HIDE DEF hidden
<1>5. x \in Arrangement /\ x.hidden = hidden
  BY <1>2, <1>3, <1>4 DEF Arrangement
<1> HIDE DEF x
<1>6. /\ r \in Boards(g) /\ r.aliases = b.aliases
      /\ ToSet(r.hidden) = {hop(b.aliases, y) : y \in ToSet(x.hidden)}
  BY <1>1, <1>5, NormalizedAgain
<1>7. \A y \in ToSet(b.hidden) : hop(b.aliases, y) = y
  BY BoardIs DEF hop
<1>8. ToSet(b.hidden) \subseteq ToSet(r.hidden)
  <2> SUFFICES ASSUME NEW y \in ToSet(b.hidden) PROVE y \in ToSet(r.hidden)
    OBVIOUS
  <2>1. y \in ToSet(x.hidden) /\ y = hop(b.aliases, y)
    BY <1>4, <1>5, <1>7
  <2> QED BY <1>6, <2>1
<1> QED BY <1>6, <1>8 DEF same

(* The coordinator's repair reopens nothing.                                  *)
LEMMA RepairIs ==
  ASSUME NEW g \in Turns, registry.generations = g, NEW b \in Boards(g), NEW r,
         r = applyBoardMutations(b, <<[kind |-> "remap-paths", pairs |-> successions]>>)
  PROVE  r \in Boards(g) /\ \A p \in Paths : isHidden(b, p) => isHidden(r, p)
<1> DEFINE m == [kind |-> "remap-paths", pairs |-> successions]
           ms == <<m>>
           latest == Conversation[g]
           earlier == {Conversation[i] : i \in 1 .. g - 1}
<1>1. successions = [p \in earlier |-> latest] /\ g \in Nat /\ g \in 1 .. g
  BY ConversationIs DEF successions, Turns
<1>2. \A p \in earlier : p \in generations(g) /\ p \in Paths /\ rank[p] < rank[latest]
  <2> SUFFICES ASSUME NEW i \in 1 .. g - 1
               PROVE  /\ Conversation[i] \in generations(g) /\ Conversation[i] \in Paths
                      /\ rank[Conversation[i]] < rank[latest]
    OBVIOUS
  <2>1. i \in 1 .. g /\ i \in Turns /\ i < g
    BY <1>1, ConversationIs DEF Turns
  <2> QED BY <2>1, ConversationIs, GenerationsAre
<1>3. generations(g) \ {latest} \subseteq earlier
  <2> SUFFICES ASSUME NEW i \in 1 .. g, i # g PROVE Conversation[i] \in earlier
    BY DEF generations
  <2> QED BY <1>1
<1>4. latest \in generations(g) /\ latest \in Paths
  BY GenerationsAre
<1> HIDE DEF earlier, latest
<1>5. successions \in Aliases /\ DOMAIN successions = earlier
  BY <1>1, <1>2, <1>4, AliasesAre
<1>6. Fitting(m, g) /\ m.kind = "remap-paths" /\ sourcesOf(m) = earlier
  <2>1. IsMutation(m)
    BY <1>5 DEF IsMutation
  <2>2. mentioned(m) \subseteq generations(g) /\ sourcesOf(m) = earlier
    BY <1>1, <1>2, <1>4, <1>5 DEF mentioned, sourcesOf
  <2>3. \A p \in DOMAIN m.pairs : rank[p] < rank[m.pairs[p]]
    BY <1>1, <1>2
  <2> QED BY <2>1, <2>2, <2>3 DEF Fitting
<1> HIDE DEF m
<1>7. Len(ms) = 1 /\ ms[1] = m /\ \A i \in 1 .. 1 : i = 1
  OBVIOUS
<1>8. r = applyBoardMutations(b, ms)
  BY DEF m
<1> HIDE DEF ms
<1>9. \A i \in 1 .. Len(ms) : Fitting(ms[i], g)
  BY <1>6, <1>7
<1>10. sourcesUpTo(ms, Len(ms)) = earlier /\ ~opensUpTo(ms, Len(ms))
  BY <1>6, <1>7 DEF sourcesUpTo, opensUpTo
<1>11. continues(b, r, g, earlier) /\ staysClosed(b, r, g)
  <2>1. /\ continues(b, r, g, sourcesUpTo(ms, Len(ms)))
        /\ opensUpTo(ms, Len(ms)) \/ staysClosed(b, r, g)
    <3>1. Len(ms) \in Nat
      BY <1>7
    <3> QED BY <1>8, <1>9, <3>1, BatchIs
  <2> QED BY <1>10, <2>1
<1>12. \A p \in Paths : isHidden(b, p) => isHidden(r, p)
  BY <1>3, <1>11, ClosedIs DEF latest
<1> QED BY <1>11, <1>12 DEF continues

---------------------------------------------------------------------------
(* The second invariant: what stores hold and ask for is made of edits that   *)
(* fit the board, which is canonical. It holds of all stores, also of those   *)
(* that may send two requests at once.                                        *)

(* A request carries some of the first n edits of its store.                  *)
Asks(c, n, g, r) ==
  \/ SeedCall(r)
  \/ /\ r = [at |-> "sent", kind |-> "drain", first |-> r.first, prefix |-> r.prefix,
             base |-> r.base]
     /\ r.first \in Nat /\ r.prefix \in Seq(Menu[c])
     /\ Len(r.prefix) \in 1 .. PatchCap /\ r.first + Len(r.prefix) <= n
     /\ \A i \in 1 .. Len(r.prefix) : Fitting(r.prefix[i], g)

Written(c, n, g, r) ==
  r = NoCall \/ Asks(c, n, g, r) \/ (IsAnswer(r) /\ Asks(c, n, g, r.call))

Shaped(c, s, g) ==
  /\ IsStore(s) /\ s.intents \in Seq(Menu[c]) /\ s.done \in 0 .. Len(s.intents)
  /\ s.rejectCap \in 0 .. PatchCap /\ s.conflictStreak \in Nat
  /\ \A i \in 1 .. Len(s.intents) : Fitting(s.intents[i], g)
  /\ \A w \in {1, 2} : Written(c, Len(s.intents), g, s.writes[w])

BoardInv ==
  /\ registry = [generations |-> registry.generations, repaired |-> registry.repaired]
  /\ registry.generations \in Turns /\ registry.repaired \in 1 .. registry.generations
  /\ board.revision \in Nat /\ board.prefs \in Boards(registry.generations)
  /\ faults \in 0 .. MaxFaults
  /\ store = [c \in Stores |-> store[c]]
  /\ \A c \in Stores : Shaped(c, store[c], registry.generations)
  /\ \A t \in taken : t[1] \in Stores /\ t[2] \in 1 .. Len(store[t[1]].intents)

(* More edits and more generations leave a request as good.                   *)
LEMMA FittingGrows ==
  ASSUME NEW g \in Turns, NEW h \in Turns, g <= h, NEW m, Fitting(m, g)
  PROVE  Fitting(m, h)
<1>1. generations(g) \subseteq generations(h)
  BY ConversationIs DEF generations, Turns
<1> QED BY <1>1 DEF Fitting

(* A request stays good as the outbox and the conversation grow,              *)
LEMMA AsksGrows ==
  ASSUME NEW c, NEW n \in Nat, NEW k \in Nat, n <= k, NEW g \in Turns, NEW h \in Turns, g <= h,
         NEW r, Asks(c, n, g, r)
  PROVE  Asks(c, k, h, r)
<1>1. CASE SeedCall(r)
  BY <1>1 DEF Asks
<1>2. CASE ~SeedCall(r)
  <2>1. /\ r = [at |-> "sent", kind |-> "drain", first |-> r.first, prefix |-> r.prefix,
                base |-> r.base]
        /\ r.first \in Nat /\ r.prefix \in Seq(Menu[c])
        /\ Len(r.prefix) \in 1 .. PatchCap /\ r.first + Len(r.prefix) <= n
        /\ \A i \in 1 .. Len(r.prefix) : Fitting(r.prefix[i], g)
    BY <1>2, Zenon DEF Asks
  <2>2. r.first + Len(r.prefix) <= k
    BY <2>1, SyncAssumption
  <2>3. \A i \in 1 .. Len(r.prefix) : Fitting(r.prefix[i], h)
    BY <2>1, FittingGrows
  <2> QED BY <2>1, <2>2, <2>3, Zenon DEF Asks
<1> QED BY <1>1, <1>2

(* so does what is left of it in the store,                                   *)
LEMMA WrittenGrows ==
  ASSUME NEW c, NEW n \in Nat, NEW k \in Nat, n <= k, NEW g \in Turns, NEW h \in Turns, g <= h,
         NEW r, Written(c, n, g, r)
  PROVE  Written(c, k, h, r)
  BY AsksGrows DEF Written

(* and so does the store.                                                     *)
LEMMA ShapedGrows ==
  ASSUME NEW c, NEW s, NEW g \in Turns, NEW h \in Turns, g <= h, Shaped(c, s, g)
  PROVE  Shaped(c, s, h)
<1>1. Len(s.intents) \in Nat /\ Len(s.intents) <= Len(s.intents)
  BY DEF Shaped
<1> QED BY <1>1, FittingGrows, WrittenGrows DEF Shaped

(* What a step may do to a store's variables.                                 *)
LEMMA Reshaped ==
  ASSUME NEW c, NEW s, NEW g, Shaped(c, s, g), NEW s2, IsStore(s2),
         s2.intents = s.intents, s2.done \in 0 .. Len(s.intents),
         s2.rejectCap \in 0 .. PatchCap, s2.conflictStreak \in Nat,
         \A w \in {1, 2} : Written(c, Len(s.intents), g, s2.writes[w])
  PROVE  Shaped(c, s2, g)
  BY DEF Shaped

(* Which variables of a store remain when one of its writes is replaced.      *)
asked(s, w, r) == [s EXCEPT !.writes[w] = r, !.inflight = TRUE]
noted(s, w, r) == [s EXCEPT !.writes[w] = r]
released(s, w) == [s EXCEPT !.writes[w] = NoCall, !.inflight = FALSE]
puts(s, w, r, s2) ==
  s2 = asked(s, w, r) \/ s2 = noted(s, w, r) \/ (r = NoCall /\ s2 = released(s, w))

(* They change no edits.                                                      *)
LEMMA PutFields ==
  ASSUME NEW s, IsStore(s), NEW w \in {1, 2}, NEW r, NEW s2, puts(s, w, r, s2)
  PROVE  /\ IsStore(s2) /\ s2.intents = s.intents /\ s2.done = s.done
         /\ s2.rejectCap = s.rejectCap /\ s2.conflictStreak = s.conflictStreak
         /\ s2.writes[w] = r /\ \A v \in {1, 2} \ {w} : s2.writes[v] = s.writes[v]
<1> DEFINE W == [s.writes EXCEPT ![w] = r]
<1>1. s.writes = [v \in {1, 2} |-> s.writes[v]]
  BY DEF IsStore
<1>2. W = [v \in {1, 2} |-> W[v]] /\ W[w] = r /\ \A v \in {1, 2} \ {w} : W[v] = s.writes[v]
  BY <1>1
<1>3. \/ s2 = [s EXCEPT !.writes = W, !.inflight = TRUE] \/ s2 = [s EXCEPT !.writes = W]
      \/ s2 = [s EXCEPT !.writes = W, !.inflight = FALSE]
  BY DEF puts, asked, noted, released
<1> HIDE DEF W
<1>4. /\ s2.writes = W /\ s2.intents = s.intents /\ s2.done = s.done
      /\ s2.rejectCap = s.rejectCap /\ s2.conflictStreak = s.conflictStreak
      /\ s2 = [f \in Fields |-> s2[f]]
  BY <1>3 DEF IsStore, Fields
<1> QED BY <1>2, <1>4 DEF IsStore

(* They keep the store good if the request is.                                *)
LEMMA PutShape ==
  ASSUME NEW c, NEW s, NEW g, Shaped(c, s, g), NEW w \in {1, 2}, NEW r,
         Written(c, Len(s.intents), g, r), NEW s2,
         puts(s, w, r, s2)
  PROVE  /\ Shaped(c, s2, g) /\ s2.intents = s.intents /\ s2.done = s.done
         /\ s2.rejectCap = s.rejectCap /\ s2.conflictStreak = s.conflictStreak
<1>1. IsStore(s)
  BY DEF Shaped
<1>2. /\ IsStore(s2) /\ s2.intents = s.intents /\ s2.done = s.done
      /\ s2.rejectCap = s.rejectCap /\ s2.conflictStreak = s.conflictStreak
      /\ s2.writes[w] = r /\ \A v \in {1, 2} \ {w} : s2.writes[v] = s.writes[v]
  BY <1>1, PutFields
<1>3. \A v \in {1, 2} : Written(c, Len(s.intents), g, s2.writes[v])
  BY <1>2 DEF Shaped
<1>4. /\ s2.done \in 0 .. Len(s.intents) /\ s2.rejectCap \in 0 .. PatchCap
      /\ s2.conflictStreak \in Nat
  BY <1>2 DEF Shaped
<1> QED BY <1>2, <1>3, <1>4, Reshaped

(* A request sent by drain.                                                   *)
LEMMA DrainShape ==
  ASSUME NEW c \in Stores, NEW s, NEW g \in Turns, Shaped(c, s, g)
  PROVE  Shaped(c, drain(s), g) /\ drain(s).intents = s.intents
<1>1. CASE s.inflight \/ outbox(s) = <<>>
  BY <1>1, DrainSends DEF sending
<1>2. CASE ~(s.inflight \/ outbox(s) = <<>>)
  <2> DEFINE r == [at |-> "sent", kind |-> "drain", first |-> s.done,
                   prefix |-> patchPrefix(s), base |-> s.confirmed.revision]
             w == freeSlot(s)
             prefix == patchPrefix(s)
  <2>1. puts(s, w, r, drain(s))
    BY <1>2, DrainSends DEF sending, puts, asked
  <2>2. /\ s.intents \in Seq(Menu[c]) /\ s.done \in 0 .. Len(s.intents) /\ s.rejectCap \in Nat
        /\ Len(s.intents) \in Nat /\ s.rejectCap <= PatchCap
    BY SyncAssumption DEF Shaped
  <2>3. /\ prefix \in Seq(Menu[c]) /\ Len(prefix) \in 1 .. Len(s.intents) - s.done
        /\ \A i \in 1 .. Len(prefix) : prefix[i] = s.intents[s.done + i]
    BY <1>2, <2>2, PrefixFacts
  <2>4. Len(prefix) <= PatchCap
    <3> DEFINE cap == IF s.rejectCap = 0 THEN PatchCap ELSE s.rejectCap
               rest == outbox(s)
    <3>1. cap \in Nat \ {0} /\ cap <= PatchCap /\ PatchCap \in Nat
      BY <2>2, SyncAssumption
    <3>2. prefix = IF Len(rest) <= cap THEN rest ELSE SubSeq(rest, 1, cap)
      BY DEF patchPrefix
    <3> HIDE DEF cap, rest, prefix
    <3>3. CASE Len(rest) <= cap
      <4>1. prefix = rest /\ Len(prefix) \in Nat
        BY <2>2, <2>3, <3>2, <3>3
      <4> QED BY <3>1, <3>3, <4>1
    <3>4. CASE ~(Len(rest) <= cap)
      <4>1. rest \in Seq(Menu[c])
        <5>1. \A i \in s.done + 1 .. Len(s.intents) : s.intents[i] \in Menu[c]
          BY <2>2
        <5>2. s.done + 1 \in Int /\ Len(s.intents) \in Int
          BY <2>2
        <5>3. SubSeq(s.intents, s.done + 1, Len(s.intents)) \in Seq(Menu[c])
          BY <5>1, <5>2, SubSeqProperties
        <5> QED BY <5>3 DEF rest, outbox
      <4>2. Len(rest) \in Nat /\ \A i \in 1 .. cap : rest[i] \in Menu[c]
        BY <3>1, <3>4, <4>1
      <4>3. Len(SubSeq(rest, 1, cap)) = cap
        BY <3>1, <4>2, SubSeqProperties
      <4> QED BY <3>1, <3>2, <3>4, <4>3
    <3> QED BY <3>3, <3>4
  <2>5. ASSUME NEW i \in 1 .. Len(prefix) PROVE Fitting(prefix[i], g)
    <3>1. s.done + i \in 1 .. Len(s.intents)
      BY <2>2, <2>3
    <3> QED BY <2>3, <3>1 DEF Shaped
  <2>6. r = [at |-> "sent", kind |-> "drain", first |-> r.first, prefix |-> r.prefix, base |-> r.base]
    OBVIOUS
  <2>7. r.first = s.done /\ r.prefix = prefix
    OBVIOUS
  <2> HIDE DEF r, prefix
  <2>8. /\ r.first \in Nat /\ r.prefix \in Seq(Menu[c]) /\ Len(r.prefix) \in 1 .. PatchCap
        /\ r.first + Len(r.prefix) <= Len(s.intents)
    BY <2>2, <2>3, <2>4, <2>7, SyncAssumption
  <2>9. \A i \in 1 .. Len(r.prefix) : Fitting(r.prefix[i], g)
    BY <2>5, <2>7
  <2>10. Written(c, Len(s.intents), g, r)
    BY <2>6, <2>8, <2>9, Zenon DEF Written, Asks
  <2>11. w \in {1, 2}
    BY DEF freeSlot
  <2> HIDE DEF w
  <2> QED BY <2>1, <2>10, <2>11, PutShape
<1> QED BY <1>1, <1>2

(* A step that only concerns one store.                                       *)
LEMMA LocalStep ==
  ASSUME BoardInv, NEW c \in Stores, NEW s2, store' = [store EXCEPT ![c] = s2],
         Shaped(c, s2, registry.generations), Len(store[c].intents) <= Len(s2.intents),
         UNCHANGED <<board, registry, taken>>, faults' \in 0 .. MaxFaults
  PROVE  BoardInv'
<1>1. store' = [d \in Stores |-> store'[d]] /\ \A d \in Stores : store'[d] = IF d = c THEN s2 ELSE store[d]
  BY DEF BoardInv
<1>2. \A d \in Stores : Shaped(d, store'[d], registry.generations)
  BY <1>1 DEF BoardInv
<1>3. \A t \in taken : t[1] \in Stores /\ t[2] \in 1 .. Len(store'[t[1]].intents)
  <2> SUFFICES ASSUME NEW t \in taken, t[1] = c PROVE t[2] \in 1 .. Len(store'[c].intents)
    BY <1>1 DEF BoardInv
  <2>1. t[2] \in 1 .. Len(store[c].intents)
    BY DEF BoardInv
  <2>2. Len(store[c].intents) \in Nat /\ Len(s2.intents) \in Nat
    BY DEF BoardInv, Shaped
  <2> QED BY <1>1, <2>1, <2>2
<1>4. registry' = registry /\ board' = board /\ taken' = taken
  OBVIOUS
<1> QED BY <1>1, <1>2, <1>3, <1>4 DEF BoardInv

(* The handlers, before they drain.                                           *)
LEMMA EditShape ==
  ASSUME NEW c \in Stores, NEW s, NEW g \in Turns, Shaped(c, s, g), NEW m \in Menu[c], Fitting(m, g)
  PROVE  Shaped(c, edited(s, m), g) /\ Len(s.intents) <= Len(edited(s, m).intents)
<1> DEFINE s2 == edited(s, m)
           n == Len(s.intents)
<1>1. IsStore(s) /\ s.intents \in Seq(Menu[c]) /\ n \in Nat
  BY DEF Shaped
<1>2. /\ IsStore(s2) /\ s2.intents = Append(s.intents, m) /\ s2.done = s.done
      /\ s2.rejectCap = s.rejectCap /\ s2.writes = s.writes
  BY <1>1, EditedFields
<1>3. s2.conflictStreak = s.conflictStreak
  BY <1>1 DEF edited, IsStore, Fields
<1> HIDE DEF s2
<1>4. /\ s2.intents \in Seq(Menu[c]) /\ Len(s2.intents) = n + 1
      /\ \A i \in 1 .. n + 1 : s2.intents[i] = IF i = n + 1 THEN m ELSE s.intents[i]
  <2> DEFINE l == s.intents
             M == Menu[c]
  <2>1. l \in Seq(M) /\ m \in M /\ n = Len(l)
    BY <1>1
  <2> HIDE DEF l, M, n
  <2>2. /\ Append(l, m) \in Seq(M) /\ Len(Append(l, m)) = n + 1
        /\ \A i \in 1 .. n + 1 : Append(l, m)[i] = IF i = n + 1 THEN m ELSE l[i]
    BY <2>1
  <2> QED BY <1>2, <2>2 DEF l, M
<1> HIDE DEF n
<1>5. \A i \in 1 .. n + 1 : Fitting(s2.intents[i], g)
  <2> SUFFICES ASSUME NEW i \in 1 .. n + 1, i # n + 1 PROVE Fitting(s.intents[i], g)
    BY <1>4
  <2>1. i \in 1 .. n
    BY <1>1
  <2> QED BY <2>1 DEF Shaped, n
<1>6. \A w \in {1, 2} : Written(c, n + 1, g, s2.writes[w])
  <2>1. n + 1 \in Nat /\ n <= n + 1 /\ g <= g
    BY <1>1, ConversationIs DEF Turns
  <2> QED BY <1>1, <1>2, <2>1, WrittenGrows DEF Shaped, n
<1>7. s2.done \in 0 .. n + 1
  BY <1>1, <1>2 DEF Shaped, n
<1>8. Shaped(c, s2, g)
  BY <1>2, <1>3, <1>4, <1>5, <1>6, <1>7 DEF Shaped
<1>9. n <= Len(s2.intents)
  BY <1>1, <1>4
<1> QED BY <1>8, <1>9 DEF s2, n

(* Those that leave the outbox and the requests alone.                        *)
idles(s, x, s2) ==
  \/ s2 = [s EXCEPT !.retry = FALSE, !.conflictStreak = 0]
  \/ s2 = [s EXCEPT !.load = x]
  \/ s2 = [s EXCEPT !.load = NoCall, !.loaded = TRUE, !.unavailable = TRUE]
  \/ s2 = [s EXCEPT !.load = NoCall, !.loaded = TRUE, !.confirmed = x]
  \/ s2 = [s EXCEPT !.confirmed = x, !.unavailable = FALSE]
  \/ s2 = [s EXCEPT !.confirmed = x]
  \/ s2 = [s EXCEPT !.poll = x]
  \/ s2 = [s EXCEPT !.retry = TRUE]
  \/ s2 = [s EXCEPT !.rejectCap = 0, !.unavailable = TRUE, !.retry = TRUE]
  \/ s2 = [s EXCEPT !.confirmed = x, !.conflictStreak = @ + 1]

(* They keep the store good.                                                  *)
LEMMA IdleShape ==
  ASSUME NEW c, NEW s, NEW g, Shaped(c, s, g), NEW x, NEW s2, idles(s, x, s2)
  PROVE  Shaped(c, s2, g) /\ s2.intents = s.intents
<1>1. /\ IsStore(s) /\ s.done \in 0 .. Len(s.intents) /\ s.rejectCap \in 0 .. PatchCap
      /\ s.conflictStreak \in Nat /\ s.conflictStreak + 1 \in Nat /\ 0 \in 0 .. PatchCap
  BY SyncAssumption DEF Shaped
<1>2. /\ IsStore(s2) /\ s2.intents = s.intents /\ s2.writes = s.writes /\ s2.done = s.done
      /\ s2.rejectCap \in {0, s.rejectCap}
      /\ s2.conflictStreak \in {0, s.conflictStreak, s.conflictStreak + 1}
  BY <1>1 DEF idles, IsStore, Fields
<1>3. \A w \in {1, 2} : Written(c, Len(s.intents), g, s2.writes[w])
  BY <1>2 DEF Shaped
<1> QED BY <1>1, <1>2, <1>3, Reshaped

(* Those that drop edits.                                                     *)
drops(s, b, d, cap, s2) ==
  \/ s2 = [s EXCEPT !.retry = FALSE, !.conflictStreak = 0, !.rejectCap = 0,
                    !.unavailable = FALSE, !.confirmed = b, !.done = d]
  \/ s2 = [s EXCEPT !.retry = FALSE, !.conflictStreak = 0, !.rejectCap = cap, !.done = d]

(* They keep the store good, too.                                             *)
LEMMA DropShape ==
  ASSUME NEW c, NEW s, NEW g, Shaped(c, s, g), NEW b, NEW d \in 0 .. Len(s.intents),
         NEW cap \in 0 .. PatchCap, NEW s2, drops(s, b, d, cap, s2)
  PROVE  Shaped(c, s2, g) /\ s2.intents = s.intents
<1>1. IsStore(s) /\ 0 \in 0 .. PatchCap
  BY SyncAssumption DEF Shaped
<1>2. /\ IsStore(s2) /\ s2.intents = s.intents /\ s2.writes = s.writes /\ s2.done = d
      /\ s2.rejectCap \in {0, cap} /\ s2.conflictStreak = 0
  BY <1>1 DEF drops, IsStore, Fields
<1>3. \A w \in {1, 2} : Written(c, Len(s.intents), g, s2.writes[w])
  BY <1>2 DEF Shaped
<1> QED BY <1>1, <1>2, <1>3, Reshaped

(* A request whose answer has come in is over.                                *)
LEMMA ReleasedShape ==
  ASSUME NEW c, NEW s, NEW g, Shaped(c, s, g), NEW w \in {1, 2}
  PROVE  /\ Shaped(c, released(s, w), g) /\ released(s, w).intents = s.intents
         /\ released(s, w).done = s.done
<1> DEFINE r == NoCall
<1>1. puts(s, w, r, released(s, w)) /\ Written(c, Len(s.intents), g, r)
  BY DEF puts, Written
<1> HIDE DEF r
<1> QED BY <1>1, PutShape

(* The answer put down for a request.                                         *)
replied(call, status, seen) ==
  [at |-> "answered", status |-> status, board |-> seen, call |-> [call EXCEPT !.base = 0]]

(* The answer to a good request is good.                                      *)
LEMMA RepliedShape ==
  ASSUME NEW c, NEW s, NEW g, Shaped(c, s, g), NEW w \in {1, 2}, s.writes[w].at = "sent",
         NEW status, NEW seen
  PROVE  /\ Asks(c, Len(s.intents), g, s.writes[w])
         /\ Shaped(c, noted(s, w, replied(s.writes[w], status, seen)), g)
         /\ noted(s, w, replied(s.writes[w], status, seen)).intents = s.intents
<1> DEFINE call == s.writes[w]
           k == [call EXCEPT !.base = 0]
           n == Len(s.intents)
           r == replied(call, status, seen)
<1>1. Asks(c, n, g, call)
  BY DEF Shaped, Written, NoCall, IsAnswer
<1>2. Asks(c, n, g, k)
  <2> HIDE DEF call, n
  <2>1. CASE SeedCall(call)
    <3>1. SeedCall(k)
      BY <2>1 DEF SeedCall
    <3> QED BY <3>1 DEF Asks
  <2>2. CASE ~SeedCall(call)
    <3>1. /\ call = [at |-> "sent", kind |-> "drain", first |-> call.first,
                     prefix |-> call.prefix, base |-> call.base]
          /\ call.first \in Nat /\ call.prefix \in Seq(Menu[c])
          /\ Len(call.prefix) \in 1 .. PatchCap /\ call.first + Len(call.prefix) <= n
          /\ \A i \in 1 .. Len(call.prefix) : Fitting(call.prefix[i], g)
      BY <1>1, <2>2, Zenon DEF Asks
    <3>2. /\ k = [at |-> "sent", kind |-> "drain", first |-> k.first, prefix |-> k.prefix,
                  base |-> k.base]
          /\ k.first = call.first /\ k.prefix = call.prefix
      BY <3>1
    <3> HIDE DEF k
    <3> QED BY <3>1, <3>2, Zenon DEF Asks
  <2> QED BY <2>1, <2>2
<1>3. IsAnswer(r) /\ r.call = k
  BY DEF replied, IsAnswer
<1> HIDE DEF r, k, n
<1>4. Written(c, n, g, r)
  BY <1>2, <1>3 DEF Written
<1>5. puts(s, w, r, noted(s, w, r))
  BY DEF puts
<1>6. Shaped(c, noted(s, w, r), g) /\ noted(s, w, r).intents = s.intents
  BY <1>4, <1>5, PutShape DEF n
<1> QED BY <1>1, <1>6 DEF r, n

---------------------------------------------------------------------------
(* Each action preserves the second invariant.                                *)

(* What the invariant says of one store.                                      *)
LEMMA StoreIs ==
  ASSUME BoardInv, NEW c \in Stores
  PROVE  /\ registry.generations \in Turns /\ Shaped(c, store[c], registry.generations)
         /\ Len(store[c].intents) \in Nat /\ Len(store[c].intents) <= Len(store[c].intents)
         /\ faults \in 0 .. MaxFaults
  BY DEF BoardInv, Shaped

(* An edit fits the board its tab shows: it is one of the menu's.             *)
LEMMA MutateShapes ==
  ASSUME BoardInv, NEW c \in Stores, NEW m \in Menu[c], Mutate(c, m) PROVE BoardInv'
<1> DEFINE s2 == edited(store[c], m)
           g == registry.generations
<1>1. /\ UNCHANGED <<board, registry, taken>> /\ faults' = faults /\ observed(m)
      /\ store' = [store EXCEPT ![c] = drain(s2)]
  BY DEF Mutate, update, edited
<1>2. g \in Turns /\ Shaped(c, store[c], g)
  BY StoreIs
<1>3. Fitting(m, g)
  BY <1>1, <1>2, MenuFits DEF observed, generations
<1>4. Shaped(c, s2, g) /\ Len(store[c].intents) <= Len(s2.intents)
  BY <1>2, <1>3, EditShape
<1> HIDE DEF s2
<1>5. Shaped(c, drain(s2), g) /\ drain(s2).intents = s2.intents
  BY <1>2, <1>4, DrainShape
<1> QED BY <1>1, <1>4, <1>5, StoreIs, LocalStep

(* The other steps that send and drop nothing.                                *)
LEMMA IdleShapes ==
  ASSUME BoardInv, NEW c \in Stores,
         RetryFires(c) \/ ServeLoad(c) \/ LoadFails(c) \/ Poll(c) \/ PollDelayed(c) \/ Polled(c)
  PROVE  BoardInv'
<1> DEFINE s == store[c]
           g == registry.generations
           alike(s2) == Shaped(c, s2, g) /\ s2.intents = s.intents
<1>1. /\ g \in Turns /\ Shaped(c, s, g) /\ Len(s.intents) <= Len(s.intents)
      /\ faults \in 0 .. MaxFaults
  BY StoreIs
<1>2. UNCHANGED <<board, registry, taken>> /\ faults' \in 0 .. MaxFaults
  BY <1>1, SyncAssumption DEF RetryFires, ServeLoad, LoadFails, Poll, PollDelayed, Polled, fault
<1>3. ASSUME NEW s2, store' = [store EXCEPT ![c] = s2], alike(s2) PROVE BoardInv'
  BY <1>1, <1>2, <1>3, LocalStep
<1>4. CASE RetryFires(c)
  <2> DEFINE r == [s EXCEPT !.retry = FALSE, !.conflictStreak = 0]
  <2>1. store' = [store EXCEPT ![c] = drain(r)]
    BY <1>4 DEF RetryFires, update
  <2>2. idles(s, NoCall, r)
    BY DEF idles
  <2> HIDE DEF r
  <2>3. alike(r)
    BY <1>1, <2>2, IdleShape
  <2>4. alike(drain(r))
    BY <1>1, <2>3, DrainShape
  <2> QED BY <1>3, <2>1, <2>4
<1>5. CASE ServeLoad(c)
  <2> DEFINE l == [at |-> "answered", board |-> board]
             s2 == [s EXCEPT !.load = l]
  <2>1. store' = [store EXCEPT ![c] = s2]
    BY <1>5 DEF ServeLoad, update
  <2>2. idles(s, l, s2)
    BY DEF idles
  <2> HIDE DEF l, s2
  <2>3. alike(s2)
    BY <1>1, <2>2, IdleShape
  <2> QED BY <1>3, <2>1, <2>3
<1>6. CASE LoadFails(c)
  <2> DEFINE s2 == [s EXCEPT !.load = NoCall, !.loaded = TRUE, !.unavailable = TRUE]
  <2>1. store' = [store EXCEPT ![c] = s2]
    BY <1>6 DEF LoadFails, update
  <2>2. idles(s, NoCall, s2)
    BY DEF idles
  <2> HIDE DEF s2
  <2>3. alike(s2)
    BY <1>1, <2>2, IdleShape
  <2> QED BY <1>3, <2>1, <2>3
<1>7. ASSUME NEW t, alike(t), NEW b PROVE alike(adopted(t, b))
  <2>1. adopted(t, b) = t \/ idles(t, b, adopted(t, b))
    BY DEF adopted, idles
  <2> QED BY <1>7, <2>1, IdleShape
<1>8. CASE Poll(c)
  <2>1. store' = [store EXCEPT ![c] = adopted(s, board)]
    BY <1>8 DEF Poll, update
  <2> QED BY <1>1, <1>3, <1>7, <2>1
<1>9. CASE PollDelayed(c)
  <2> DEFINE l == [at |-> "answered", board |-> board]
             s2 == [s EXCEPT !.poll = l]
  <2>1. store' = [store EXCEPT ![c] = s2]
    BY <1>9 DEF PollDelayed, update
  <2>2. idles(s, l, s2)
    BY DEF idles
  <2> HIDE DEF l, s2
  <2>3. alike(s2)
    BY <1>1, <2>2, IdleShape
  <2> QED BY <1>3, <2>1, <2>3
<1>10. CASE Polled(c)
  <2> DEFINE t == [s EXCEPT !.poll = NoCall]
  <2>1. store' = [store EXCEPT ![c] = adopted(t, s.poll.board)]
    BY <1>10 DEF Polled, update
  <2>2. idles(s, NoCall, t)
    BY DEF idles
  <2> HIDE DEF t
  <2>3. alike(t)
    BY <1>1, <2>2, IdleShape
  <2> QED BY <1>3, <1>7, <2>1, <2>3
<1> QED BY <1>4, <1>5, <1>6, <1>8, <1>9, <1>10

(* A load sends the seed of a legacy arrangement, or the outbox.              *)
LEMMA LoadedShapes ==
  ASSUME BoardInv, NEW c \in Stores, Loaded(c) PROVE BoardInv'
<1> DEFINE s == store[c]
           g == registry.generations
<1>1. /\ g \in Turns /\ Shaped(c, s, g) /\ Len(s.intents) <= Len(s.intents)
      /\ faults \in 0 .. MaxFaults
  BY StoreIs
<1>2. UNCHANGED <<board, registry, taken>> /\ faults' = faults
  BY DEF Loaded
<1>3. CASE ~seeds(c)
  <2> DEFINE s2 == [s EXCEPT !.load = NoCall, !.loaded = TRUE, !.confirmed = s.load.board]
  <2>1. store' = [store EXCEPT ![c] = s2]
    BY <1>3 DEF Loaded, update
  <2>2. idles(s, s.load.board, s2)
    BY DEF idles
  <2> HIDE DEF s2
  <2>3. Shaped(c, s2, g) /\ s2.intents = s.intents
    BY <1>1, <2>2, IdleShape
  <2> QED BY <1>1, <1>2, <2>1, <2>3, LocalStep
<1>4. CASE seeds(c)
  <2> DEFINE r == [at |-> "sent", kind |-> "seed", base |-> 0, fallback |-> s.load.board]
             w == freeSlot(s)
             b == [s.load.board EXCEPT !.prefs =
                     [@ EXCEPT !.manual = LegacyPrefs.manual, !.hidden = LegacyPrefs.hidden,
                               !.expanded = LegacyPrefs.expanded, !.mode = LegacyPrefs.mode]]
             t == [s EXCEPT !.load = NoCall, !.loaded = TRUE, !.confirmed = b]
  <2>1. store' = [store EXCEPT ![c] = asked(t, w, r)]
    BY <1>4 DEF Loaded, update, asked
  <2> HIDE DEF b
  <2>2. idles(s, b, t)
    BY DEF idles
  <2>3. w \in {1, 2}
    BY DEF freeSlot
  <2>4. Written(c, Len(t.intents), g, r)
    BY DEF Written, Asks, SeedCall
  <2> HIDE DEF w, r, t
  <2>5. Shaped(c, t, g) /\ t.intents = s.intents
    BY <1>1, <2>2, IdleShape
  <2>6. puts(t, w, r, asked(t, w, r))
    BY DEF puts
  <2>7. Shaped(c, asked(t, w, r), g) /\ asked(t, w, r).intents = t.intents
    BY <2>3, <2>4, <2>5, <2>6, PutShape
  <2> QED BY <1>1, <1>2, <2>1, <2>5, <2>7, LocalStep
<1> QED BY <1>3, <1>4

(* An answer that was awaited.                                                *)
LEMMA AnsweredIs ==
  ASSUME NEW c, NEW s, NEW g, Shaped(c, s, g), NEW w \in {1, 2}, s.writes[w].at = "answered"
  PROVE  /\ Asks(c, Len(s.intents), g, s.writes[w].call)
         /\ s.writes[w].call.kind = "drain" =>
              /\ s.writes[w].call.prefix \in Seq(Menu[c])
              /\ Len(s.writes[w].call.prefix) \in 1 .. PatchCap
<1> DEFINE call == s.writes[w].call
<1>1. Asks(c, Len(s.intents), g, call)
  <2> DEFINE r == s.writes[w]
             n == Len(s.intents)
  <2>1. Written(c, n, g, r) /\ r.at = "answered"
    BY DEF Shaped
  <2> HIDE DEF r, n
  <2>2. Asks(c, n, g, r) => r.at = "sent"
    BY DEF Asks, SeedCall
  <2>3. r # NoCall
    BY <2>1 DEF NoCall
  <2> QED BY <2>1, <2>2, <2>3 DEF Written, r, n
<1>2. SeedCall(call) => call.kind = "seed"
  BY DEF SeedCall
<1> HIDE DEF call
<1>3. call.kind = "drain" => call.prefix \in Seq(Menu[c]) /\ Len(call.prefix) \in 1 .. PatchCap
  BY <1>1, <1>2, Zenon DEF Asks
<1> QED BY <1>1, <1>3 DEF call

(* What drain does once an answer is in leaves a good store.                  *)
LEMMA HandledShapes ==
  ASSUME BoardInv, NEW c \in Stores, NEW s2, Shaped(c, s2, registry.generations),
         s2.intents = store[c].intents, UNCHANGED <<board, registry, taken, faults>>,
         \/ store' = [store EXCEPT ![c] = s2]
         \/ store' = [store EXCEPT ![c] = drain(s2)]
  PROVE  BoardInv'
<1>1. Shaped(c, drain(s2), registry.generations) /\ drain(s2).intents = s2.intents
  BY StoreIs, DrainShape
<1>2. Len(store[c].intents) <= Len(s2.intents) /\ faults' \in 0 .. MaxFaults
  BY StoreIs
<1> QED BY <1>1, <1>2, LocalStep

(* Every answer of the server, taken in.                                      *)
LEMMA AnswerShapes ==
  ASSUME BoardInv, NEW c \in Stores, NEW w \in {1, 2},
         Accepted(c, w) \/ Rejected(c, w) \/ Conflicted(c, w) \/ SkewFound(c, w) \/ Failed(c, w)
           \/ Seeded(c, w)
  PROVE  BoardInv'
<1> DEFINE s == store[c]
           g == registry.generations
           f == released(s, w)
           b == s.writes[w].board
           n == Len(s.writes[w].call.prefix)
           alike(s2) == Shaped(c, s2, g) /\ s2.intents = s.intents
<1>1. g \in Turns /\ Shaped(c, s, g)
  BY StoreIs
<1>2. alike(f) /\ f.done = s.done /\ s.done \in 0 .. Len(s.intents) /\ Len(s.intents) \in Nat
  <2>1. s.done \in 0 .. Len(s.intents) /\ Len(s.intents) \in Nat
    BY <1>1 DEF Shaped
  <2> QED BY <1>1, <2>1, ReleasedShape
<1>3. resumed(c, w) = f
  BY DEF resumed, released
<1>4. UNCHANGED <<board, registry, taken, faults>>
  BY DEF Accepted, Rejected, Conflicted, SkewFound, Failed, Seeded
<1>5. ASSUME NEW s2, alike(s2),
             store' = [store EXCEPT ![c] = s2] \/ store' = [store EXCEPT ![c] = drain(s2)]
      PROVE  BoardInv'
  BY <1>4, <1>5, HandledShapes
<1>6. ASSUME NEW s2, NEW x, idles(f, x, s2) PROVE alike(s2)
  <2> HIDE DEF f
  <2> QED BY <1>2, <1>6, IdleShape
<1>7. ASSUME NEW s2, NEW x, NEW d \in 0 .. Len(s.intents), NEW cap \in 0 .. PatchCap,
             drops(f, x, d, cap, s2)
      PROVE  alike(s2)
  <2> HIDE DEF f
  <2> QED BY <1>2, <1>7, DropShape
<1>8. s.writes[w].at = "answered" /\ s.writes[w].call.kind = "drain" => n \in 1 .. PatchCap
  BY <1>1, AnsweredIs
<1>9. 0 \in 0 .. PatchCap /\ PatchCap \in Nat
  BY SyncAssumption
<1> HIDE DEF f, b, n
<1>10. CASE Accepted(c, w)
  <2> DEFINE d == dropped(s, n)
             s2 == [f EXCEPT !.retry = FALSE, !.conflictStreak = 0, !.rejectCap = 0,
                             !.unavailable = FALSE, !.confirmed = b, !.done = d]
  <2>1. store' = [store EXCEPT ![c] = drain(s2)]
    BY <1>3, <1>10 DEF Accepted, update, sentLength, b, n
  <2>2. n \in 1 .. PatchCap
    BY <1>8, <1>10 DEF Accepted, answered
  <2>3. d \in 0 .. Len(s.intents)
    BY <1>2, <1>9, <2>2 DEF dropped
  <2> HIDE DEF d
  <2>4. drops(f, b, d, 0, s2)
    BY DEF drops
  <2> HIDE DEF s2
  <2>5. alike(s2)
    BY <1>7, <1>9, <2>3, <2>4
  <2> QED BY <1>5, <2>1, <2>5
<1>11. CASE Rejected(c, w)
  <2> DEFINE alone == n = 1
             cap == IF alone THEN 0 ELSE n \div 2
             d == IF alone THEN dropped(s, 1) ELSE f.done
             s2 == [f EXCEPT !.retry = FALSE, !.conflictStreak = 0, !.rejectCap = cap, !.done = d]
  <2>1. store' = [store EXCEPT ![c] = drain(s2)]
    BY <1>3, <1>11 DEF Rejected, update, sentLength, n
  <2>2. n \in 1 .. PatchCap
    BY <1>8, <1>11 DEF Rejected, answered
  <2>3. d \in 0 .. Len(s.intents)
    BY <1>2 DEF dropped
  <2>4. cap \in 0 .. PatchCap
    <3>1. n \div 2 \in 0 .. PatchCap
      BY <1>9, <2>2
    <3> QED BY <1>9, <3>1
  <2> HIDE DEF d, cap
  <2>5. drops(f, b, d, cap, s2)
    BY DEF drops
  <2> HIDE DEF s2
  <2>6. alike(s2)
    BY <1>7, <2>3, <2>4, <2>5
  <2> QED BY <1>5, <2>1, <2>6
<1>12. CASE Conflicted(c, w)
  <2> DEFINE t == [f EXCEPT !.confirmed = b, !.conflictStreak = @ + 1]
             s2 == [t EXCEPT !.retry = TRUE]
  <2>1. store' = [store EXCEPT ![c] = drain(t)] \/ store' = [store EXCEPT ![c] = s2]
    BY <1>3, <1>12 DEF Conflicted, update, b
  <2>2. idles(f, b, t) /\ idles(t, b, s2)
    BY DEF idles
  <2> HIDE DEF t, s2
  <2>3. alike(t)
    BY <1>6, <2>2
  <2>4. alike(s2)
    BY <2>2, <2>3, IdleShape
  <2> QED BY <1>5, <2>1, <2>3, <2>4
<1>13. CASE SkewFound(c, w)
  <2> DEFINE s2 == [f EXCEPT !.rejectCap = 0, !.unavailable = TRUE, !.retry = TRUE]
  <2>1. store' = [store EXCEPT ![c] = s2]
    BY <1>3, <1>13 DEF SkewFound, update
  <2>2. idles(f, b, s2)
    BY DEF idles
  <2> HIDE DEF s2
  <2> QED BY <1>5, <1>6, <2>1, <2>2
<1>14. CASE Failed(c, w)
  <2> DEFINE s2 == [f EXCEPT !.retry = TRUE]
  <2>1. store' = [store EXCEPT ![c] = s2]
    BY <1>3, <1>14 DEF Failed, update
  <2>2. idles(f, b, s2)
    BY DEF idles
  <2> HIDE DEF s2
  <2> QED BY <1>5, <1>6, <2>1, <2>2
<1>15. CASE Seeded(c, w)
  <2>1. PICK x : store' = [store EXCEPT ![c] = drain([f EXCEPT !.confirmed = x])]
    BY <1>3, <1>15 DEF Seeded, update
  <2> DEFINE s2 == [f EXCEPT !.confirmed = x]
  <2>2. idles(f, x, s2)
    BY DEF idles
  <2>3. store' = [store EXCEPT ![c] = drain(s2)]
    BY <2>1
  <2> HIDE DEF s2
  <2> QED BY <1>5, <1>6, <2>2, <2>3
<1> QED BY <1>10, <1>11, <1>12, <1>13, <1>14, <1>15

(* A request answered by the server, or by nobody.                            *)
LEMMA WriteFailsShapes ==
  ASSUME BoardInv, NEW c \in Stores, NEW w \in {1, 2}, WriteFails(c, w) \/ AnswerLost(c, w)
  PROVE  BoardInv'
<1> DEFINE s == store[c]
           g == registry.generations
<1>1. g \in Turns /\ Shaped(c, s, g)
  BY StoreIs
<1>2. UNCHANGED <<board, registry, taken>> /\ faults' \in 0 .. MaxFaults
  BY StoreIs, SyncAssumption DEF WriteFails, AnswerLost, fault
<1>3. Len(s.intents) <= Len(s.intents)
  BY StoreIs
<1>4. CASE WriteFails(c, w)
  <2>1. PICK status \in {"error", "envelope"} : answer(c, w, status, emptyBoard)
    BY <1>4 DEF WriteFails
  <2> DEFINE s2 == noted(s, w, replied(s.writes[w], status, emptyBoard))
  <2>2. store' = [store EXCEPT ![c] = s2]
    BY <2>1 DEF answer, noted, replied
  <2>3. s.writes[w].at = "sent"
    BY <1>4 DEF WriteFails
  <2>4. Shaped(c, s2, g) /\ s2.intents = s.intents
    BY <1>1, <2>3, RepliedShape
  <2> HIDE DEF s2
  <2> QED BY <1>2, <1>3, <2>2, <2>4, LocalStep
<1>5. CASE AnswerLost(c, w)
  <2> DEFINE r == s.writes[w]
             q == [r EXCEPT !.status = "error", !.board = emptyBoard]
             n == Len(s.intents)
  <2>1. store' = [store EXCEPT ![c] = noted(s, w, q)] /\ r.at = "answered"
    <3>1. IsStore(s)
      BY <1>1 DEF Shaped
    <3>2. s.writes = [v \in {1, 2} |-> s.writes[v]]
      BY <3>1 DEF IsStore
    <3> QED BY <1>5, <3>1, <3>2 DEF AnswerLost, update, noted, IsStore, Fields
  <2>2. Asks(c, n, g, r.call)
    BY <1>1, <2>1, AnsweredIs
  <2>3. IsAnswer(r)
    <3>1. Written(c, n, g, r)
      BY <1>1 DEF Shaped
    <3> HIDE DEF r, n
    <3>2. Asks(c, n, g, r) => r.at = "sent"
      BY DEF Asks, SeedCall
    <3>3. r # NoCall
      BY <2>1 DEF NoCall
    <3> QED BY <2>1, <3>1, <3>2, <3>3 DEF Written
  <2> HIDE DEF r, n
  <2>4. IsAnswer(q) /\ q.call = r.call
    BY <2>3 DEF IsAnswer
  <2> HIDE DEF q
  <2>5. Written(c, n, g, q)
    BY <2>2, <2>4 DEF Written
  <2>6. puts(s, w, q, noted(s, w, q))
    BY DEF puts
  <2>7. Shaped(c, noted(s, w, q), g) /\ noted(s, w, q).intents = s.intents
    BY <1>1, <2>5, <2>6, PutShape DEF n
  <2> QED BY <1>2, <1>3, <2>1, <2>7, LocalStep
<1> QED BY <1>4, <1>5

(* What the server makes of a request is canonical and closes what was closed.*)
LEMMA ServeIs ==
  ASSUME BoardInv, NEW c \in Stores, NEW w \in {1, 2}, Serve(c, w)
  PROVE  /\ board'.prefs \in Boards(registry.generations) /\ board'.revision \in Nat
         /\ \E status, seen : answer(c, w, status, seen)
         /\ taken' \subseteq takes(c, store[c].writes[w])
         /\ \A p \in Paths : isHidden(board.prefs, p) /\ ~isHidden(board'.prefs, p) => reopens(c, p)
<1> DEFINE s == store[c]
           g == registry.generations
           call == s.writes[w]
           b == board.prefs
           r == reduced(call)
<1>1. g \in Turns /\ Shaped(c, s, g) /\ b \in Boards(g) /\ board.revision \in Nat
  BY StoreIs DEF BoardInv
<1>2. call.at = "sent"
  BY DEF Serve
<1>3. Asks(c, Len(s.intents), g, call)
  BY <1>1, <1>2, RepliedShape
<1>4. PICK status, seen :
        /\ answer(c, w, status, seen)
        /\ \/ /\ r = b /\ board' = board
           \/ /\ board' = [revision |-> board.revision + 1, prefs |-> r] /\ r # b
           \/ board' = board
        /\ taken' = takes(c, call) \/ taken' = taken
  BY DEF Serve
<1>5. taken' \subseteq takes(c, call)
  BY <1>4 DEF takes
<1>6. r \in Boards(g) /\ \A p \in Paths : isHidden(b, p) /\ ~isHidden(r, p) =>
        call.kind = "drain" /\ call.prefix \in Seq(Menu[c]) /\ reopened(call.prefix, r, p)
  <2> HIDE DEF s, g, b, call
  <2>1. CASE SeedCall(call)
    <3>1. r = applyLegacyPatch(b, LegacyPrefs)
      BY <2>1 DEF SeedCall, reduced, b
    <3> HIDE DEF r
    <3>2. r \in Boards(g) /\ same(b, r)
      BY <1>1, <3>1, SeedIs
    <3> QED BY <3>2 DEF same, isHidden
  <2>2. CASE ~SeedCall(call)
    <3>1. /\ call.prefix \in Seq(Menu[c]) /\ \A i \in 1 .. Len(call.prefix) : Fitting(call.prefix[i], g)
          /\ call.kind = "drain"
      <4>1. /\ call = [at |-> "sent", kind |-> "drain", first |-> call.first,
                       prefix |-> call.prefix, base |-> call.base]
            /\ call.prefix \in Seq(Menu[c])
            /\ \A i \in 1 .. Len(call.prefix) : Fitting(call.prefix[i], g)
        BY <1>3, <2>2, Zenon DEF Asks
      <4> QED BY <4>1
    <3>2. r = applyBoardMutations(b, withAliases(call.prefix))
      BY <3>1 DEF reduced, b
    <3> HIDE DEF r
    <3>3. /\ r \in Boards(g)
          /\ \A p \in Paths : isHidden(b, p) /\ ~isHidden(r, p) => reopened(call.prefix, r, p)
      BY <1>1, <3>1, <3>2, ServedIs DEF g
    <3> QED BY <3>1, <3>3
  <2> QED BY <2>1, <2>2
<1> HIDE DEF r
<1>7. board'.prefs \in Boards(g) /\ board'.revision \in Nat
  BY <1>1, <1>4, <1>6
<1>8. ASSUME NEW p \in Paths, isHidden(b, p), ~isHidden(board'.prefs, p) PROVE reopens(c, p)
  <2>1. board'.prefs = r
    BY <1>4, <1>8
  <2>2. /\ call.kind = "drain" /\ call.prefix \in Seq(Menu[c])
        /\ reopened(call.prefix, board'.prefs, p)
    BY <1>6, <1>8, <2>1
  <2>3. store'[c].writes[w].at = "answered"
    <3>1. IsStore(s) /\ store = [d \in Stores |-> store[d]]
      BY <1>1 DEF Shaped, BoardInv
    <3>2. s.writes = [v \in {1, 2} |-> s.writes[v]] /\ s = [f \in Fields |-> s[f]]
      BY <3>1 DEF IsStore
    <3> DEFINE a == replied(call, status, seen)
    <3>3. store' = [store EXCEPT ![c] = noted(s, w, a)]
      BY <1>4 DEF answer, noted, replied
    <3>4. a.at = "answered"
      BY DEF replied
    <3> HIDE DEF a
    <3>5. noted(s, w, a).writes[w] = a
      <4>1. puts(s, w, a, noted(s, w, a))
        BY DEF puts
      <4> QED BY <3>1, <4>1, PutFields
    <3>6. store'[c] = noted(s, w, a)
      BY <3>1, <3>3
    <3> QED BY <3>4, <3>5, <3>6
  <2>4. \E i \in DOMAIN call.prefix :
          /\ call.prefix[i].kind = "restore"
          /\ resolvePath(call.prefix[i].path, board'.prefs.aliases)
               = resolvePath(p, board'.prefs.aliases)
    BY <2>2 DEF reopened
  <2> QED BY <1>2, <2>2, <2>3, <2>4 DEF reopens
<1> QED BY <1>4, <1>5, <1>7, <1>8

(* A request's edits are among its store's.                                   *)
LEMMA CarriedWithin ==
  ASSUME NEW a \in Nat, NEW l \in Nat, NEW k \in Nat, a + l <= k, NEW n \in a + 1 .. a + l
  PROVE  n \in 1 .. k
  OBVIOUS

(* The server stores what the reducer makes of a good request.                *)
LEMMA ServeShapes ==
  ASSUME BoardInv, NEW c \in Stores, NEW w \in {1, 2}, Serve(c, w) PROVE BoardInv'
<1> DEFINE s == store[c]
           g == registry.generations
           call == s.writes[w]
<1>1. g \in Turns /\ Shaped(c, s, g) /\ Len(s.intents) \in Nat
  BY StoreIs
<1>2. PICK status, seen : answer(c, w, status, seen)
  BY ServeIs
<1>3. call.at = "sent" /\ registry' = registry /\ faults' = faults
  BY DEF Serve
<1> DEFINE s2 == noted(s, w, replied(call, status, seen))
<1>4. store' = [store EXCEPT ![c] = s2]
  BY <1>2 DEF answer, noted, replied
<1>5. Shaped(c, s2, g) /\ s2.intents = s.intents /\ Asks(c, Len(s.intents), g, call)
  <2>1. Asks(c, Len(s.intents), g, call)
    BY <1>1, <1>3, RepliedShape
  <2>2. Shaped(c, s2, g) /\ s2.intents = s.intents
    BY <1>1, <1>3, RepliedShape
  <2> QED BY <2>1, <2>2
<1>6. /\ board'.prefs \in Boards(g) /\ board'.revision \in Nat /\ taken' \subseteq takes(c, call)
  BY ServeIs
<1> HIDE DEF s2
<1>7. /\ store' = [d \in Stores |-> store'[d]]
      /\ \A d \in Stores : store'[d] = IF d = c THEN s2 ELSE store[d]
  BY <1>4 DEF BoardInv
<1>8. \A d \in Stores : Shaped(d, store'[d], g) /\ store'[d].intents = store[d].intents
  BY <1>5, <1>7 DEF BoardInv
<1>9. \A t \in takes(c, call) : t[1] \in Stores /\ t[2] \in 1 .. Len(store[t[1]].intents)
  <2> SUFFICES ASSUME NEW t \in takes(c, call), t \notin taken
               PROVE  t[1] \in Stores /\ t[2] \in 1 .. Len(store[t[1]].intents)
    BY DEF BoardInv
  <2>1. call.kind # "seed"
    BY DEF takes
  <2>2. PICK n \in call.first + 1 .. call.first + Len(call.prefix) : t = <<c, n>>
    BY <2>1 DEF takes
  <2>3. /\ call.first \in Nat /\ Len(call.prefix) \in 1 .. PatchCap
        /\ call.first + Len(call.prefix) <= Len(s.intents)
    <3> HIDE DEF call, s
    <3>1. ~SeedCall(call)
      BY <2>1 DEF SeedCall
    <3> QED BY <1>5, <3>1, Zenon DEF Asks
  <2>4. n \in 1 .. Len(s.intents)
    <3> HIDE DEF call, s
    <3> QED BY <1>1, <2>2, <2>3, CarriedWithin, SyncAssumption
  <2> QED BY <2>2, <2>4
<1>10. \A t \in taken' : t[1] \in Stores /\ t[2] \in 1 .. Len(store'[t[1]].intents)
  BY <1>6, <1>8, <1>9
<1> QED BY <1>3, <1>6, <1>7, <1>8, <1>10 DEF BoardInv

(* A migration adds a generation; what fitted still does.                     *)
LEMMA MigrationShapes ==
  ASSUME BoardInv, MigrationCommits PROVE BoardInv'
<1> DEFINE g == registry.generations
<1>1. /\ registry' = [generations |-> g + 1, repaired |-> registry.repaired]
      /\ g < Len(Conversation) /\ g \in Turns /\ registry.repaired \in 1 .. g
  BY DEF MigrationCommits, BoardInv
<1>2. g + 1 \in Turns /\ g <= g + 1 /\ registry.repaired \in 1 .. g + 1
  BY <1>1, ConversationIs DEF Turns
<1>3. board' = board /\ store' = store /\ taken' = taken /\ faults' = faults
  BY DEF MigrationCommits
<1>4. board.prefs \in Boards(g + 1)
  BY <1>1, <1>2, BoardsGrow DEF BoardInv
<1>5. \A c \in Stores : Shaped(c, store[c], g + 1)
  BY <1>1, <1>2, ShapedGrows DEF BoardInv
<1> QED BY <1>1, <1>2, <1>3, <1>4, <1>5 DEF BoardInv

(* The repair of the board keeps it canonical and what is closed closed.      *)
LEMMA RepairedIs ==
  ASSUME BoardInv, RepairBoard
  PROVE  /\ board'.prefs \in Boards(registry.generations) /\ board'.revision \in Nat
         /\ \A p \in Paths : isHidden(board.prefs, p) => isHidden(board'.prefs, p)
<1> DEFINE g == registry.generations
           b == board.prefs
           r == applyBoardMutations(b, <<[kind |-> "remap-paths", pairs |-> successions]>>)
<1>1. g \in Turns /\ b \in Boards(g) /\ board.revision \in Nat
  BY DEF BoardInv
<1>2. board' = board \/ board' = [revision |-> board.revision + 1, prefs |-> r]
  BY DEF RepairBoard, repairedBoard
<1>3. r \in Boards(g) /\ \A p \in Paths : isHidden(b, p) => isHidden(r, p)
  <2> HIDE DEF b
  <2> QED BY <1>1, RepairIs
<1> HIDE DEF r
<1> QED BY <1>1, <1>2, <1>3

(* So it preserves the invariant.                                             *)
LEMMA RepairShapes ==
  ASSUME BoardInv, RepairBoard PROVE BoardInv'
<1> DEFINE g == registry.generations
<1>1. registry' = [generations |-> g, repaired |-> g] /\ g \in Turns
  BY DEF RepairBoard, BoardInv
<1>2. g \in 1 .. g
  BY <1>1, ConversationIs DEF Turns
<1>3. store' = store /\ taken' = taken /\ faults' = faults
  BY DEF RepairBoard
<1> QED BY <1>1, <1>2, <1>3, RepairedIs DEF BoardInv

(* The second invariant holds at first,                                       *)
LEMMA EmptyBoardIs == ASSUME NEW g \in Turns PROVE emptyArrangement \in Boards(g)
<1> DEFINE b == emptyArrangement
<1>1. DOMAIN <<>> = {} /\ <<>> \in Seq(Paths)
  OBVIOUS
<1>2. <<>> \in Aliases
  <2>1. <<>> \in [{} -> Paths]
    BY <1>1
  <2> QED BY <2>1 DEF Aliases
<1>3. /\ b.aliases = <<>> /\ b.manual = <<>> /\ b.explicitManual = <<>> /\ b.hidden = <<>>
      /\ b.expanded = <<>> /\ b \in Arrangement
  BY <1>1, <1>2 DEF emptyArrangement, Arrangement
<1> HIDE DEF b
<1>4. ToSet(<<>>) = {}
  BY <1>1 DEF ToSet
<1>5. IsNormal(b)
  BY <1>1, <1>3, <1>4 DEF IsNormal
<1>6. follows(b.aliases, g)
  BY <1>1, <1>3 DEF follows
<1> QED BY <1>3, <1>5, <1>6 DEF Boards, b

(* so does a new store's part of it,                                          *)
LEMMA NewStoreShaped == ASSUME NEW c \in Stores, NEW g PROVE Shaped(c, newStore(c), g)
<1> DEFINE s == newStore(c)
<1>1. /\ s = [f \in Fields |-> s[f]] /\ s.intents = <<>> /\ s.done = 0 /\ s.rejectCap = 0
      /\ s.conflictStreak = 0 /\ s.writes = [w \in {1, 2} |-> NoCall]
  BY DEF newStore, Fields
<1> HIDE DEF s
<1>2. IsStore(s) /\ \A w \in {1, 2} : s.writes[w] = NoCall
  BY <1>1 DEF IsStore
<1>3. <<>> \in Seq(Menu[c]) /\ Len(<<>>) = 0 /\ 0 \in 0 .. PatchCap /\ 0 \in 0 .. 0 /\ 1 .. 0 = {}
  BY SyncAssumption
<1>4. \A w \in {1, 2} : Written(c, Len(s.intents), g, s.writes[w])
  BY <1>2 DEF Written
<1>5. /\ s.intents \in Seq(Menu[c]) /\ s.done \in 0 .. Len(s.intents) /\ 1 .. Len(s.intents) = {}
      /\ s.rejectCap \in 0 .. PatchCap /\ s.conflictStreak \in Nat
  <2>1. Len(s.intents) = 0 /\ s.intents \in Seq(Menu[c])
    BY <1>1, <1>3
  <2>2. /\ s.done = 0 /\ s.rejectCap = 0 /\ s.conflictStreak = 0 /\ 0 \in 0 .. PatchCap
        /\ 0 \in Nat /\ 0 \in 0 .. 0 /\ 1 .. 0 = {}
    BY <1>1, SyncAssumption
  <2> HIDE DEF s
  <2> QED BY <2>1, <2>2, Zenon
<1>6. Shaped(c, s, g)
  BY <1>2, <1>4, <1>5, Zenon DEF Shaped
<1> QED BY <1>6 DEF s

(* so does all of it,                                                         *)
LEMMA InitShaped == ASSUME Init PROVE BoardInv
<1>1. registry = [generations |-> 1, repaired |-> 1] /\ 1 \in Turns /\ 1 \in 1 .. 1
  BY ConversationIs DEF Init, Turns
<1>2. board.revision \in Nat /\ board.prefs \in Boards(1)
  BY <1>1, EmptyBoardIs DEF Init, emptyBoard
<1>3. store = [c \in Stores |-> newStore(c)] /\ taken = {} /\ faults = 0 /\ 0 \in 0 .. MaxFaults
  BY SyncAssumption DEF Init
<1>4. \A c \in Stores : Shaped(c, store[c], 1)
  BY <1>3, NewStoreShaped
<1> QED BY <1>1, <1>2, <1>3, <1>4 DEF BoardInv

(* and is preserved by every step.                                            *)
LEMMA StepShapes == ASSUME BoardInv, [Next]_vars PROVE BoardInv'
<1>1. ASSUME NEW c \in Stores,
             \/ \E m \in Menu[c] : Mutate(c, m)
             \/ RetryFires(c) \/ ServerStep(c) \/ WriteAnswered(c)
             \/ Loaded(c) \/ Poll(c) \/ Polled(c) \/ Fault(c)
      PROVE  BoardInv'
  <2>1. CASE \E m \in Menu[c] : Mutate(c, m)
    BY <2>1, MutateShapes
  <2>2. CASE RetryFires(c) \/ Poll(c) \/ Polled(c)
    BY <2>2, IdleShapes
  <2>3. CASE ServerStep(c)
    BY <2>3, IdleShapes, ServeShapes DEF ServerStep
  <2>4. CASE WriteAnswered(c)
    BY <2>4, AnswerShapes DEF WriteAnswered
  <2>5. CASE Loaded(c)
    BY <2>5, LoadedShapes
  <2>6. CASE Fault(c)
    BY <2>6, WriteFailsShapes, IdleShapes DEF Fault
  <2> QED BY <1>1, <2>1, <2>2, <2>3, <2>4, <2>5, <2>6
<1>2. CASE MigrationCommits
  BY <1>2, MigrationShapes
<1>3. CASE RepairBoard
  BY <1>3, RepairShapes
<1>4. CASE UNCHANGED vars
  BY <1>4 DEF vars, BoardInv
<1> QED BY <1>1, <1>2, <1>3, <1>4 DEF Next

(* The invariant implies the type invariant.                                  *)
LEMMA ShapedGivesTypes == ASSUME BoardInv PROVE TypeOK
<1>1. IsNormal(board.prefs) /\ registry.generations \in 1 .. Len(Conversation)
  BY DEF BoardInv, Boards, Turns
<1> QED BY <1>1 DEF BoardInv, Shaped, TypeOK

(* A path is only shown again by a step that serves a request to reopen it.   *)
LEMMA ShapedGivesCloses ==
  ASSUME BoardInv, [Next]_vars, NEW p \in Paths, isHidden(board.prefs, p), ~isHidden(board'.prefs, p)
  PROVE  \E c \in Stores : reopens(c, p)
<1>1. board' # board
  OBVIOUS
<1>2. CASE RepairBoard
  BY <1>2, RepairedIs
<1>3. CASE \E c \in Stores : \E w \in {1, 2} : Serve(c, w)
  BY <1>3, ServeIs
<1>4. CASE UNCHANGED board
  BY <1>1, <1>4
<1>5. ASSUME NEW c \in Stores, NEW m, Mutate(c, m) PROVE UNCHANGED board
  BY <1>5 DEF Mutate
<1>6. ASSUME NEW c \in Stores, WriteAnswered(c) PROVE UNCHANGED board
  BY <1>6 DEF WriteAnswered, Accepted, Rejected, Conflicted, SkewFound, Failed, Seeded
<1>7. ASSUME NEW c \in Stores, Fault(c) PROVE UNCHANGED board
  BY <1>7 DEF Fault, WriteFails, AnswerLost, LoadFails, PollDelayed
<1>8. ASSUME NEW c \in Stores, RetryFires(c) \/ ServeLoad(c) \/ Loaded(c) \/ Poll(c) \/ Polled(c)
      PROVE  UNCHANGED board
  BY <1>8 DEF RetryFires, ServeLoad, Loaded, Poll, Polled
<1>9. MigrationCommits \/ UNCHANGED vars => UNCHANGED board
  BY DEF MigrationCommits, vars
<1> QED BY <1>2, <1>3, <1>4, <1>5, <1>6, <1>7, <1>8, <1>9 DEF Next, ServerStep

(* The board is always canonical, whatever lists, renames and stale replays   *)
(* the reducer was given (lib/board/mutations.ts), and a store never counts   *)
(* or names edits that were not made.                                         *)
THEOREM BoardIsCanonical == Spec => []TypeOK
<1>1. Init => BoardInv
  BY InitShaped
<1>2. BoardInv /\ [Next]_vars => BoardInv'
  BY StepShapes
<1>3. BoardInv => TypeOK
  BY ShapedGivesTypes
<1> QED BY <1>1, <1>2, <1>3, PTL DEF Spec

(* A closed conversation stays closed under every name it ever had, through   *)
(* seeds, reconciled roots, renames and their replays, until the server is    *)
(* asked to reopen it.                                                        *)
THEOREM ClosedStaysClosed == Spec => CloseSurvives
<1>1. Init => BoardInv
  BY InitShaped
<1>2. BoardInv /\ [Next]_vars => BoardInv'
  BY StepShapes
<1>3. BoardInv /\ [Next]_vars =>
        \A p \in Paths : isHidden(board.prefs, p) /\ ~isHidden(board'.prefs, p) =>
          \E c \in Stores : reopens(c, p)
  BY ShapedGivesCloses
<1> QED BY <1>1, <1>2, <1>3, PTL DEF Spec, CloseSurvives
=============================================================================
