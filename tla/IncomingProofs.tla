---------------------------- MODULE IncomingProofs ----------------------------
(***************************************************************************)
(* TLAPS proof that the client's dispatch of incoming transfers            *)
(* (IncomingMessages) never loses, duplicates or double-delivers one.      *)
(***************************************************************************)
EXTENDS IncomingMessages, FiniteSetTheorems, SequenceTheorems, WellFoundedInduction, TLAPS

\* The types the proof needs (TypeOK without the counters of available()).
TypeI ==
  /\ sent \subseteq Msgs
  /\ incoming \in Seq(Msgs)
  /\ received \in Seq(Msgs)
  /\ lockOwner \in Threads \cup {NoThread}
  /\ pc \in [Threads -> Pcs]
  /\ call \in [Threads -> Calls]
  /\ hand \in [Threads -> Msgs \cup {NoMsg}]
  /\ fetched \in [Msgs -> BOOLEAN]
  /\ discarded \subseteq Msgs

\* The five places a sent transfer can be in.
InIncoming == Range(incoming)
InReceived == Range(received)
InHand == {hand[t] : t \in Threads} \ {NoMsg}
Fetched == {m \in Msgs : fetched[m]}

\* Five sets that split U: together they are U, and no two share an element.
Part(A, B, C, D, E, U) ==
  /\ A \cup B \cup C \cup D \cup E = U
  /\ A \cap B = {} /\ A \cap C = {} /\ A \cap D = {} /\ A \cap E = {}
  /\ B \cap C = {} /\ B \cap D = {} /\ B \cap E = {}
  /\ C \cap D = {} /\ C \cap E = {}
  /\ D \cap E = {}

\* The strengthening of MessageConserved: the queue and the received list
\* hold each transfer at most once, no two threads hold the same one, a
\* thread holds one exactly between its pop and placing it, and the five
\* places split what was sent.
ConsInv ==
  /\ TypeI
  /\ IsInjective(incoming)
  /\ IsInjective(received)
  /\ \A t, u \in Threads : hand[t] = hand[u] /\ hand[t] # NoMsg => t = u
  /\ \A t \in Threads : (hand[t] # NoMsg) = (pc[t] = "popped")
  /\ Part(InIncoming, InReceived, InHand, Fetched, discarded, sent)



\* The transfers taken off the lists: returned by a fetch or discarded.
Taken == Fetched \cup discarded

\* The strengthening of NoDoubleSettle: the tracker and the broker only
\* ever hear of taken transfers, and each is tracked, accepted or released,
\* at most one of the three.
SettleInv ==
  /\ pendingAccept \cup acceptedIds \cup releasedIds \subseteq Taken
  /\ pendingAccept \cap acceptedIds = {}
  /\ pendingAccept \cap releasedIds = {}
  /\ acceptedIds \cap releasedIds = {}

-----------------------------------------------------------------------------
(* Lemmas about the sequence and set operators the model uses.             *)

\* A non-empty set of naturals has a least element (from the
\* well-foundedness of < on Nat).
LEMMA NatMin ==
  ASSUME NEW T \in SUBSET Nat, T # {} PROVE \E x \in T : \A y \in T : x <= y
<1>1. \E x \in T : \A y \in T : ~(<<y, x>> \in OpToRel(<, Nat))
  BY NatLessThanWellFounded, WFMin, Zenon
<1>2. PICK x \in T : \A y \in T : ~(<<y, x>> \in OpToRel(<, Nat))
  BY <1>1
<1>3. \A y \in T : ~(y < x)
  BY <1>2 DEF OpToRel
<1> QED BY <1>3

\* Appending an element that is not yet in an injective sequence.
LEMMA AppendFacts ==
  ASSUME NEW S, NEW s \in Seq(S), NEW x \in S, IsInjective(s), x \notin Range(s)
  PROVE  /\ Append(s, x) \in Seq(S)
         /\ IsInjective(Append(s, x))
         /\ Range(Append(s, x)) = Range(s) \cup {x}
<1>1. /\ Append(s, x) \in Seq(S)
      /\ Len(Append(s, x)) = Len(s) + 1
      /\ \A i \in 1..Len(s) : Append(s, x)[i] = s[i]
      /\ Append(s, x)[Len(s) + 1] = x
  BY AppendProperties
<1>2. IsInjective(Append(s, x))
  BY <1>1 DEF IsInjective, Range
<1>3. Range(Append(s, x)) = Range(s) \cup {x}
  <2>1. DOMAIN Append(s, x) = 1..Len(s) + 1 /\ DOMAIN s = 1..Len(s)
    BY <1>1
  <2> QED BY <1>1, <2>1 DEF Range
<1> QED BY <1>1, <1>2, <1>3

\* Taking the head off an injective sequence.
LEMMA TailFacts ==
  ASSUME NEW S, NEW s \in Seq(S), s # << >>, IsInjective(s)
  PROVE  /\ Tail(s) \in Seq(S)
         /\ IsInjective(Tail(s))
         /\ Head(s) \in Range(s)
         /\ Range(Tail(s)) = Range(s) \ {Head(s)}
<1>0. /\ Tail(s) \in Seq(S)
      /\ Len(Tail(s)) = Len(s) - 1
      /\ \A i \in 1..Len(Tail(s)) : Tail(s)[i] = s[i + 1]
      /\ Head(s) = s[1]
      /\ DOMAIN Tail(s) = 1..Len(s) - 1 /\ DOMAIN s = 1..Len(s) /\ Len(s) >= 1
  BY HeadTailProperties, EmptySeq
<1>1. Tail(s) \in Seq(S) /\ Head(s) \in Range(s)
  BY <1>0 DEF Range
<1>2. IsInjective(Tail(s))
  BY <1>0 DEF IsInjective
<1>3. Range(Tail(s)) = Range(s) \ {Head(s)}
  <2>1. Range(Tail(s)) \subseteq Range(s) \ {Head(s)}
    BY <1>0 DEF IsInjective, Range
  <2>2. Range(s) \ {Head(s)} \subseteq Range(Tail(s))
    <3> SUFFICES ASSUME NEW j \in 1..Len(s), j # 1 PROVE s[j] \in Range(Tail(s))
      BY <1>0 DEF Range
    <3>1. j - 1 \in 1..Len(Tail(s)) /\ Tail(s)[j - 1] = s[j]
      BY <1>0
    <3> QED BY <3>1, <1>0 DEF Range
  <2> QED BY <2>1, <2>2
<1> QED BY <1>1, <1>2, <1>3

\* Erasing the element at position i of an injective sequence.
LEMMA RemoveAtFacts ==
  ASSUME NEW S, NEW s \in Seq(S), NEW i \in 1..Len(s), IsInjective(s)
  PROVE  /\ RemoveAt(s, i) \in Seq(S)
         /\ IsInjective(RemoveAt(s, i))
         /\ Range(RemoveAt(s, i)) = Range(s) \ {s[i]}
<1>. DEFINE r == RemoveAt(s, i)
<1>1. /\ r \in Seq(S)
      /\ Len(r) = Len(s) - 1
      /\ \A j \in 1..Len(s) - 1 : r[j] = IF j < i THEN s[j] ELSE s[j + 1]
  <2>. DEFINE a == SubSeq(s, 1, i - 1)
               b == SubSeq(s, i + 1, Len(s))
  <2>1. /\ a \in Seq(S) /\ Len(a) = i - 1
        /\ \A j \in 1..i - 1 : a[j] = s[j]
    BY SubSeqProperties
  <2>2. /\ b \in Seq(S) /\ Len(b) = Len(s) - i
        /\ \A j \in 1..Len(s) - i : b[j] = s[i + j]
    BY SubSeqProperties
  <2>3. /\ a \o b \in Seq(S) /\ Len(a \o b) = Len(a) + Len(b)
        /\ \A j \in 1..Len(a) + Len(b) : (a \o b)[j] = IF j <= Len(a) THEN a[j] ELSE b[j - Len(a)]
    <3>1. a \in Seq(S) /\ b \in Seq(S)
      BY <2>1, <2>2
    <3> QED BY <3>1, ConcatProperties
  <2>4. r = a \o b
    BY DEF RemoveAt
  <2>5. r \in Seq(S) /\ Len(r) = Len(a) + Len(b)
    BY <2>3, <2>4, Zenon
  <2>8. Len(a) = i - 1 /\ Len(b) = Len(s) - i /\ Len(s) \in Nat
    BY <2>1, <2>2
  <2>7. Len(a) + Len(b) = Len(s) - 1
    <3>1. \A x, y : x = i - 1 /\ y = Len(s) - i => x + y = Len(s) - 1
      BY <2>8
    <3> QED BY <3>1, <2>8, Zenon
  <2>6. ASSUME NEW j \in 1..Len(s) - 1 PROVE r[j] = IF j < i THEN s[j] ELSE s[j + 1]
    <3>1. j \in 1..Len(a) + Len(b)
      BY <2>1, <2>2
    <3>2. CASE j < i
      BY <3>1, <3>2, <2>1, <2>3, <2>4
    <3>3. CASE j >= i
      <4>1. j - Len(a) \in 1..Len(s) - i /\ i + (j - Len(a)) = j + 1
        BY <3>3, <2>1
      <4> QED BY <3>1, <3>3, <4>1, <2>1, <2>2, <2>3, <2>4
    <3> QED BY <3>2, <3>3
  <2> QED BY <2>5, <2>6, <2>7
<1>2. IsInjective(r)
  BY <1>1 DEF IsInjective
<1>3. Range(r) = Range(s) \ {s[i]}
  <2>1. Range(r) \subseteq Range(s) \ {s[i]}
    BY <1>1 DEF IsInjective, Range
  <2>2. Range(s) \ {s[i]} \subseteq Range(r)
    <3> SUFFICES ASSUME NEW j \in 1..Len(s), j # i PROVE s[j] \in Range(r)
      BY DEF Range, IsInjective
    <3>1. CASE j < i
      BY <1>1, <3>1 DEF Range
    <3>2. CASE j > i
      <4>1. j - 1 \in 1..Len(s) - 1 /\ r[j - 1] = s[j]
        BY <1>1, <3>2
      <4> QED BY <4>1, <1>1 DEF Range
    <3> QED BY <3>1, <3>2
  <2> QED BY <2>1, <2>2
<1> QED BY <1>1, <1>2, <1>3

\* An injective sequence holds m at one position if m is in its range, at
\* none otherwise.
LEMMA IndexCount ==
  ASSUME NEW S, NEW s \in Seq(S), IsInjective(s), NEW m
  PROVE  Cardinality({i \in DOMAIN s : s[i] = m}) = IF m \in Range(s) THEN 1 ELSE 0
<1>1. CASE m \in Range(s)
  <2>1. PICK j \in DOMAIN s : s[j] = m
    BY <1>1 DEF Range
  <2>2. {i \in DOMAIN s : s[i] = m} = {j}
    BY <2>1 DEF IsInjective
  <2> QED BY <1>1, <2>2, FS_Singleton
<1>2. CASE m \notin Range(s)
  <2>1. {i \in DOMAIN s : s[i] = m} = {}
    BY <1>2 DEF Range
  <2> QED BY <1>2, <2>1, FS_EmptySet
<1> QED BY <1>1, <1>2

\* The moves of a transfer between places that the actions make keep the
\* split: one element from one place to another, the whole received list
\* to the discarded set, and a new element into the first place.
LEMMA PartMoves ==
  ASSUME NEW A, NEW B, NEW C, NEW D, NEW E, NEW U, Part(A, B, C, D, E, U), NEW x
  PROVE  /\ x \in A => Part(A \ {x}, B \cup {x}, C, D, E, U)
         /\ x \in A => Part(A \ {x}, B, C \cup {x}, D, E, U)
         /\ x \in C => Part(A, B, C \ {x}, D \cup {x}, E, U)
         /\ x \in C => Part(A, B, C \ {x}, D, E \cup {x}, U)
         /\ x \in C => Part(A, B \cup {x}, C \ {x}, D, E, U)
         /\ x \in B => Part(A, B \ {x}, C, D \cup {x}, E, U)
         /\ x \in B => Part(A, B \ {x}, C, D, E \cup {x}, U)
         /\ Part(A, {}, C, D, E \cup B, U)
         /\ x \notin U => Part(A \cup {x}, B, C, D, E, U \cup {x})
BY DEF Part

\* The first index of received whose transfer the call's handler accepts.
LEMMA FirstAcceptedFacts ==
  ASSUME received \in Seq(Msgs), NEW c
  PROVE  /\ FirstAccepted(c) = 0 <=> \A j \in 1..Len(received) : ~Accepts(c, received[j])
         /\ FirstAccepted(c) # 0 =>
              /\ FirstAccepted(c) \in 1..Len(received)
              /\ Accepts(c, received[FirstAccepted(c)])
<1>. DEFINE I == {j \in 1..Len(received) : Accepts(c, received[j])}
<1>1. FirstAccepted(c) = IF I # {} THEN Min(I) ELSE 0
  BY DEF FirstAccepted, SelectInSeq
<1>2. I # {} => Min(I) \in I
  <2>1. I \in SUBSET Nat
    OBVIOUS
  <2> QED BY <2>1, NatMin DEF Min
<1> QED BY <1>1, <1>2

\* The first index of received whose transfer is for destination d.
LEMMA NextMatchFacts ==
  ASSUME received \in Seq(Msgs), NEW d
  PROVE  NextMatch(d) # 0 =>
           /\ NextMatch(d) \in 1..Len(received)
           /\ MatchAndTrack(d, received[NextMatch(d)])
<1>. DEFINE I == {j \in 1..Len(received) : MatchAndTrack(d, received[j])}
<1>1. NextMatch(d) = IF I # {} THEN Min(I) ELSE 0
  BY DEF NextMatch, SelectInSeq
<1>2. I # {} => Min(I) \in I
  <2>1. I \in SUBSET Nat
    OBVIOUS
  <2> QED BY <2>1, NatMin DEF Min
<1> QED BY <1>1, <1>2

\* No two threads hold the same transfer, so m is in one hand or in none.
LEMMA HandCount ==
  ASSUME hand \in [Threads -> Msgs \cup {NoMsg}],
         \A t, u \in Threads : hand[t] = hand[u] /\ hand[t] # NoMsg => t = u,
         NEW m \in Msgs
  PROVE  Cardinality({t \in Threads : hand[t] = m}) = IF m \in InHand THEN 1 ELSE 0
<1>1. m # NoMsg
  BY IncomingAssumption
<1>2. CASE m \in InHand
  <2>1. PICK t \in Threads : hand[t] = m
    BY <1>2 DEF InHand
  <2>2. {u \in Threads : hand[u] = m} = {t}
    BY <2>1, <1>1
  <2> QED BY <1>2, <2>2, FS_Singleton
<1>3. CASE m \notin InHand
  <2>1. {u \in Threads : hand[u] = m} = {}
    BY <1>3, <1>1 DEF InHand
  <2> QED BY <1>3, <2>1, FS_EmptySet
<1> QED BY <1>2, <1>3

\* ConsInv gives every sent transfer exactly one place.
LEMMA ConsConserved == ConsInv => MessageConserved
<1> SUFFICES ASSUME ConsInv, NEW m \in sent PROVE Places(m) = 1
  BY DEF MessageConserved
<1>1. m \in Msgs /\ incoming \in Seq(Msgs) /\ received \in Seq(Msgs)
  BY DEF ConsInv, TypeI
<1>2. /\ Cardinality({i \in DOMAIN incoming : incoming[i] = m}) = IF m \in InIncoming THEN 1 ELSE 0
      /\ Cardinality({i \in DOMAIN received : received[i] = m}) = IF m \in InReceived THEN 1 ELSE 0
      /\ Cardinality({t \in Threads : hand[t] = m}) = IF m \in InHand THEN 1 ELSE 0
  BY <1>1, IndexCount, HandCount DEF ConsInv, TypeI, InIncoming, InReceived
<1>3. fetched[m] <=> m \in Fetched
  BY <1>1 DEF Fetched
<1>4. Part(InIncoming, InReceived, InHand, Fetched, discarded, sent)
  BY Zenon DEF ConsInv
<1>5. /\ m \in InIncoming \/ m \in InReceived \/ m \in InHand \/ m \in Fetched \/ m \in discarded
      /\ m \in InIncoming => m \notin InReceived /\ m \notin InHand /\ m \notin Fetched /\ m \notin discarded
      /\ m \in InReceived => m \notin InHand /\ m \notin Fetched /\ m \notin discarded
      /\ m \in InHand => m \notin Fetched /\ m \notin discarded
      /\ m \in Fetched => m \notin discarded
  BY <1>4 DEF Part
<1>6. /\ (IF fetched[m] THEN 1 ELSE 0) = IF m \in Fetched THEN 1 ELSE 0
      /\ (IF m \in discarded THEN 1 ELSE 0) = IF m \in discarded THEN 1 ELSE 0
  BY <1>3
<1> QED BY <1>2, <1>5, <1>6 DEF Places

-----------------------------------------------------------------------------
(* ConsInv is inductive.                                                    *)

LEMMA ConsInit == Init => ConsInv
<1> SUFFICES ASSUME Init PROVE ConsInv
  OBVIOUS
<1>1. TypeI
  BY IncomingAssumption DEF Init, TypeI, Pcs, Calls, NoCall
<1>2. InIncoming = {} /\ InReceived = {} /\ InHand = {} /\ Fetched = {}
  BY DEF Init, InIncoming, InReceived, InHand, Fetched, Range
<1>3. IsInjective(incoming) /\ IsInjective(received)
  BY DEF Init, IsInjective
<1> QED BY <1>1, <1>2, <1>3 DEF Init, ConsInv, Part

\* A step that moves no transfer: only the threads' positions, calls, the
\* lock and the counters change, and no thread starts or stops holding one.
LEMMA ConsFrame ==
  ASSUME ConsInv, UNCHANGED <<sent, incoming, received, hand, fetched, discarded>>,
         pc' \in [Threads -> Pcs], call' \in [Threads -> Calls],
         lockOwner' \in Threads \cup {NoThread},
         \A u \in Threads : (pc'[u] = "popped") = (pc[u] = "popped")
  PROVE  ConsInv'
<1>1. TypeI'
  BY DEF ConsInv, TypeI
<1>2. InIncoming' = InIncoming /\ InReceived' = InReceived /\ InHand' = InHand
      /\ Fetched' = Fetched
  BY DEF InIncoming, InReceived, InHand, Fetched
<1> QED BY <1>1, <1>2 DEF ConsInv

\* A thread with an empty hand takes transfer x.
LEMMA HandPut ==
  ASSUME hand \in [Threads -> Msgs \cup {NoMsg}], NEW t \in Threads, hand[t] = NoMsg,
         NEW x \in Msgs, hand' = [hand EXCEPT ![t] = x]
  PROVE  InHand' = InHand \cup {x}
BY IncomingAssumption DEF InHand

\* A thread places the transfer it holds.
LEMMA HandTake ==
  ASSUME hand \in [Threads -> Msgs \cup {NoMsg}], NEW t \in Threads, hand[t] # NoMsg,
         \A u, v \in Threads : hand[u] = hand[v] /\ hand[u] # NoMsg => u = v,
         hand' = [hand EXCEPT ![t] = NoMsg]
  PROVE  InHand' = InHand \ {hand[t]}
BY DEF InHand

\* process(): pop the head of the incoming queue into the thread's hand.
LEMMA ConsPop ==
  ASSUME ConsInv, NEW t \in Threads, Pop(t) PROVE ConsInv'
<1>. DEFINE x == Head(incoming)
<1>1. hand[t] = NoMsg /\ hand \in [Threads -> Msgs \cup {NoMsg}] /\ pc \in [Threads -> Pcs]
  BY DEF Pop, ConsInv, TypeI
<1>2. /\ Tail(incoming) \in Seq(Msgs) /\ IsInjective(Tail(incoming))
      /\ x \in InIncoming /\ Range(Tail(incoming)) = InIncoming \ {x}
  BY TailFacts DEF Pop, ConsInv, TypeI, InIncoming
<1>3. x \in Msgs /\ x # NoMsg
  BY <1>2, IncomingAssumption DEF ConsInv, TypeI, InIncoming, Range
<1>4. InHand' = InHand \cup {x}
  BY <1>1, <1>3, HandPut DEF Pop
<1>5. x \notin InHand
  BY <1>2 DEF ConsInv, Part
<1>6. Part(InIncoming', InReceived', InHand', Fetched', discarded', sent')
  <2>1. InIncoming' = InIncoming \ {x} /\ InReceived' = InReceived /\ Fetched' = Fetched
        /\ discarded' = discarded /\ sent' = sent
    BY <1>2 DEF Pop, InIncoming, InReceived, Fetched
  <2>2. Part(InIncoming \ {x}, InReceived, InHand \cup {x}, Fetched, discarded, sent)
    BY <1>2, PartMoves DEF ConsInv
  <2> QED BY <2>1, <2>2, <1>4
<1>7. \A u, v \in Threads : hand'[u] = hand'[v] /\ hand'[u] # NoMsg => u = v
  BY <1>1, <1>3, <1>5 DEF Pop, ConsInv, InHand
<1>8. \A u \in Threads : (hand'[u] # NoMsg) = (pc'[u] = "popped")
  BY <1>1, <1>3 DEF Pop, ConsInv
<1>9. TypeI'
  BY <1>2, <1>3 DEF Pop, ConsInv, TypeI, Pcs
<1> QED BY <1>2, <1>6, <1>7, <1>8, <1>9 DEF Pop, ConsInv


\* wait(): the head of the incoming queue goes straight onto received.
LEMMA ConsNextWaitPop ==
  ASSUME ConsInv, NEW t \in Threads, NextWaitPop(t) PROVE ConsInv'
<1>. DEFINE x == Head(incoming)
<1>1. /\ Tail(incoming) \in Seq(Msgs) /\ IsInjective(Tail(incoming))
      /\ x \in InIncoming /\ Range(Tail(incoming)) = InIncoming \ {x}
  BY TailFacts DEF NextWaitPop, ConsInv, TypeI, InIncoming
<1>2. x \in Msgs /\ x \notin InReceived
  BY <1>1 DEF ConsInv, TypeI, InIncoming, Range, Part
<1>3. /\ Append(received, x) \in Seq(Msgs) /\ IsInjective(Append(received, x))
      /\ Range(Append(received, x)) = InReceived \cup {x}
  BY <1>2, AppendFacts DEF ConsInv, TypeI, InReceived
<1>4. Part(InIncoming', InReceived', InHand', Fetched', discarded', sent')
  <2>1. InIncoming' = InIncoming \ {x} /\ InReceived' = InReceived \cup {x}
        /\ InHand' = InHand /\ Fetched' = Fetched /\ discarded' = discarded /\ sent' = sent
    BY <1>1, <1>3 DEF NextWaitPop, InIncoming, InReceived, InHand, Fetched
  <2>2. Part(InIncoming \ {x}, InReceived \cup {x}, InHand, Fetched, discarded, sent)
    BY <1>1, PartMoves DEF ConsInv
  <2> QED BY <2>1, <2>2
<1>5. pc'[t] = "idle" /\ pc[t] = "nextWait"
  BY DEF NextWaitPop, Return, ConsInv, TypeI
<1>6. TypeI'
  BY <1>1, <1>3 DEF NextWaitPop, Return, ConsInv, TypeI, Pcs, Calls, NoCall
<1> QED BY <1>1, <1>3, <1>4, <1>5, <1>6 DEF NextWaitPop, Return, ConsInv

\* The popped transfer is not for this handler: it goes onto received.
LEMMA ConsKeep ==
  ASSUME ConsInv, NEW t \in Threads, Keep(t) PROVE ConsInv'
<1>. DEFINE x == hand[t]
<1>1. x # NoMsg /\ x \in Msgs /\ x \in InHand
  BY DEF Keep, ConsInv, TypeI, InHand
<1>2. x \notin InReceived
  BY <1>1 DEF ConsInv, Part
<1>3. /\ Append(received, x) \in Seq(Msgs) /\ IsInjective(Append(received, x))
      /\ Range(Append(received, x)) = InReceived \cup {x}
  BY <1>1, <1>2, AppendFacts DEF ConsInv, TypeI, InReceived
<1>4. InHand' = InHand \ {x}
  BY <1>1, HandTake DEF Keep, ConsInv, TypeI
<1>5. Part(InIncoming', InReceived', InHand', Fetched', discarded', sent')
  <2>1. InIncoming' = InIncoming /\ InReceived' = InReceived \cup {x}
        /\ Fetched' = Fetched /\ discarded' = discarded /\ sent' = sent
    BY <1>3 DEF Keep, InIncoming, InReceived, Fetched
  <2>2. Part(InIncoming, InReceived \cup {x}, InHand \ {x}, Fetched, discarded, sent)
    BY <1>1, PartMoves DEF ConsInv
  <2> QED BY <2>1, <2>2, <1>4
<1>6. pc'[t] \in {"process", "drain"}
  BY DEF Keep, ConsInv, TypeI
<1>7. TypeI'
  BY <1>3 DEF Keep, ConsInv, TypeI, Pcs
<1>8. /\ \A u, v \in Threads : hand'[u] = hand'[v] /\ hand'[u] # NoMsg => u = v
      /\ \A u \in Threads : (hand'[u] # NoMsg) = (pc'[u] = "popped")
  BY <1>6 DEF Keep, ConsInv, TypeI
<1>9. UNCHANGED incoming /\ received' = Append(received, x)
  BY DEF Keep
<1> QED BY <1>3, <1>5, <1>7, <1>8, <1>9 DEF ConsInv

\* The handler accepts the popped transfer: a fetch returns it, releaseAll
\* retrieves it for release.
LEMMA ConsDeliver ==
  ASSUME ConsInv, NEW t \in Threads, Deliver(t) PROVE ConsInv'
<1>. DEFINE x == hand[t]
<1>1. x # NoMsg /\ x \in Msgs /\ x \in InHand
  BY DEF Deliver, ConsInv, TypeI, InHand
<1>2. InHand' = InHand \ {x}
  BY <1>1, HandTake DEF Deliver, ConsInv, TypeI
<1>3. x \notin Fetched /\ x \notin discarded
  BY <1>1 DEF ConsInv, Part
<1>4. \/ Fetched' = Fetched \cup {x} /\ discarded' = discarded
      \/ Fetched' = Fetched /\ discarded' = discarded \cup {x}
  BY <1>1 DEF Deliver, Retrieve, ConsInv, TypeI, Fetched
<1>5. Part(InIncoming', InReceived', InHand', Fetched', discarded', sent')
  <2>1. InIncoming' = InIncoming /\ InReceived' = InReceived /\ sent' = sent
    BY DEF Deliver, InIncoming, InReceived
  <2>2. /\ Part(InIncoming, InReceived, InHand \ {x}, Fetched \cup {x}, discarded, sent)
        /\ Part(InIncoming, InReceived, InHand \ {x}, Fetched, discarded \cup {x}, sent)
    BY <1>1, PartMoves DEF ConsInv
  <2> QED BY <2>1, <2>2, <1>2, <1>4
<1>6. pc'[t] \in {"idle", "drain"}
  BY DEF Deliver, Return, ConsInv, TypeI
<1>7. TypeI'
  <2>1. fetched' \in [Msgs -> BOOLEAN] /\ discarded' \subseteq Msgs
    BY <1>1 DEF Deliver, Retrieve, ConsInv, TypeI
  <2>2. pc' \in [Threads -> Pcs] /\ call' \in [Threads -> Calls]
    <3>1. NoCall \in Calls
      BY DEF NoCall, Calls
    <3>2. CASE call[t].kind = "fetch"
      BY <3>1, <3>2 DEF Deliver, Return, ConsInv, TypeI, Pcs
    <3>3. CASE call[t].kind = "releaseAll"
      BY <3>3 DEF Deliver, ConsInv, TypeI, Pcs
    <3> QED BY <3>2, <3>3 DEF Deliver
  <2>3. hand' \in [Threads -> Msgs \cup {NoMsg}]
    BY DEF Deliver, ConsInv, TypeI
  <2> QED BY <2>1, <2>2, <2>3 DEF Deliver, ConsInv, TypeI
<1>8. /\ \A u, v \in Threads : hand'[u] = hand'[v] /\ hand'[u] # NoMsg => u = v
      /\ \A u \in Threads : (hand'[u] # NoMsg) = (pc'[u] = "popped")
  <2>1. \A u \in Threads \ {t} : pc'[u] = pc[u]
    BY DEF Deliver, Return, ConsInv, TypeI
  <2> QED BY <1>6, <2>1 DEF Deliver, ConsInv, TypeI
<1>9. UNCHANGED <<incoming, received>>
  BY DEF Deliver
<1> QED BY <1>5, <1>7, <1>8, <1>9 DEF ConsInv


\* get(): a fetch that finds an accepted transfer on received retrieves it and
\* erases it; one that finds none goes on to process the incoming queue.
LEMMA ConsGet ==
  ASSUME ConsInv, NEW t \in Threads, NEW d \in Dests, NEW tm \in BOOLEAN, Get(t, d, tm)
  PROVE  ConsInv'
<1>. DEFINE c == [kind |-> "fetch", dest |-> d]
            i == FirstAccepted(c)
<1>1. CASE i # 0
  <2>. DEFINE x == received[i]
  <2>1. i \in 1..Len(received)
    BY <1>1, FirstAcceptedFacts DEF ConsInv, TypeI
  <2>2. /\ RemoveAt(received, i) \in Seq(Msgs) /\ IsInjective(RemoveAt(received, i))
        /\ Range(RemoveAt(received, i)) = InReceived \ {x}
    BY <2>1, RemoveAtFacts DEF ConsInv, TypeI, InReceived
  <2>3. x \in Msgs /\ x \in InReceived
    BY <2>1 DEF ConsInv, TypeI, InReceived, Range
  <2>4. /\ received' = RemoveAt(received, i)
        /\ fetched' = [fetched EXCEPT ![x] = TRUE] /\ discarded' = discarded
        /\ UNCHANGED <<pc, call, sent, incoming, lockOwner, hand>>
    BY <1>1 DEF Get, Retrieve
  <2>5. Fetched' = Fetched \cup {x}
    BY <2>3, <2>4 DEF ConsInv, TypeI, Fetched
  <2>6. Part(InIncoming', InReceived', InHand', Fetched', discarded', sent')
    <3>1. InIncoming' = InIncoming /\ InReceived' = InReceived \ {x} /\ InHand' = InHand
      BY <2>2, <2>4 DEF InIncoming, InReceived, InHand
    <3>2. Part(InIncoming, InReceived \ {x}, InHand, Fetched \cup {x}, discarded, sent)
      BY <2>3, PartMoves DEF ConsInv
    <3> QED BY <3>1, <3>2, <2>4, <2>5
  <2>7. TypeI'
    BY <2>2, <2>3, <2>4 DEF ConsInv, TypeI
  <2> QED BY <2>2, <2>4, <2>6, <2>7 DEF ConsInv
<1>2. CASE i = 0
  <2>1. /\ pc' = [pc EXCEPT ![t] = "process"] /\ call' = [call EXCEPT ![t] = c]
        /\ UNCHANGED <<sent, incoming, received, hand, fetched, discarded, lockOwner>>
    BY <1>2 DEF Get
  <2>2. c \in Calls /\ pc[t] = "idle"
    BY DEF Calls, Get
  <2> QED BY <2>1, <2>2, ConsFrame DEF ConsInv, TypeI, Pcs
<1> QED BY <1>1, <1>2

\* releasePending: erase the next received transfer for the destination and
\* release it.
LEMMA ConsReleaseErase ==
  ASSUME ConsInv, NEW t \in Threads, ReleaseErase(t) PROVE ConsInv'
<1>. DEFINE i == NextMatch(call[t].dest)
            x == received[i]
<1>1. i \in 1..Len(received)
  BY NextMatchFacts DEF ReleaseErase, ConsInv, TypeI
<1>2. /\ RemoveAt(received, i) \in Seq(Msgs) /\ IsInjective(RemoveAt(received, i))
      /\ Range(RemoveAt(received, i)) = InReceived \ {x}
  BY <1>1, RemoveAtFacts DEF ConsInv, TypeI, InReceived
<1>3. x \in Msgs /\ x \in InReceived
  BY <1>1 DEF ConsInv, TypeI, InReceived, Range
<1>4. Part(InIncoming', InReceived', InHand', Fetched', discarded', sent')
  <2>1. /\ InIncoming' = InIncoming /\ InReceived' = InReceived \ {x} /\ InHand' = InHand
        /\ Fetched' = Fetched /\ discarded' = discarded \cup {x} /\ sent' = sent
    BY <1>2 DEF ReleaseErase, InIncoming, InReceived, InHand, Fetched
  <2>2. Part(InIncoming, InReceived \ {x}, InHand, Fetched, discarded \cup {x}, sent)
    BY <1>3, PartMoves DEF ConsInv
  <2> QED BY <2>1, <2>2
<1>5. TypeI'
  BY <1>2, <1>3 DEF ReleaseErase, ConsInv, TypeI
<1> QED BY <1>2, <1>4, <1>5 DEF ReleaseErase, ConsInv

\* A pump: releaseAll releases everything on received at once; the others
\* leave the places alone.
LEMMA ConsPump ==
  ASSUME ConsInv, NEW t \in Threads, NEW c \in Calls, Pump(t, c) PROVE ConsInv'
<1>1. CASE c.kind = "releaseAll"
  <2>1. /\ discarded' = discarded \cup InReceived /\ received' = <<>>
        /\ UNCHANGED <<sent, incoming, hand, fetched>>
    BY <1>1 DEF Pump, InReceived
  <2>2. InReceived' = {} /\ InIncoming' = InIncoming /\ InHand' = InHand /\ Fetched' = Fetched
    BY <2>1 DEF InReceived, InIncoming, InHand, Fetched, Range
  <2>3. Part(InIncoming, {}, InHand, Fetched, discarded \cup InReceived, sent)
    BY PartMoves DEF ConsInv
  <2>4. TypeI'
    BY <2>1 DEF Pump, ConsInv, TypeI, Pcs, InReceived, Range
  <2>5. IsInjective(received')
    BY <2>1 DEF IsInjective
  <2>6. pc[t] = "idle" /\ pc' = [pc EXCEPT ![t] = "drain"]
    BY DEF Pump
  <2> QED BY <2>1, <2>2, <2>3, <2>4, <2>5, <2>6 DEF ConsInv, TypeI
<1>2. CASE c.kind # "releaseAll"
  <2>1. /\ pc' = [pc EXCEPT ![t] = "drain"] /\ call' = [call EXCEPT ![t] = c]
        /\ UNCHANGED <<sent, incoming, received, hand, fetched, discarded, lockOwner>>
        /\ pc[t] = "idle"
    BY <1>2 DEF Pump
  <2> QED BY <2>1, ConsFrame DEF ConsInv, TypeI, Pcs
<1> QED BY <1>1, <1>2

\* The broker's new transfer joins the incoming queue.
LEMMA ConsArrive ==
  ASSUME ConsInv, NEW m \in Msgs, Arrive(m) PROVE ConsInv'
<1>1. m \notin InIncoming /\ m \notin Fetched /\ m \notin discarded
  BY DEF Arrive, ConsInv, Part
<1>2. /\ Append(incoming, m) \in Seq(Msgs) /\ IsInjective(Append(incoming, m))
      /\ Range(Append(incoming, m)) = InIncoming \cup {m}
  BY <1>1, AppendFacts DEF ConsInv, TypeI, InIncoming
<1>3. Part(InIncoming', InReceived', InHand', Fetched', discarded', sent')
  <2>1. /\ InIncoming' = InIncoming \cup {m} /\ InReceived' = InReceived
        /\ InHand' = InHand /\ Fetched' = Fetched /\ discarded' = discarded
    BY <1>2 DEF Arrive, InIncoming, InReceived, InHand, Fetched
  <2>2. Part(InIncoming \cup {m}, InReceived, InHand, Fetched, discarded, sent \cup {m})
    BY PartMoves DEF ConsInv, Arrive
  <2> QED BY <2>1, <2>2 DEF Arrive
<1>4. TypeI'
  BY <1>2 DEF Arrive, ConsInv, TypeI
<1> QED BY <1>2, <1>3, <1>4 DEF Arrive, ConsInv


\* The steps that move no transfer: a timeout, getNextDestination's check
\* and wait, the end of a pump and the end of releasePending.
LEMMA ConsControl ==
  ASSUME ConsInv, NEW t \in Threads,
         \/ GetTimeout(t) \/ NextWaitTimeout(t) \/ PumpDone(t) \/ ReleaseDone(t)
         \/ AvailableDone(t) \/ \E tm \in BOOLEAN : NextDestination(t, tm)
         \/ AcceptAll(t) \/ \E m \in Msgs : AcceptId(t, m)
  PROVE  ConsInv'
<1>1. pc[t] # "popped" /\ pc'[t] # "popped"
      /\ pc' \in [Threads -> Pcs] /\ \A u \in Threads \ {t} : pc'[u] = pc[u]
  BY DEF GetTimeout, NextWaitTimeout, PumpDone, ReleaseDone, AvailableDone,
         NextDestination, AcceptAll, AcceptId, Return, ConsInv, TypeI, Pcs
<1>2. call' \in [Threads -> Calls]
  <2>0. call \in [Threads -> Calls] /\ NoCall \in Calls /\ [kind |-> "next"] \in Calls
    BY DEF ConsInv, TypeI, Calls, NoCall
  <2>1. CASE GetTimeout(t) BY <2>0, <2>1 DEF GetTimeout, Return
  <2>2. CASE NextWaitTimeout(t) BY <2>0, <2>2 DEF NextWaitTimeout, Return
  <2>3. CASE PumpDone(t) BY <2>0, <2>3 DEF PumpDone, Return
  <2>4. CASE ReleaseDone(t) BY <2>0, <2>4 DEF ReleaseDone, Return
  <2>5. CASE AvailableDone(t) BY <2>0, <2>5 DEF AvailableDone, Return
  <2>6. CASE \E tm \in BOOLEAN : NextDestination(t, tm)
    BY <2>0, <2>6 DEF NextDestination, Return
  <2>7. CASE AcceptAll(t) BY <2>0, <2>7 DEF AcceptAll
  <2>8. CASE \E m \in Msgs : AcceptId(t, m) BY <2>0, <2>8 DEF AcceptId
  <2> QED BY <2>1, <2>2, <2>3, <2>4, <2>5, <2>6, <2>7, <2>8
<1>3. lockOwner' \in Threads \cup {NoThread}
  <2>1. CASE PumpDone(t)
    <3>1. lockOwner' \in {lockOwner, t}
      BY <2>1 DEF PumpDone
    <3> QED BY <3>1 DEF ConsInv, TypeI
  <2>2. CASE ~PumpDone(t)
    BY <2>2 DEF GetTimeout, NextWaitTimeout, ReleaseDone, AvailableDone,
                NextDestination, AcceptAll, AcceptId, ConsInv, TypeI
  <2> QED BY <2>1, <2>2
<1>4. UNCHANGED <<sent, incoming, received, hand, fetched, discarded>>
  BY DEF GetTimeout, NextWaitTimeout, PumpDone, ReleaseDone, AvailableDone,
         NextDestination, AcceptAll, AcceptId
<1>5. \A u \in Threads : (pc'[u] = "popped") = (pc[u] = "popped")
  BY <1>1
<1> QED BY <1>1, <1>2, <1>3, <1>4, <1>5, ConsFrame

\* Every step of the model keeps ConsInv.
LEMMA ConsNext ==
  ASSUME ConsInv, [Next]_vars PROVE ConsInv'
<1>1. CASE \E m \in Msgs : Arrive(m)
  BY <1>1, ConsArrive
<1>2. CASE \E t \in Threads :
       \/ \E d \in Dests, tm \in BOOLEAN : Get(t, d, tm)
       \/ \E tm \in BOOLEAN : NextDestination(t, tm)
       \/ \E c \in Calls : Pump(t, c)
       \/ Pop(t) \/ Deliver(t) \/ Keep(t) \/ GetTimeout(t) \/ PumpDone(t)
       \/ AvailableDone(t) \/ ReleaseErase(t) \/ ReleaseDone(t)
       \/ NextWaitPop(t) \/ NextWaitTimeout(t)
       \/ AcceptAll(t) \/ \E m \in Msgs : AcceptId(t, m)
  BY <1>2, ConsGet, ConsPump, ConsPop, ConsDeliver, ConsKeep, ConsReleaseErase,
     ConsNextWaitPop, ConsControl
<1>3. CASE UNCHANGED vars
  <2>1. UNCHANGED <<sent, incoming, received, hand, fetched, discarded, pc, call, lockOwner>>
    BY <1>3 DEF vars
  <2> QED BY <2>1 DEF ConsInv, TypeI, InIncoming, InReceived, InHand, Fetched
<1> QED BY <1>1, <1>2, <1>3 DEF Next

\* MessageConserved, for every set of threads, destinations and transfers:
\* whatever get(), getNextDestination(), process(), releasePending() and the
\* pumps of available() and releaseAll() do, and in whatever order threads
\* interleave them, every transfer the broker sent is in exactly one place --
\* on the incoming queue, on received, in a thread's hand, returned to a
\* caller or discarded -- never lost and never delivered twice.
THEOREM MessageConservedHolds == Spec => []MessageConserved
<1>1. Init => ConsInv
  BY ConsInit
<1>2. ConsInv /\ [Next]_vars => ConsInv'
  BY ConsNext
<1>3. ConsInv => MessageConserved
  BY ConsConserved
<1> QED BY <1>1, <1>2, <1>3, PTL DEF Spec


-----------------------------------------------------------------------------
(* NoDoubleSettle.                                                          *)

\* Nothing is tracked, accepted or released at the start.
LEMMA SettleInit == Init => SettleInv
BY DEF Init, SettleInv

\* A step that leaves the tracker and the broker alone and takes nothing back
\* keeps SettleInv.
LEMMA SettleFrame ==
  ASSUME SettleInv, UNCHANGED settleVars, Taken \subseteq Taken'
  PROVE  SettleInv'
BY DEF SettleInv, settleVars

\* retrieve() of the transfers S, none of them taken before: their ids join
\* the tracker.
LEMMA SettleTrack ==
  ASSUME SettleInv, NEW S, S \cap Taken = {}, Taken \cup S \subseteq Taken',
         pendingAccept' = pendingAccept \cup S, UNCHANGED <<acceptedIds, releasedIds>>
  PROVE  SettleInv'
BY DEF SettleInv

\* releasePending's messageRelease of x, taken by this very step.
LEMMA SettleReleaseOne ==
  ASSUME SettleInv, NEW x, x \notin Taken, Taken \cup {x} \subseteq Taken',
         releasedIds' = releasedIds \cup {x}, UNCHANGED <<pendingAccept, acceptedIds>>
  PROVE  SettleInv'
BY DEF SettleInv

\* A waiting transfer was sent and has not been taken.
LEMMA WaitingNotTaken ==
  ASSUME ConsInv, NEW x \in InReceived \cup InHand PROVE x \notin Taken /\ x \in Msgs
BY DEF ConsInv, TypeI, Part, Taken

\* fetched[x] becomes TRUE: Fetched grows by x.
LEMMA FetchedAdd ==
  ASSUME fetched \in [Msgs -> BOOLEAN], NEW x \in Msgs,
         fetched' = [fetched EXCEPT ![x] = TRUE]
  PROVE  Fetched' = Fetched \cup {x}
BY DEF Fetched

\* retrieve(c, x) of a waiting transfer keeps SettleInv.
LEMMA SettleRetrieve ==
  ASSUME ConsInv, SettleInv, NEW c, NEW x \in InReceived \cup InHand, Retrieve(c, x),
         c.kind \in {"fetch", "releaseAll"}
  PROVE  SettleInv'
<1>1. x \notin Taken /\ x \in Msgs
  BY WaitingNotTaken
<1>2. Taken' = Taken \cup {x}
  <2>1. CASE c.kind = "fetch"
    BY <1>1, <2>1, FetchedAdd DEF Retrieve, ConsInv, TypeI, Taken
  <2>2. CASE c.kind = "releaseAll"
    BY <2>2 DEF Retrieve, Taken, Fetched
  <2> QED BY <2>1, <2>2
<1>3. pendingAccept' = pendingAccept \cup {x} /\ UNCHANGED <<acceptedIds, releasedIds>>
  BY DEF Retrieve
<1> QED BY <1>1, <1>2, <1>3, SettleTrack


\* Every step keeps SettleInv.
LEMMA SettleNext ==
  ASSUME ConsInv, SettleInv, [Next]_vars PROVE SettleInv'
<1>0. UNCHANGED <<fetched, discarded>> => Taken' = Taken
  BY DEF Taken, Fetched
<1>1. CASE \E m \in Msgs : Arrive(m)
  BY <1>0, <1>1, SettleFrame DEF Arrive
<1>2. ASSUME NEW t \in Threads, NEW d \in Dests, NEW tm \in BOOLEAN, Get(t, d, tm)
      PROVE  SettleInv'
  <2>. DEFINE c == [kind |-> "fetch", dest |-> d]
              i == FirstAccepted(c)
  <2>1. CASE i # 0
    <3>1. i \in 1..Len(received)
      BY <2>1, FirstAcceptedFacts DEF ConsInv, TypeI
    <3>2. received[i] \in InReceived
      BY <3>1 DEF InReceived, Range
    <3>3. Retrieve(c, received[i])
      BY <1>2, <2>1 DEF Get
    <3> QED BY <3>2, <3>3, SettleRetrieve
  <2>2. CASE i = 0
    BY <1>0, <1>2, <2>2, SettleFrame DEF Get
  <2> QED BY <2>1, <2>2
<1>3. ASSUME NEW t \in Threads, Deliver(t) PROVE SettleInv'
  <2>1. hand[t] \in InHand
    BY <1>3 DEF Deliver, ConsInv, InHand
  <2>2. Retrieve(call[t], hand[t]) /\ call[t].kind \in {"fetch", "releaseAll"}
    BY <1>3 DEF Deliver, Accepts
  <2> QED BY <2>1, <2>2, SettleRetrieve
<1>4. ASSUME NEW t \in Threads, NEW c \in Calls, Pump(t, c) PROVE SettleInv'
  <2>1. CASE c.kind = "releaseAll"
    <3>1. /\ discarded' = discarded \cup InReceived /\ UNCHANGED fetched
          /\ pendingAccept' = pendingAccept \cup InReceived
          /\ UNCHANGED <<acceptedIds, releasedIds>>
      BY <1>4, <2>1 DEF Pump, InReceived
    <3>2. InReceived \cap Taken = {}
      BY WaitingNotTaken
    <3>3. Taken' = Taken \cup InReceived
      BY <3>1 DEF Taken, Fetched
    <3> QED BY <3>1, <3>2, <3>3, SettleTrack
  <2>2. CASE c.kind # "releaseAll"
    BY <1>0, <1>4, <2>2, SettleFrame DEF Pump
  <2> QED BY <2>1, <2>2
<1>5. ASSUME NEW t \in Threads, ReleaseErase(t) PROVE SettleInv'
  <2>. DEFINE i == NextMatch(call[t].dest)
  <2>1. i \in 1..Len(received)
    BY <1>5, NextMatchFacts DEF ReleaseErase, ConsInv, TypeI
  <2>2. received[i] \in InReceived
    BY <2>1 DEF InReceived, Range
  <2>3. /\ discarded' = discarded \cup {received[i]} /\ UNCHANGED fetched
        /\ releasedIds' = releasedIds \cup {received[i]}
        /\ UNCHANGED <<pendingAccept, acceptedIds>>
    BY <1>5 DEF ReleaseErase
  <2>4. Taken' = Taken \cup {received[i]}
    BY <2>3 DEF Taken, Fetched
  <2> QED BY <2>2, <2>3, <2>4, WaitingNotTaken, SettleReleaseOne
<1>6. ASSUME NEW t \in Threads, PumpDone(t) PROVE SettleInv'
  <2>1. Taken' = Taken
    BY <1>0, <1>6 DEF PumpDone
  <2>2. CASE call[t].kind = "releaseAll"
    <3>1. /\ releasedIds' = releasedIds \cup pendingAccept /\ pendingAccept' = {}
          /\ UNCHANGED acceptedIds
      BY <1>6, <2>2 DEF PumpDone
    <3> QED BY <2>1, <3>1 DEF SettleInv
  <2>3. CASE call[t].kind # "releaseAll"
    BY <1>6, <2>1, <2>3, SettleFrame DEF PumpDone
  <2> QED BY <2>2, <2>3
<1>7. ASSUME NEW t \in Threads, AcceptAll(t) PROVE SettleInv'
  <2>1. Taken' = Taken
    BY <1>0, <1>7 DEF AcceptAll
  <2> QED BY <1>7, <2>1 DEF AcceptAll, SettleInv
<1>8. ASSUME NEW t \in Threads, NEW m \in Msgs, AcceptId(t, m) PROVE SettleInv'
  <2>1. Taken' = Taken
    BY <1>0, <1>8 DEF AcceptId
  <2> QED BY <1>8, <2>1 DEF AcceptId, SettleInv
<1>9. ASSUME NEW t \in Threads,
             \/ Pop(t) \/ Keep(t) \/ NextWaitPop(t) \/ GetTimeout(t) \/ NextWaitTimeout(t)
             \/ ReleaseDone(t) \/ AvailableDone(t) \/ \E tm \in BOOLEAN : NextDestination(t, tm)
      PROVE  SettleInv'
  <2>1. UNCHANGED <<fetched, discarded, settleVars>>
    BY <1>9 DEF Pop, Keep, NextWaitPop, GetTimeout, NextWaitTimeout, ReleaseDone,
                AvailableDone, NextDestination
  <2> QED BY <1>0, <2>1, SettleFrame
<1>10. CASE UNCHANGED vars
  BY <1>0, <1>10, SettleFrame DEF vars, settleVars
<1> QED BY <1>1, <1>2, <1>3, <1>4, <1>5, <1>6, <1>7, <1>8, <1>9, <1>10 DEF Next

\* NoDoubleSettle, for every set of threads, destinations and transfers:
\* however accept(), releaseAll() and releasePending() on different threads
\* interleave with the fetches, the broker is never told both to accept and
\* to release one transfer.  The tracker only ever holds ids that retrieve()
\* took off the lists, accept() and releaseAll()'s acceptTracker.release
\* empty it under the lock, and releasePending releases only transfers still
\* on received, which were never retrieved.
THEOREM NoDoubleSettleHolds == Spec => []NoDoubleSettle
<1>1. Init => ConsInv /\ SettleInv
  BY ConsInit, SettleInit
<1>2. ConsInv /\ SettleInv /\ [Next]_vars => ConsInv' /\ SettleInv'
  BY ConsNext, SettleNext
<1>3. SettleInv => NoDoubleSettle
  BY DEF SettleInv, NoDoubleSettle
<1> QED BY <1>1, <1>2, <1>3, PTL DEF Spec

=============================================================================
