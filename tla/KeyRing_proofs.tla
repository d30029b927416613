--------------------------- MODULE KeyRing_proofs ---------------------------
(***************************************************************************)
(* What TLC checks of KeyRing for a few slots and codes, proved for every  *)
(* number of slots, every set of codes and every width of cb_count: first  *)
(* of KeyRing itself; then of KeyRingSteps, where the interrupt clears the *)
(* report between any two accesses; then that KeyRing is the queue of      *)
(* HeldKeys; last that a call of KeyRingSteps which no interrupt cuts is   *)
(* one step of KeyRing.                                                    *)
(***************************************************************************)
EXTENDS KeyRingSteps, KeyRingQueue, FiniteSetTheorems, SequenceTheorems,
        WellFoundedInduction, TLAPS

-----------------------------------------------------------------------------
(* Arithmetic of the ring.                                                 *)

(* One turn at most is taken off by the remainder.                         *)
LEMMA ModRange ==
    ASSUME NEW x \in Int, NEW m \in Nat, m > 0
    PROVE  x % m \in 0 .. m-1
BY SMT

LEMMA ModOnce ==
    ASSUME NEW m \in Nat, m > 0, NEW x \in 0 .. 2*m-1
    PROVE  x % m = IF x < m THEN x ELSE x - m
<1>1. CASE x < m
  BY <1>1, SMT
<1>2. CASE x >= m
  <2> DEFINE y == x - m
  <2>1. y \in 0 .. m-1
    BY <1>2, SMT
  <2>2. (y + m) % m = y % m
    BY <2>1, SMT
  <2> QED  BY <1>2, <2>1, <2>2, SMT
<1> QED  BY <1>1, <1>2

(* A non-empty set of naturals has a least element.                        *)
LEMMA LeastNatural ==
    ASSUME NEW S, S \subseteq Nat, S # {}
    PROVE  \E n \in S : \A m \in S : n <= m
<1> DEFINE R == OpToRel(<, Nat)
<1>1. IsWellFoundedOn(R, Nat)
  BY NatLessThanWellFounded
<1>2. \E n \in S : \A m \in S : <<m, n>> \notin R
  <2> HIDE DEF R
  <2> QED  BY <1>1, WFMin, Zenon
<1>3. \A m, n \in Nat : <<m, n>> \notin R => n <= m
  BY SMT DEF OpToRel
<1> HIDE DEF R
<1>4. PICK n \in S : \A m \in S : <<m, n>> \notin R
  BY <1>2, Zenon
<1>5. \A m \in S : n <= m
  BY <1>3, <1>4, Zenon
<1> QED  BY <1>5, Zenon

(* The ring operations without the remainder.                              *)
LEMMA RingSub ==
    ASSUME NEW a \in Slots, NEW b \in 0 .. N
    PROVE  /\ RO_SUB(a, b) = IF a >= b THEN a - b ELSE a - b + N
           /\ RO_SUB(a, b) \in Slots
<1> USE RingAssumption DEF Slots
<1>1. a - b + N \in 0 .. 2*N-1
  BY SMT
<1>2. (a - b + N) % N = IF a - b + N < N THEN a - b + N ELSE a - b + N - N
  BY <1>1, ModOnce, SMT
<1> QED  BY <1>2, SMT DEF RO_SUB

LEMMA RingDistance ==
    ASSUME NEW a \in Slots, NEW b \in Slots
    PROVE  /\ RO_SUB(a, b) = IF a >= b THEN a - b ELSE a - b + N
           /\ RO_SUB(a, b) \in 0 .. N-1
<1>1. b \in 0 .. N
  BY RingAssumption, SMT DEF Slots
<1> QED  BY <1>1, RingSub DEF Slots

LEMMA RingStep ==
    ASSUME NEW a \in Slots
    PROVE  /\ RO_INC(a) = IF a = N-1 THEN 0 ELSE a + 1
           /\ RO_INC(a) \in Slots
           /\ RO_DEC(a) = IF a = 0 THEN N-1 ELSE a - 1
           /\ RO_DEC(a) \in Slots
<1> USE RingAssumption DEF Slots
<1>1. a + 1 \in 0 .. 2*N-1
  BY SMT
<1>2. (a + 1) % N = IF a + 1 < N THEN a + 1 ELSE a + 1 - N
  BY <1>1, ModOnce, SMT
<1>3. RO_DEC(a) = IF a >= 1 THEN a - 1 ELSE a - 1 + N
  BY RingSub, SMT DEF RO_DEC
<1> QED  BY <1>2, <1>3, SMT DEF RO_INC, RO_ADD

(* A non-empty set of slots has a first one in the order of the loops, and *)
(* a last one.                                                             *)
LEMMA FirstIsLeast ==
    ASSUME NEW S, S \subseteq Slots, S # {}, head \in Slots
    PROVE  First(S) \in S /\ \A t \in S : Order(First(S)) <= Order(t)
<1> DEFINE O == {Order(s) : s \in S}
<1>1. \A s \in Slots : Order(s) \in Nat
  BY RingSub, RingAssumption, SMT DEF Order, Slots
<1>2. PICK n \in O : \A m \in O : n <= m
  <2>1. O \subseteq Nat /\ O # {}
    BY <1>1
  <2> HIDE DEF O
  <2> QED  BY <2>1, LeastNatural
<1>3. PICK s \in S : \A t \in S : Order(s) <= Order(t)
  BY <1>2
<1> QED  BY <1>3 DEF First

LEMMA LastExists ==
    ASSUME NEW S, S \subseteq Slots, S # {}, NEW h \in Slots
    PROVE  \E s \in S : \A r \in S : RO_SUB(r, h) <= RO_SUB(s, h)
<1> DEFINE O == {N - RO_SUB(s, h) : s \in S}
<1>1. \A s \in Slots : RO_SUB(s, h) \in 0 .. N-1
  BY RingSub, RingAssumption, SMT DEF Slots
<1>2. PICK n \in O : \A m \in O : n <= m
  <2>1. O \subseteq Nat /\ O # {}
    BY <1>1, RingAssumption, SMT
  <2> HIDE DEF O
  <2> QED  BY <2>1, LeastNatural
<1>3. PICK s \in S : n = N - RO_SUB(s, h)
  BY <1>2
<1>4. \A r \in S : n <= N - RO_SUB(r, h)
  BY <1>2
<1> QED  BY <1>1, <1>3, <1>4, RingAssumption, SMT

(* The held slots are counted by a number up to N.                         *)
LEMMA SlotsFinite == IsFiniteSet(Slots) /\ Cardinality(Slots) = N
<1>1. 0 \in Int /\ N-1 \in Int
  BY RingAssumption, SMT
<1> QED  BY <1>1, FS_Interval, RingAssumption, SMT DEF Slots

LEMMA SlotSetFinite ==
    ASSUME NEW S, S \subseteq Slots
    PROVE  /\ IsFiniteSet(S)
           /\ Cardinality(S) \in 0 .. N
           /\ Cardinality(S) = N <=> S = Slots
           /\ Cardinality(S) = 0 <=> S = {}
<1>1. IsFiniteSet(S) /\ Cardinality(S) <= N /\ (Cardinality(S) = N => S = Slots)
  BY SlotsFinite, FS_Subset
<1>2. Cardinality(S) \in Nat
  BY <1>1, FS_CardinalityType
<1>3. Cardinality(S) = 0 <=> S = {}
  BY <1>1, FS_EmptySet
<1> QED  BY <1>1, <1>2, <1>3, SlotsFinite, RingAssumption, SMT

LEMMA OrderRange ==
    ASSUME NEW s \in Slots, head \in Slots
    PROVE  /\ Order(s) = IF s >= head THEN s - head ELSE s - head + N
           /\ Order(s) \in 0 .. N-1
BY RingSub, RingAssumption, SMT DEF Order, Slots

LEMMA OrderInjective ==
    ASSUME NEW s \in Slots, NEW t \in Slots, head \in Slots, Order(s) = Order(t)
    PROVE  s = t
BY OrderRange, RingAssumption, SMT DEF Slots

(* The loops start at turn 0, go up by one and end at turn N - 1.          *)
LEMMA OrderSteps ==
    ASSUME NEW s \in Slots, head \in Slots
    PROVE  /\ Order(head) = 0
           /\ Order(RO_DEC(head)) = N - 1
           /\ Order(RO_INC(s)) = IF Order(s) = N - 1 THEN 0 ELSE Order(s) + 1
<1>1. /\ RO_INC(s) = IF s = N-1 THEN 0 ELSE s + 1
      /\ RO_INC(s) \in Slots
  BY RingStep
<1>2. /\ RO_DEC(head) = IF head = 0 THEN N-1 ELSE head - 1
      /\ RO_DEC(head) \in Slots
  BY RingStep
<1>3. Order(head) = 0
  <2>1. Order(head) = IF head >= head THEN head - head ELSE head - head + N
    BY OrderRange
  <2> QED  BY <2>1, RingAssumption, SMT DEF Slots
<1>4. Order(RO_DEC(head)) = N - 1
  <2>1. Order(RO_DEC(head)) = IF RO_DEC(head) >= head THEN RO_DEC(head) - head
                              ELSE RO_DEC(head) - head + N
    BY <1>2, OrderRange
  <2> QED  BY <1>2, <2>1, RingAssumption, SMT DEF Slots
<1>5. Order(RO_INC(s)) = IF Order(s) = N - 1 THEN 0 ELSE Order(s) + 1
  <2>1. Order(RO_INC(s)) = IF RO_INC(s) >= head THEN RO_INC(s) - head
                           ELSE RO_INC(s) - head + N
    BY <1>1, OrderRange
  <2>2. Order(s) = IF s >= head THEN s - head ELSE s - head + N
    BY OrderRange
  <2> QED  BY <1>1, <2>1, <2>2, RingAssumption, SMT DEF Slots
<1> QED  BY <1>3, <1>4, <1>5

-----------------------------------------------------------------------------
(* The left shift of add_key_byte.                                         *)

LEMMA TurnInjective ==
    ASSUME NEW s \in Slots, NEW t \in Slots, NEW h \in Slots, RO_SUB(s, h) = RO_SUB(t, h)
    PROVE  s = t
<1>1. RO_SUB(s, h) = (IF s >= h THEN s - h ELSE s - h + N)
  BY RingDistance
<1>2. RO_SUB(t, h) = (IF t >= h THEN t - h ELSE t - h + N)
  BY RingDistance
<1>3. (IF s >= h THEN s - h ELSE s - h + N) = (IF t >= h THEN t - h ELSE t - h + N)
  BY <1>1, <1>2
<1> QED  BY <1>3, RingAssumption, SMT DEF Slots

(* The slots of a set, numbered without a gap in the order of the loops.   *)
RankIn(S, h, s) == Cardinality({t \in S : RO_SUB(t, h) < RO_SUB(s, h)})

LEMMA RankNumbers ==
    ASSUME NEW S, S \subseteq Slots, NEW h \in Slots
    PROVE  /\ \A t \in S : RankIn(S, h, t) \in 0 .. Cardinality(S)-1
           /\ \A t, u \in S : RankIn(S, h, t) = RankIn(S, h, u) => t = u
           /\ \A n \in 0 .. Cardinality(S)-1 : \E t \in S : RankIn(S, h, t) = n
           /\ \A t, u \in S : RO_SUB(t, h) < RO_SUB(u, h) => RankIn(S, h, t) < RankIn(S, h, u)
<1> DEFINE Before(s) == {t \in S : RO_SUB(t, h) < RO_SUB(s, h)}
           c == Cardinality(S)
<1>1. S \subseteq Slots
  OBVIOUS
<1>2. IsFiniteSet(S) /\ c \in 0 .. N
  BY <1>1, SlotSetFinite
<1>3. ASSUME NEW t \in S
      PROVE  /\ IsFiniteSet(Before(t)) /\ Cardinality(Before(t)) = RankIn(S, h, t)
             /\ t \notin Before(t)
             /\ Cardinality(Before(t) \cup {t}) = RankIn(S, h, t) + 1
             /\ RankIn(S, h, t) \in 0 .. c-1
  <2>1. t \notin Before(t)
    BY <1>1, RingDistance, RingAssumption, SMT
  <2>2. IsFiniteSet(Before(t)) /\ Cardinality(Before(t)) \in 0 .. N
    BY <1>1, SlotSetFinite
  <2>3. Cardinality(Before(t)) = RankIn(S, h, t)
    BY DEF RankIn
  <2>4. Cardinality(Before(t) \cup {t}) = RankIn(S, h, t) + 1
    BY <2>1, <2>2, <2>3, FS_AddElement
  <2>5. RankIn(S, h, t) + 1 <= c
    BY <1>2, <2>4, FS_Subset
  <2> QED  BY <1>2, <2>1, <2>2, <2>3, <2>4, <2>5, RingAssumption, SMT
<1>4. ASSUME NEW t \in S, NEW u \in S, RO_SUB(t, h) < RO_SUB(u, h)
      PROVE  RankIn(S, h, t) < RankIn(S, h, u)
  <2>1. Before(t) \cup {t} \subseteq Before(u)
    BY <1>1, <1>4, RingDistance, RingAssumption, SMT
  <2>2. Cardinality(Before(t) \cup {t}) <= Cardinality(Before(u))
    BY <1>3, <2>1, FS_Subset
  <2>3. /\ Cardinality(Before(t) \cup {t}) = RankIn(S, h, t) + 1
        /\ Cardinality(Before(u)) = RankIn(S, h, u)
        /\ RankIn(S, h, t) \in 0 .. c-1 /\ RankIn(S, h, u) \in 0 .. c-1
    BY <1>3
  <2> HIDE DEF Before, c
  <2> QED  BY <1>2, <2>2, <2>3, RingAssumption, SMT
<1>5. ASSUME NEW t \in S, NEW u \in S, RankIn(S, h, t) = RankIn(S, h, u)
      PROVE  t = u
  <2>1. ~ (RO_SUB(t, h) < RO_SUB(u, h)) /\ ~ (RO_SUB(u, h) < RO_SUB(t, h))
    <3>1. RankIn(S, h, t) \in 0 .. c-1
      BY <1>3
    <3>2. ~ (RankIn(S, h, t) < RankIn(S, h, u)) /\ ~ (RankIn(S, h, u) < RankIn(S, h, t))
      <4> HIDE DEF c
      <4> QED  BY <1>2, <1>5, <3>1, RingAssumption, SMT
    <3> QED  BY <1>4, <3>2
  <2>2. RO_SUB(t, h) = RO_SUB(u, h)
    BY <1>1, <2>1, RingDistance, RingAssumption, SMT
  <2> QED  BY <1>1, <2>2, TurnInjective
<1>6. ASSUME NEW n \in 0 .. c-1
      PROVE  \E t \in S : RankIn(S, h, t) = n
  <2> DEFINE f == [t \in S |-> RankIn(S, h, t)]
             I == 0 .. c-1
  <2>1. f \in Injection(S, I)
    BY <1>3, <1>5 DEF Injection, IsInjective
  <2>2. IsFiniteSet(I) /\ Cardinality(I) = c
    <3>1. 0 \in Int /\ c-1 \in Int
      BY <1>2, RingAssumption, SMT
    <3> QED  BY <1>2, <3>1, FS_Interval, RingAssumption, SMT
  <2>3. f \in Surjection(S, I)
    <3> HIDE DEF f, I
    <3> QED  BY <2>1, <2>2, FS_Injection
  <2> QED  BY <2>3 DEF Surjection
<1> QED  BY <1>3, <1>4, <1>5, <1>6

LEMMA RankNumbersHeld ==
    ASSUME head \in Slots
    PROVE  /\ \A t \in Held : Rank(t) \in 0 .. Cardinality(Held)-1
           /\ \A t, u \in Held : Rank(t) = Rank(u) => t = u
           /\ \A n \in 0 .. Cardinality(Held)-1 : \E t \in Held : Rank(t) = n
           /\ \A t, u \in Held : Order(t) < Order(u) => Rank(t) < Rank(u)
<1>1. Held \subseteq Slots /\ \A t : Rank(t) = RankIn(Held, head, t)
  BY DEF Held, Rank, RankIn, Order
<1>2. /\ \A t \in Held : RankIn(Held, head, t) \in 0 .. Cardinality(Held)-1
      /\ \A t, u \in Held : RankIn(Held, head, t) = RankIn(Held, head, u) => t = u
      /\ \A n \in 0 .. Cardinality(Held)-1 : \E t \in Held : RankIn(Held, head, t) = n
      /\ \A t, u \in Held : RO_SUB(t, head) < RO_SUB(u, head)
                                => RankIn(Held, head, t) < RankIn(Held, head, u)
  <2> HIDE DEF RankIn
  <2> QED  BY <1>1, RankNumbers
<1> QED  BY <1>1, <1>2 DEF Order

(* What both forms of the left shift do: the held keys, and no others, end *)
(* up in the first slots of the turn, no key in two of them.               *)
Gathered(ks) ==
    /\ ks \in [Slots -> Codes \cup {NoKey}]
    /\ \A s \in Slots : ks[s] # NoKey <=> Order(s) < Cardinality(Held)
    /\ \A s \in Slots : ks[s] # NoKey => \E t \in Held : ks[s] = keys[t]
    /\ NoDuplicates =>
          \A s, t \in Slots : ks[s] # NoKey /\ ks[s] = ks[t] => s = t

(* The usual shift.                                                        *)
LEMMA CompactedGathers == TypeOK => Gathered(Compacted)
<1> SUFFICES ASSUME TypeOK PROVE Gathered(Compacted)
  OBVIOUS
<1> DEFINE c == Cardinality(Held)
           src(s) == CHOOSE t \in Held : Rank(t) = Order(s)
<1>1. head \in Slots /\ keys \in [Slots -> Codes \cup {NoKey}] /\ Held \subseteq Slots
  BY DEF TypeOK, Held
<1>2. c \in 0 .. N
  BY <1>1, SlotSetFinite
<1>3. \A s \in Slots : Order(s) \in 0 .. N-1
  BY <1>1, OrderRange
<1>4. ASSUME NEW s \in Slots, Order(s) < c
      PROVE  src(s) \in Held /\ Rank(src(s)) = Order(s) /\ Compacted[s] = keys[src(s)]
  <2>1. Order(s) \in 0 .. c-1
    <3> HIDE DEF c
    <3> QED  BY <1>2, <1>3, <1>4, RingAssumption, SMT
  <2>2. \E t \in Held : Rank(t) = Order(s)
    BY <1>1, <2>1, RankNumbersHeld
  <2> QED  BY <2>2 DEF Compacted
<1>5. ASSUME NEW s \in Slots, ~ (Order(s) < c)
      PROVE  Compacted[s] = NoKey
  <2>1. Order(s) \notin 0 .. c-1
    <3> HIDE DEF c
    <3> QED  BY <1>2, <1>3, <1>5, RingAssumption, SMT
  <2>2. ~ \E t \in Held : Rank(t) = Order(s)
    BY <1>1, <2>1, RankNumbersHeld
  <2> QED  BY <2>2 DEF Compacted
<1>6. \A t \in Held : keys[t] \in Codes /\ keys[t] # NoKey
  BY <1>1 DEF Held
<1> HIDE DEF c, src
<1>7. \A s \in Slots : Compacted[s] \in Codes \cup {NoKey}
  BY <1>4, <1>5, <1>6
<1>8. \A s \in Slots : Compacted[s] # NoKey <=> Order(s) < c
  BY <1>4, <1>5, <1>6
<1>9. Compacted \in [Slots -> Codes \cup {NoKey}]
  BY <1>7 DEF Compacted
<1>10. ASSUME NoDuplicates, NEW s \in Slots, NEW t \in Slots,
              Compacted[s] # NoKey, Compacted[s] = Compacted[t]
       PROVE  s = t
  <2>1. src(s) \in Held /\ src(t) \in Held /\ keys[src(s)] = keys[src(t)]
    BY <1>4, <1>8, <1>10
  <2>2. src(s) = src(t)
    BY <1>10, <2>1 DEF NoDuplicates
  <2>3. Order(s) = Order(t)
    BY <1>4, <1>8, <1>10, <2>2
  <2> QED  BY <1>1, <2>3, OrderInjective
<1> QED  BY <1>4, <1>8, <1>9, <1>10 DEF Gathered, c

(* The shift that meets its only hole in the last slot of the turn.        *)
LEMMA RotatedGathers ==
    ASSUME TypeOK, tail = head, Held # Slots, First(Slots \ Held) = RO_DEC(tail)
    PROVE  Gathered(Rotated)
<1> DEFINE last == RO_DEC(tail)
           src(s) == IF Order(s) = N - 2 THEN head ELSE RO_INC(s)
<1>1. head \in Slots /\ keys \in [Slots -> Codes \cup {NoKey}] /\ Held \subseteq Slots
  BY DEF TypeOK, Held
<1>2. \A s \in Slots : Order(s) \in 0 .. N-1
  BY <1>1, OrderRange
<1>3. last \in Slots /\ Order(last) = N - 1 /\ Order(head) = 0
  BY <1>1, RingStep, OrderSteps
<1>4. last \in Slots \ Held /\ \A t \in Slots \ Held : N - 1 <= Order(t)
  BY <1>1, <1>3, FirstIsLeast
<1>5. \A t \in Slots \ Held : Order(t) = Order(last)
  BY <1>2, <1>3, <1>4, RingAssumption, SMT
<1>6. Held = Slots \ {last}
  <2>1. \A t \in Slots \ Held : t = last
    BY <1>1, <1>3, <1>5, OrderInjective
  <2> QED  BY <1>1, <1>4, <2>1
<1>7. Cardinality(Held) = N - 1
  BY <1>3, <1>6, SlotsFinite, FS_RemoveElement
<1>8. \A t \in Held : keys[t] \in Codes /\ keys[t] # NoKey
  BY <1>1 DEF Held
<1>9. ASSUME NEW s \in Slots, Order(s) < N - 1
      PROVE  /\ src(s) \in Held /\ Rotated[s] = keys[src(s)]
             /\ Order(src(s)) = IF Order(s) = N - 2 THEN 0 ELSE Order(s) + 1
  <2>1. src(s) \in Slots
    BY <1>1, RingStep
  <2>2. Order(src(s)) = IF Order(s) = N - 2 THEN 0 ELSE Order(s) + 1
    <3>1. CASE Order(s) = N - 2
      BY <1>3, <3>1
    <3>2. CASE Order(s) # N - 2
      <4>1. src(s) = RO_INC(s)
        BY <3>2
      <4>2. Order(RO_INC(s)) = Order(s) + 1
        <5>1. Order(s) # N - 1
          BY <1>2, <1>9, RingAssumption, SMT
        <5> QED  BY <1>1, <5>1, OrderSteps
      <4> QED  BY <3>2, <4>1, <4>2
    <3> QED  BY <3>1, <3>2
  <2>3. Order(src(s)) < N - 1
    BY <1>2, <1>9, <2>2, RingAssumption, SMT
  <2>4. src(s) # last
    BY <1>3, <2>1, <2>3, RingAssumption, SMT
  <2>5. Rotated[s] = keys[src(s)]
    BY <1>2, <1>9, RingAssumption, SMT DEF Rotated
  <2> QED  BY <1>6, <2>1, <2>2, <2>4, <2>5
<1>10. ASSUME NEW s \in Slots, ~ (Order(s) < N - 1)
       PROVE  Rotated[s] = NoKey
  BY <1>2, <1>10, RingAssumption, SMT DEF Rotated
<1> HIDE DEF src, last
<1>11. \A s \in Slots : Rotated[s] # NoKey <=> Order(s) < N - 1
  BY <1>8, <1>9, <1>10
<1>12. Rotated \in [Slots -> Codes \cup {NoKey}]
  <2>1. \A s \in Slots : Rotated[s] \in Codes \cup {NoKey}
    BY <1>8, <1>9, <1>10
  <2> QED  BY <2>1 DEF Rotated
<1>13. ASSUME NoDuplicates, NEW s \in Slots, NEW t \in Slots,
              Rotated[s] # NoKey, Rotated[s] = Rotated[t]
       PROVE  s = t
  <2>1. Order(s) < N - 1 /\ Order(t) < N - 1
    BY <1>11, <1>13
  <2>2. src(s) = src(t)
    BY <1>9, <1>13, <2>1 DEF NoDuplicates
  <2>3. Order(s) = Order(t)
    BY <1>2, <1>9, <2>1, <2>2, RingAssumption, SMT
  <2> QED  BY <1>1, <2>3, OrderInjective
<1> QED  BY <1>7, <1>9, <1>11, <1>12, <1>13 DEF Gathered

LEMMA ShiftedGathers ==
    ASSUME TypeOK, tail = head, Held # Slots
    PROVE  Gathered(Shifted)
BY CompactedGathers, RotatedGathers DEF Shifted

(* Where tail stops when it is moved back.                                 *)
LEMMA RetractedStops ==
    ASSUME NEW ks, NEW h \in Slots, NEW t \in Slots
    PROVE  LET left == {s \in Turn(h, t) : ks[s] # NoKey}
           IN  \/ left = {} /\ Retracted(ks, h, t) = h
               \/ \E m \in left : /\ Retracted(ks, h, t) = RO_INC(m)
                                 /\ \A r \in left : RO_SUB(r, h) <= RO_SUB(m, h)
<1> DEFINE left == {s \in Turn(h, t) : ks[s] # NoKey}
           m == CHOOSE s \in left : \A r \in left : RO_SUB(r, h) <= RO_SUB(s, h)
<1>1. left \subseteq Slots
  BY DEF Turn
<1>2. CASE left = {}
  BY <1>2 DEF Retracted
<1>3. CASE left # {}
  <2>1. \E s \in left : \A r \in left : RO_SUB(r, h) <= RO_SUB(s, h)
    <3> HIDE DEF left
    <3> QED  BY <1>1, <1>3, LastExists
  <2>2. m \in left /\ \A r \in left : RO_SUB(r, h) <= RO_SUB(m, h)
    <3> HIDE DEF left
    <3> QED  BY <2>1
  <2>3. Retracted(ks, h, t) = RO_INC(m)
    BY <1>3 DEF Retracted
  <2> HIDE DEF m
  <2> QED  BY <2>2, <2>3
<1> QED  BY <1>2, <1>3

LEMMA RetractedType ==
    ASSUME NEW ks, NEW h \in Slots, NEW t \in Slots
    PROVE  Retracted(ks, h, t) \in Slots
<1>1. Turn(h, t) \subseteq Slots
  BY DEF Turn
<1> QED  BY <1>1, RetractedStops, RingStep

-----------------------------------------------------------------------------
(* TypeOK                                                                  *)

LEMMA PutAtType ==
    ASSUME NEW ks \in [Slots -> Codes \cup {NoKey}], NEW slot \in Slots,
           NEW key \in Codes, PutAt(ks, slot, key)
    PROVE  keys' \in [Slots -> Codes \cup {NoKey}] /\ tail' \in Slots
BY RingStep DEF PutAt

LEMMA CountType ==
    ASSUME NEW c \in Int
    PROVE  c % CountMod \in 0 .. CountMod-1
BY ModRange, RingAssumption, SMT

LEMMA TypeInit == Init => TypeOK
BY RingAssumption, SMT DEF Init, TypeOK, Slots

LEMMA AddType ==
    ASSUME TypeOK, NEW key \in Codes, add_key_byte(key)
    PROVE  TypeOK'
<1>1. /\ keys \in [Slots -> Codes \cup {NoKey}]
      /\ head \in Slots /\ tail \in Slots
      /\ count \in 0 .. CountMod-1 /\ clears \in 0 .. MaxClears
  BY DEF TypeOK
<1>2. clears' = clears /\ down' \subseteq Codes
  BY DEF add_key_byte, TypeOK
<1>3. (count + 1) % CountMod \in 0 .. CountMod-1
  <2>1. count + 1 \in Int
    BY <1>1, RingAssumption, SMT
  <2> QED  BY <2>1, CountType
<1>4. CASE AddPresent(key)
  BY <1>1, <1>2, <1>4 DEF AddPresent, TypeOK
<1>5. CASE AddFree(key)
  BY <1>1, <1>2, <1>3, <1>5, PutAtType DEF AddFree, TypeOK
<1>6. CASE AddPop(key)
  BY <1>1, <1>2, <1>6, PutAtType, RingStep DEF AddPop, TypeOK
<1>7. CASE AddShift(key)
  <2>1. Shifted \in [Slots -> Codes \cup {NoKey}]
    BY <1>7, ShiftedGathers DEF AddShift, Full, Gathered
  <2>2. RO_SUB(tail, N - Cardinality(Held)) \in Slots
    <3>1. Held \subseteq Slots
      BY DEF Held
    <3>2. N - Cardinality(Held) \in 0 .. N
      BY <3>1, SlotSetFinite, RingAssumption, SMT
    <3> QED  BY <1>1, <3>2, RingSub
  <2>3. keys' \in [Slots -> Codes \cup {NoKey}] /\ tail' \in Slots
    BY <1>7, <2>1, <2>2, PutAtType DEF AddShift
  <2> QED  BY <1>1, <1>2, <1>3, <1>7, <2>3 DEF AddShift, TypeOK
<1> QED  BY <1>4, <1>5, <1>6, <1>7 DEF add_key_byte

LEMMA DelType ==
    ASSUME TypeOK, NEW key \in Codes, del_key_byte(key)
    PROVE  TypeOK'
<1>1. /\ keys \in [Slots -> Codes \cup {NoKey}]
      /\ head \in Slots /\ tail \in Slots
      /\ count \in 0 .. CountMod-1 /\ clears \in 0 .. MaxClears
  BY DEF TypeOK
<1>2. clears' = clears /\ down' \subseteq Codes
  BY DEF del_key_byte, TypeOK
<1>3. CASE DelMissing(key)
  BY <1>1, <1>2, <1>3 DEF DelMissing, TypeOK
<1>4. CASE DelPresent(key)
  <2> DEFINE at  == First({s \in Scanned : keys[s] = key})
             ks == [keys EXCEPT ![at] = NoKey]
             c  == (count - 1) % CountMod
             h  == IF c = 0 THEN 0 ELSE head
             t  == IF c = 0 THEN 0 ELSE tail
  <2>1. /\ keys' = ks /\ count' = c /\ head' = h
        /\ tail' = IF at = RO_DEC(t) THEN Retracted(ks, h, t) ELSE t
    BY <1>4 DEF DelPresent
  <2>2. ks \in [Slots -> Codes \cup {NoKey}]
    BY <1>1
  <2>3. c \in 0 .. CountMod-1
    <3>1. count - 1 \in Int
      BY <1>1, RingAssumption, SMT
    <3> QED  BY <3>1, CountType
  <2>4. h \in Slots /\ t \in Slots
    BY <1>1, RingAssumption, SMT DEF Slots
  <2> HIDE DEF at, ks, c, h, t
  <2>5. Retracted(ks, h, t) \in Slots
    BY <2>4, RetractedType
  <2> QED  BY <1>1, <1>2, <2>1, <2>2, <2>3, <2>4, <2>5 DEF TypeOK
<1> QED  BY <1>3, <1>4 DEF del_key_byte

LEMMA ClearType ==
    ASSUME TypeOK, clear_keys
    PROVE  TypeOK'
BY RingAssumption, SMT DEF TypeOK, clear_keys

(* The ring's variables keep their types, also when cb_count wraps.        *)
THEOREM TypeCorrect == Spec => []TypeOK
<1>1. TypeOK /\ [Next]_vars => TypeOK'
  <2> SUFFICES ASSUME TypeOK, [Next]_vars PROVE TypeOK'
    OBVIOUS
  <2>1. ASSUME NEW key \in Codes, add_key_byte(key) PROVE TypeOK'
    BY <2>1, AddType
  <2>2. ASSUME NEW key \in Codes, del_key_byte(key) PROVE TypeOK'
    BY <2>2, DelType
  <2>3. CASE clear_keys
    BY <2>3, ClearType
  <2>4. CASE UNCHANGED vars
    BY <2>4 DEF vars, TypeOK
  <2> QED  BY <2>1, <2>2, <2>3, <2>4 DEF Next
<1> QED  BY <1>1, TypeInit, PTL DEF Spec

-----------------------------------------------------------------------------
(* The invariant.  It needs a bound on the clears: each one leaves cb_count *)
(* up to N too high, and nothing brings it back before it wraps.           *)

FewClears == N * (MaxClears + 1) < CountMod

RingInv == TypeOK /\ NoDuplicates /\ HeldIsScanned /\ CountCoversHeld

(* While cb_count does not wrap, it can be counted up and down freely.     *)
LEMMA CountRoom ==
    ASSUME FewClears, RingInv
    PROVE  /\ Cardinality(Held) \in 0 .. N
           /\ N * clears \in Nat
           /\ Cardinality(Held) # N => count + 1 < CountMod
           /\ count = 0 => Held = {}
<1>1. clears \in 0 .. MaxClears /\ count \in 0 .. CountMod-1 /\ Held \subseteq Slots
  BY DEF RingInv, TypeOK, Held
<1>2. N * clears \in Nat /\ N * clears <= N * MaxClears /\ N * MaxClears \in Nat
  BY <1>1, RingAssumption, SMT
<1>3. N * (MaxClears + 1) = N * MaxClears + N
  BY RingAssumption, SMT
<1>4. Cardinality(Held) \in 0 .. N /\ (Cardinality(Held) = 0 <=> Held = {})
  BY <1>1, SlotSetFinite
<1>5. Cardinality(Held) <= count /\ count <= Cardinality(Held) + N * clears
  BY DEF RingInv, CountCoversHeld
<1>6. count = 0 => Cardinality(Held) = 0
  BY <1>1, <1>4, <1>5, RingAssumption, SMT
<1>7. Cardinality(Held) # N => count + 1 < CountMod
  <2> DEFINE x == N * clears
             y == N * MaxClears
             d == Cardinality(Held)
  <2>1. /\ x \in Nat /\ y \in Nat /\ x <= y /\ y + N < CountMod
        /\ d \in 0 .. N /\ count <= d + x
    BY <1>2, <1>3, <1>4, <1>5 DEF FewClears
  <2> HIDE DEF x, y, d
  <2>2. d # N => count + 1 < CountMod
    BY <1>1, <2>1, RingAssumption, SMT
  <2> QED  BY <2>2 DEF d
<1> QED  BY <1>2, <1>4, <1>6, <1>7

(* A code that the search loop does not meet is not in the report.         *)
LEMMA AbsentIsNotHeld ==
    ASSUME FewClears, RingInv, NEW key \in Codes, ~Present(key)
    PROVE  \A s \in Slots : keys[s] # key
<1>1. key # NoKey
  BY RingAssumption
<1>2. CASE count = 0
  BY <1>1, <1>2, CountRoom DEF Held
<1>3. CASE count # 0
  BY <1>1, <1>3 DEF Present, RingInv, HeldIsScanned, Held
<1> QED  BY <1>2, <1>3

(* The one slot of a code that it does meet.                               *)
LEMMA PresentIsFound ==
    ASSUME RingInv, NEW key \in Codes, Present(key)
    PROVE  LET at == First({s \in Scanned : keys[s] = key})
           IN  at \in Held /\ keys[at] = key /\ \A s \in Slots : keys[s] = key => s = at
<1> DEFINE S == {s \in Scanned : keys[s] = key}
           at == First(S)
<1>1. S \subseteq Slots /\ S # {}
  BY DEF Present, Scanned, Turn
<1>2. head \in Slots
  BY DEF RingInv, TypeOK
<1>3. at \in S
  <2> HIDE DEF S
  <2> QED  BY <1>1, <1>2, FirstIsLeast
<1>4. keys[at] = key /\ at \in Slots
  <2>1. keys[at] = key
    BY <1>3
  <2>2. at \in Slots
    BY <1>1, <1>3
  <2> QED  BY <2>1, <2>2
<1> HIDE DEF S, at
<1>5. at \in Held /\ \A s \in Slots : keys[s] = key => s = at
  BY <1>4, RingAssumption DEF Held, RingInv, NoDuplicates
<1> QED  BY <1>4, <1>5 DEF at, S

(* The loops that stop behind slot t visit the slots up to t.              *)
LEMMA TurnBehind ==
    ASSUME NEW h \in Slots, NEW t \in Slots, NEW s \in Slots
    PROVE  s \in Turn(h, RO_INC(t)) <=> RO_SUB(s, h) <= RO_SUB(t, h)
<1> DEFINE u == RO_INC(t)
<1>1. u \in Slots /\ u = IF t = N-1 THEN 0 ELSE t + 1
  BY RingStep
<1>2. RO_SUB(s, h) = (IF s >= h THEN s - h ELSE s - h + N)
  BY RingDistance
<1>3. RO_SUB(t, h) = (IF t >= h THEN t - h ELSE t - h + N)
  BY RingDistance
<1>4. RO_SUB(u, h) = (IF u >= h THEN u - h ELSE u - h + N)
  BY <1>1, RingDistance
<1>5. s \in Turn(h, u) <=> u = h \/ RO_SUB(s, h) < RO_SUB(u, h)
  BY DEF Turn
<1> HIDE DEF u
<1>6. s \in Turn(h, u) <=> RO_SUB(s, h) <= RO_SUB(t, h)
  BY <1>1, <1>2, <1>3, <1>4, <1>5, RingAssumption, SMT DEF Slots
<1> QED  BY <1>6 DEF u

LEMMA TurnNotTail ==
    ASSUME NEW h \in Slots, NEW t \in Slots, t # h
    PROVE  t \notin Turn(h, t)
BY RingSub, RingAssumption, SMT DEF Turn, Slots

LEMMA InvAddFree ==
    ASSUME FewClears, RingInv, NEW key \in Codes, AddFree(key), clears' = clears,
           TypeOK'
    PROVE  RingInv'
<1>1. /\ keys \in [Slots -> Codes \cup {NoKey}] /\ head \in Slots /\ tail \in Slots
      /\ count \in 0 .. CountMod-1
  BY DEF RingInv, TypeOK
<1>2. /\ keys' = [keys EXCEPT ![tail] = key] /\ tail' = RO_INC(tail)
      /\ head' = head /\ count' = (count + 1) % CountMod
  BY DEF AddFree, PutAt
<1>3. tail \notin Held /\ Held \subseteq Slots
  <2>1. CASE count = 0
    BY <2>1, CountRoom DEF Held
  <2>2. CASE count # 0
    <3>1. tail # head
      BY <2>2 DEF AddFree, Full
    <3>2. tail \notin Scanned
      BY <1>1, <3>1, TurnNotTail DEF Scanned
    <3> QED  BY <3>2 DEF RingInv, HeldIsScanned, Held
  <2> QED  BY <2>1, <2>2
<1>4. key # NoKey
  BY RingAssumption
<1>5. Held' = Held \cup {tail}
  BY <1>1, <1>2, <1>4 DEF Held
<1>6. NoDuplicates'
  <2>1. \A s \in Slots : keys[s] # key
    BY AbsentIsNotHeld DEF AddFree
  <2> QED  BY <1>1, <1>2, <1>3, <1>5, <2>1 DEF NoDuplicates, RingInv
<1>7. HeldIsScanned'
  <2> SUFFICES ASSUME NEW s \in Held' PROVE s \in Turn(head, RO_INC(tail))
    BY <1>2 DEF HeldIsScanned, Scanned
  <2>1. s \in Slots
    BY <1>1, <1>3, <1>5
  <2>2. RO_SUB(s, head) \in 0 .. N-1 /\ RO_SUB(tail, head) \in 0 .. N-1
    BY <1>1, <2>1, RingDistance
  <2>3. CASE s = tail
    <3>1. RO_SUB(s, head) <= RO_SUB(tail, head)
      BY <2>2, <2>3, RingAssumption, SMT
    <3> QED  BY <1>1, <2>1, <3>1, TurnBehind
  <2>4. CASE s \in Held
    <3>1. count # 0
      BY <2>4, CountRoom
    <3>2. tail # head
      BY <3>1 DEF AddFree, Full
    <3>3. RO_SUB(s, head) < RO_SUB(tail, head)
      BY <2>4, <3>2 DEF RingInv, HeldIsScanned, Scanned, Turn
    <3>4. RO_SUB(s, head) <= RO_SUB(tail, head)
      BY <2>2, <3>3, RingAssumption, SMT
    <3> QED  BY <1>1, <2>1, <3>4, TurnBehind
  <2> QED  BY <1>5, <2>3, <2>4
<1>8. CountCoversHeld'
  <2>1. IsFiniteSet(Held) /\ Cardinality(Held) \in 0 .. N /\ Cardinality(Held) # N
    BY <1>1, <1>3, SlotSetFinite
  <2>2. Cardinality(Held') = Cardinality(Held) + 1
    BY <1>3, <1>5, <2>1, FS_AddElement
  <2>3. count' = count + 1
    <3>1. count + 1 < CountMod
      BY <2>1, CountRoom
    <3>2. count + 1 \in 0 .. 2 * CountMod - 1
      BY <1>1, <3>1, RingAssumption, SMT
    <3> QED  BY <1>2, <3>1, <3>2, ModOnce, RingAssumption, SMT
  <2>4. /\ Cardinality(Held) <= count /\ count <= Cardinality(Held) + N * clears
        /\ N * clears \in Nat
    BY CountRoom DEF RingInv, CountCoversHeld
  <2> DEFINE x == N * clears
             d == Cardinality(Held)
             e == Cardinality(Held')
  <2>5. N * clears' = x
    BY DEF x
  <2> HIDE DEF x, d, e
  <2>6. e <= count' /\ count' <= e + x
    BY <1>1, <2>1, <2>2, <2>3, <2>4, RingAssumption, SMT DEF d, e, x
  <2> QED  BY <2>5, <2>6 DEF CountCoversHeld, e
<1> QED  BY <1>6, <1>7, <1>8 DEF RingInv

LEMMA InvAddPop ==
    ASSUME FewClears, RingInv, NEW key \in Codes, AddPop(key), clears' = clears,
           TypeOK'
    PROVE  RingInv'
<1>1. /\ keys \in [Slots -> Codes \cup {NoKey}] /\ head \in Slots
      /\ tail = head /\ Held = Slots
  BY DEF RingInv, TypeOK, AddPop, Full
<1>2. /\ keys' = [keys EXCEPT ![head] = key] /\ count' = count
      /\ head' = RO_INC(head) /\ tail' = RO_INC(head)
  BY <1>1 DEF AddPop, PutAt
<1>3. key # NoKey
  BY RingAssumption
<1>4. Held' = Slots
  BY <1>1, <1>2, <1>3 DEF Held
<1>5. NoDuplicates'
  <2>1. \A s \in Slots : keys[s] # key
    BY AbsentIsNotHeld DEF AddPop
  <2> QED  BY <1>1, <1>2, <1>4, <2>1 DEF NoDuplicates, RingInv
<1>6. HeldIsScanned'
  BY <1>2, <1>4 DEF HeldIsScanned, Scanned, Turn
<1>7. CountCoversHeld'
  BY <1>1, <1>2, <1>4 DEF CountCoversHeld, RingInv
<1> QED  BY <1>5, <1>6, <1>7 DEF RingInv

(* The slots of the first c turns are c slots, and slot c behind the tail  *)
(* of a full turn is the next one.                                         *)
LEMMA FirstTurns ==
    ASSUME head \in Slots, NEW c \in 0 .. N-1
    PROVE  /\ Cardinality({s \in Slots : Order(s) < c}) = c
           /\ RO_SUB(head, N - c) \in Slots
           /\ Order(RO_SUB(head, N - c)) = c
<1> DEFINE S == {s \in Slots : Order(s) < c}
           I == 0 .. c-1
           f == [s \in S |-> Order(s)]
<1>1. \A s \in Slots : Order(s) \in 0 .. N-1
  BY OrderRange
<1>2. f \in Injection(S, I)
  <2>1. f \in [S -> I]
    BY <1>1, RingAssumption, SMT
  <2>2. \A s, t \in S : f[s] = f[t] => s = t
    BY OrderInjective
  <2> QED  BY <2>1, <2>2 DEF Injection, IsInjective
<1>3. f \in Surjection(S, I)
  <2>1. f \in [S -> I]
    BY <1>1, RingAssumption, SMT
  <2>2. ASSUME NEW n \in I PROVE \E s \in S : f[s] = n
    <3> DEFINE s == IF head + n < N THEN head + n ELSE head + n - N
    <3>1. s \in Slots
      BY RingAssumption, SMT DEF Slots
    <3>2. Order(s) = IF s >= head THEN s - head ELSE s - head + N
      <4> HIDE DEF s
      <4> QED  BY <3>1, OrderRange
    <3>3. Order(s) = n
      BY <3>1, <3>2, RingAssumption, SMT DEF Slots
    <3>4. n < c
      BY RingAssumption, SMT
    <3> HIDE DEF s
    <3>5. s \in S /\ f[s] = n
      BY <3>1, <3>3, <3>4
    <3> QED  BY <3>5
  <2> QED  BY <2>1, <2>2 DEF Surjection
<1>4. IsFiniteSet(I) /\ Cardinality(I) = c
  <2>1. 0 \in Int /\ c-1 \in Int
    BY RingAssumption, SMT
  <2> QED  BY <2>1, FS_Interval, RingAssumption, SMT
<1>5. Cardinality(S) = c
  <2> HIDE DEF f, I, S
  <2> QED  BY <1>2, <1>3, <1>4, FS_Injection
<1>6. N - c \in 0 .. N
  BY RingAssumption, SMT
<1> DEFINE slot == RO_SUB(head, N - c)
<1>7. /\ slot \in Slots
      /\ slot = IF head >= N - c THEN head - (N - c) ELSE head - (N - c) + N
  BY <1>6, RingSub
<1> HIDE DEF slot
<1>8. Order(slot) = IF slot >= head THEN slot - head ELSE slot - head + N
  BY <1>7, OrderRange
<1>9. Order(slot) = c
  BY <1>7, <1>8, RingAssumption, SMT DEF Slots
<1> QED  BY <1>5, <1>7, <1>9 DEF slot

LEMMA InvAddShift ==
    ASSUME FewClears, RingInv, NEW key \in Codes, AddShift(key), clears' = clears,
           TypeOK'
    PROVE  RingInv'
<1> DEFINE c == Cardinality(Held)
           slot == RO_SUB(head, N - c)
<1>1. /\ head \in Slots /\ tail = head /\ Held # Slots /\ Held \subseteq Slots
      /\ count \in 0 .. CountMod-1
  BY DEF RingInv, TypeOK, AddShift, Full, Held
<1>2. c \in 0 .. N /\ c # N
  BY <1>1, SlotSetFinite
<1>3. c \in 0 .. N-1
  <2> HIDE DEF c
  <2> QED  BY <1>2, RingAssumption, SMT
<1>4. Gathered(Shifted)
  BY <1>1, ShiftedGathers DEF RingInv
<1>5. /\ keys' = [Shifted EXCEPT ![slot] = key] /\ tail' = RO_INC(slot)
      /\ head' = head /\ count' = (count + 1) % CountMod
  BY <1>1 DEF AddShift, PutAt
<1> HIDE DEF c, slot
<1>6. slot \in Slots /\ Order(slot) = c /\ Cardinality({s \in Slots : Order(s) < c}) = c
  BY <1>1, <1>3, FirstTurns DEF slot
<1>7. key # NoKey
  BY RingAssumption
<1>8. \A s \in Slots : Shifted[s] # NoKey <=> Order(s) < c
  BY <1>4 DEF Gathered, c
<1>9. Held' = {s \in Slots : Order(s) < c} \cup {slot}
  BY <1>4, <1>5, <1>6, <1>7, <1>8 DEF Held, Gathered
<1>10. \A s \in Slots : Order(s) \in 0 .. N-1
  BY <1>1, OrderRange
<1>11. slot \notin {s \in Slots : Order(s) < c}
  BY <1>3, <1>6, RingAssumption, SMT
<1>12. NoDuplicates'
  <2>1. \A s \in Slots : keys[s] # key
    BY AbsentIsNotHeld DEF AddShift
  <2>2. \A s \in Slots : Shifted[s] # key
    BY <1>4, <1>7, <2>1 DEF Gathered, Held
  <2>3. \A s, t \in Slots : Shifted[s] # NoKey /\ Shifted[s] = Shifted[t] => s = t
    BY <1>4 DEF Gathered, RingInv
  <2>4. \A s \in Slots : keys'[s] = IF s = slot THEN key ELSE Shifted[s]
    BY <1>4, <1>5 DEF Gathered
  <2>5. ASSUME NEW s \in Held', NEW t \in Held', keys'[s] = keys'[t]
        PROVE  s = t
    <3>1. s \in Slots /\ t \in Slots /\ keys'[s] # NoKey
      BY <2>5 DEF Held
    <3> QED  BY <2>2, <2>3, <2>4, <2>5, <3>1
  <2> QED  BY <2>5 DEF NoDuplicates
<1>13. HeldIsScanned'
  <2> SUFFICES ASSUME NEW s \in Held' PROVE s \in Turn(head, RO_INC(slot))
    BY <1>5 DEF HeldIsScanned, Scanned
  <2>1. s \in Slots /\ Order(s) <= Order(slot)
    BY <1>3, <1>6, <1>9, <1>10, RingAssumption, SMT
  <2> QED  BY <1>1, <1>6, <2>1, TurnBehind DEF Order
<1>14. CountCoversHeld'
  <2> DEFINE S == {s \in Slots : Order(s) < c}
             x == N * clears
             e == Cardinality(Held')
  <2>1. e = c + 1
    <3>1. IsFiniteSet(S)
      BY SlotSetFinite
    <3> QED  BY <1>6, <1>9, <1>11, <3>1, FS_AddElement
  <2>2. count' = count + 1
    <3>1. count + 1 < CountMod
      BY <1>2, CountRoom DEF c
    <3>2. count + 1 \in 0 .. 2 * CountMod - 1
      BY <1>1, <3>1, RingAssumption, SMT
    <3> QED  BY <1>5, <3>1, <3>2, ModOnce, RingAssumption, SMT
  <2>3. c <= count /\ count <= c + x /\ x \in Nat /\ N * clears' = x
    BY CountRoom DEF RingInv, CountCoversHeld, c
  <2> HIDE DEF x, e
  <2>4. e <= count' /\ count' <= e + x
    BY <1>1, <1>3, <2>1, <2>2, <2>3, RingAssumption, SMT
  <2> QED  BY <2>3, <2>4 DEF CountCoversHeld, e
<1> QED  BY <1>12, <1>13, <1>14 DEF RingInv

LEMMA InvDelPresent ==
    ASSUME FewClears, RingInv, NEW key \in Codes, DelPresent(key), clears' = clears,
           TypeOK'
    PROVE  RingInv' /\ \A s \in Slots : keys'[s] # key
<1> DEFINE at  == First({s \in Scanned : keys[s] = key})
           ks == [keys EXCEPT ![at] = NoKey]
           c  == (count - 1) % CountMod
           h  == IF c = 0 THEN 0 ELSE head
           t  == IF c = 0 THEN 0 ELSE tail
<1>1. /\ keys \in [Slots -> Codes \cup {NoKey}] /\ head \in Slots /\ tail \in Slots
      /\ count \in 0 .. CountMod-1 /\ Held \subseteq Slots
  BY DEF RingInv, TypeOK, Held
<1>2. /\ keys' = ks /\ count' = c /\ head' = h
      /\ tail' = IF at = RO_DEC(t) THEN Retracted(ks, h, t) ELSE t
  BY DEF DelPresent
<1>3. at \in Held /\ keys[at] = key /\ \A s \in Slots : keys[s] = key => s = at
  BY PresentIsFound DEF DelPresent
<1>4. count # 0
  BY DEF DelPresent, Present
<1>5. h \in Slots /\ t \in Slots
  BY <1>1, RingAssumption, SMT DEF Slots
<1>6. c = count - 1
  <2>1. count - 1 \in 0 .. 2 * CountMod - 1
    BY <1>1, <1>4, RingAssumption, SMT
  <2> QED  BY <1>1, <2>1, ModOnce, RingAssumption, SMT
<1>7. c = 0 \/ (h = head /\ t = tail)
  OBVIOUS
<1>8. c = 0 => h = t
  OBVIOUS
<1> HIDE DEF at, h, t, c
<1>9. key # NoKey
  BY RingAssumption
<1>10. Held' = Held \ {at}
  BY <1>1, <1>2, <1>3 DEF Held
<1>11. \A s \in Slots : keys'[s] # key
  BY <1>1, <1>2, <1>3, <1>9
<1>12. NoDuplicates'
  BY <1>1, <1>2, <1>3, <1>10 DEF NoDuplicates, RingInv, Held
<1>13. /\ IsFiniteSet(Held) /\ Cardinality(Held) \in 0 .. N
       /\ Cardinality(Held') = Cardinality(Held) - 1
  BY <1>1, <1>3, <1>10, SlotSetFinite, FS_RemoveElement
<1>14. CountCoversHeld'
  <2> DEFINE d == Cardinality(Held)
             e == Cardinality(Held')
             x == N * clears
  <2>1. d <= count /\ count <= d + x /\ x \in Nat /\ N * clears' = x
    BY CountRoom DEF RingInv, CountCoversHeld
  <2>2. d \in 0 .. N /\ e = d - 1
    BY <1>13
  <2> HIDE DEF d, e, x
  <2>3. e <= count' /\ count' <= e + x
    BY <1>1, <1>2, <1>6, <2>1, <2>2, RingAssumption, SMT
  <2> QED  BY <2>1, <2>3 DEF CountCoversHeld, e
<1>15. Held' \subseteq Turn(h, t)
  <2>1. CASE c = 0
    BY <1>1, <1>8, <1>10, <2>1 DEF Turn
  <2>2. CASE c # 0
    BY <1>7, <1>10, <2>2 DEF RingInv, HeldIsScanned, Scanned
  <2> QED  BY <2>1, <2>2
<1>16. HeldIsScanned'
  <2>1. CASE at # RO_DEC(t)
    BY <1>2, <1>15, <2>1 DEF HeldIsScanned, Scanned
  <2>2. CASE at = RO_DEC(t)
    <3> DEFINE left == {s \in Turn(h, t) : ks[s] # NoKey}
    <3>1. Held' = left
      BY <1>2, <1>15 DEF Held, Turn
    <3>2. head' = h /\ tail' = Retracted(ks, h, t)
      BY <1>2, <2>2
    <3>3. \/ left = {} /\ tail' = h
          \/ \E m \in left : /\ tail' = RO_INC(m)
                            /\ \A r \in left : RO_SUB(r, h) <= RO_SUB(m, h)
      BY <1>5, <3>2, RetractedStops
    <3>4. left \subseteq Slots
      BY DEF Turn
    <3> HIDE DEF left, ks
    <3>5. CASE left = {}
      BY <3>1, <3>5 DEF HeldIsScanned
    <3>6. CASE left # {}
      <4>1. PICK m \in left : /\ tail' = RO_INC(m)
                              /\ \A r \in left : RO_SUB(r, h) <= RO_SUB(m, h)
        BY <3>3, <3>6
      <4>2. \A r \in left : r \in Turn(h, RO_INC(m))
        BY <1>5, <3>4, <4>1, TurnBehind
      <4> QED  BY <3>1, <3>2, <4>1, <4>2 DEF HeldIsScanned, Scanned
    <3> QED  BY <3>5, <3>6
  <2> QED  BY <2>1, <2>2
<1> QED  BY <1>11, <1>12, <1>14, <1>16 DEF RingInv

LEMMA InvClear ==
    ASSUME FewClears, RingInv, clear_keys, TypeOK'
    PROVE  RingInv'
<1>1. Held' = {}
  BY DEF clear_keys, Held
<1>2. NoDuplicates' /\ HeldIsScanned'
  BY <1>1 DEF NoDuplicates, HeldIsScanned
<1>3. CountCoversHeld'
  <2> DEFINE x == N * clears
             d == Cardinality(Held)
  <2>1. count \in Nat /\ clears \in Nat /\ count' = count /\ clears' = clears + 1
    BY RingAssumption, SMT DEF clear_keys, RingInv, TypeOK
  <2>2. d \in 0 .. N /\ count <= d + x /\ x \in Nat
    BY CountRoom DEF RingInv, CountCoversHeld
  <2>3. N * clears' = x + N
    BY <2>1, RingAssumption, SMT
  <2>4. Cardinality(Held') = 0
    BY <1>1, FS_EmptySet
  <2> HIDE DEF x, d
  <2>5. 0 <= count' /\ count' <= 0 + (x + N)
    BY <2>1, <2>2, RingAssumption, SMT
  <2> QED  BY <2>3, <2>4, <2>5 DEF CountCoversHeld
<1> QED  BY <1>2, <1>3 DEF RingInv

LEMMA InvInit == Init => RingInv
<1> SUFFICES ASSUME Init PROVE RingInv
  OBVIOUS
<1>1. TypeOK /\ Held = {} /\ count = 0 /\ clears = 0
  BY TypeInit DEF Init, Held
<1>2. CountCoversHeld
  <2>1. Cardinality(Held) = 0
    BY <1>1, FS_EmptySet
  <2>2. 0 <= 0 /\ 0 <= 0 + N * 0
    BY RingAssumption, SMT
  <2> QED  BY <1>1, <2>1, <2>2 DEF CountCoversHeld
<1> QED  BY <1>1, <1>2 DEF RingInv, NoDuplicates, HeldIsScanned

LEMMA InvStep ==
    ASSUME FewClears, RingInv, [Next]_vars
    PROVE  RingInv'
<1>1. TypeOK
  BY DEF RingInv
<1>2. ASSUME NEW key \in Codes, add_key_byte(key) PROVE RingInv'
  <2>1. TypeOK' /\ clears' = clears
    BY <1>1, <1>2, AddType DEF add_key_byte
  <2>2. CASE AddPresent(key)
    BY <2>1, <2>2 DEF AddPresent, RingInv, NoDuplicates, HeldIsScanned, Scanned,
                      CountCoversHeld, Held
  <2>3. CASE AddFree(key)
    BY <2>1, <2>3, InvAddFree
  <2>4. CASE AddPop(key)
    BY <2>1, <2>4, InvAddPop
  <2>5. CASE AddShift(key)
    BY <2>1, <2>5, InvAddShift
  <2> QED  BY <1>2, <2>2, <2>3, <2>4, <2>5 DEF add_key_byte
<1>3. ASSUME NEW key \in Codes, del_key_byte(key) PROVE RingInv'
  <2>1. TypeOK' /\ clears' = clears
    BY <1>1, <1>3, DelType DEF del_key_byte
  <2>2. CASE DelMissing(key)
    BY <2>1, <2>2 DEF DelMissing, RingInv, NoDuplicates, HeldIsScanned, Scanned,
                      CountCoversHeld, Held
  <2>3. CASE DelPresent(key)
    BY <2>1, <2>3, InvDelPresent
  <2> QED  BY <1>3, <2>2, <2>3 DEF del_key_byte
<1>4. CASE clear_keys
  BY <1>1, <1>4, ClearType, InvClear
<1>5. CASE UNCHANGED vars
  BY <1>5 DEF vars, RingInv, TypeOK, NoDuplicates, HeldIsScanned, Scanned,
              CountCoversHeld, Held
<1> QED  BY <1>2, <1>3, <1>4, <1>5 DEF Next

(* The invariant holds for any number of slots and codes, as long as the   *)
(* clears are too few to take cb_count to its wrap: with six slots and an  *)
(* int8_t, up to 41 of them.                                               *)
LEMMA RingInvariant ==
    ASSUME FewClears
    PROVE  Spec => []RingInv
BY InvInit, InvStep, PTL DEF Spec

(* No two slots report the same code.                                      *)
THEOREM NeverTwice ==
    ASSUME FewClears
    PROVE  Spec => []NoDuplicates
<1>1. RingInv => NoDuplicates
  BY DEF RingInv
<1> QED  BY <1>1, RingInvariant, PTL

(* Every reported key lies between head and tail.                          *)
THEOREM NeverOutside ==
    ASSUME FewClears
    PROVE  Spec => []HeldIsScanned
<1>1. RingInv => HeldIsScanned
  BY DEF RingInv
<1> QED  BY <1>1, RingInvariant, PTL

(* cb_count is the number of reported keys plus at most N for each clear.  *)
THEOREM DriftBounded ==
    ASSUME FewClears
    PROVE  Spec => []CountCoversHeld
<1>1. RingInv => CountCoversHeld
  BY DEF RingInv
<1> QED  BY <1>1, RingInvariant, PTL

(* An addition puts no other code into the report than its own.            *)
LEMMA AddBringsOne ==
    ASSUME RingInv, NEW key \in Codes, add_key_byte(key), NEW s \in Held'
    PROVE  keys'[s] = key \/ \E t \in Held : keys'[s] = keys[t]
<1>1. keys \in [Slots -> Codes \cup {NoKey}] /\ head \in Slots /\ tail \in Slots
  BY DEF RingInv, TypeOK
<1>2. s \in Slots /\ keys'[s] # NoKey
  BY DEF Held
<1>3. CASE AddPresent(key)
  BY <1>2, <1>3 DEF AddPresent, Held
<1>4. CASE AddFree(key) \/ AddPop(key)
  BY <1>1, <1>2, <1>4 DEF AddFree, AddPop, PutAt, Held
<1>5. CASE AddShift(key)
  <2>1. Gathered(Shifted)
    BY <1>5, ShiftedGathers DEF RingInv, AddShift, Full
  <2> DEFINE slot == RO_SUB(tail, N - Cardinality(Held))
  <2>2. keys' = [Shifted EXCEPT ![slot] = key]
    BY <1>5 DEF AddShift, PutAt
  <2> HIDE DEF slot
  <2>3. keys'[s] = key \/ keys'[s] = Shifted[s]
    BY <1>2, <2>1, <2>2 DEF Gathered
  <2> QED  BY <1>2, <2>1, <2>3 DEF Gathered
<1> QED  BY <1>3, <1>4, <1>5 DEF add_key_byte

(* A release brings none and takes its own code out.                       *)
LEMMA DelTakesOne ==
    ASSUME FewClears, RingInv, NEW key \in Codes, del_key_byte(key), NEW s \in Held'
    PROVE  keys'[s] # key /\ s \in Held /\ keys'[s] = keys[s]
<1>1. TypeOK' /\ clears' = clears
  BY DelType DEF RingInv, del_key_byte
<1>2. CASE DelMissing(key)
  BY <1>2, AbsentIsNotHeld DEF DelMissing, Held
<1>3. CASE DelPresent(key)
  <2> DEFINE at == First({r \in Scanned : keys[r] = key})
  <2>1. keys \in [Slots -> Codes \cup {NoKey}] /\ keys' = [keys EXCEPT ![at] = NoKey]
    BY <1>3 DEF RingInv, TypeOK, DelPresent
  <2> HIDE DEF at
  <2>2. s \in Slots /\ keys'[s] # NoKey
    BY DEF Held
  <2>3. keys'[s] = keys[s]
    BY <2>1, <2>2
  <2>4. keys'[s] # key
    BY <1>1, <1>3, <2>2, InvDelPresent
  <2> QED  BY <2>2, <2>3, <2>4 DEF Held
<1> QED  BY <1>2, <1>3 DEF del_key_byte

(* A code that was released is not reported until it is added again.       *)
THEOREM ReleaseAlwaysClears ==
    ASSUME FewClears
    PROVE  Spec => []ReleaseClears
<1>1. Init => ReleaseClears
  BY DEF Init, ReleaseClears, Held
<1>2. RingInv /\ ReleaseClears /\ [Next]_vars => ReleaseClears'
  <2> SUFFICES ASSUME RingInv, ReleaseClears, [Next]_vars, NEW s \in Held'
               PROVE  keys'[s] \in down'
    BY DEF ReleaseClears
  <2>1. ASSUME NEW key \in Codes, add_key_byte(key) PROVE keys'[s] \in down'
    BY <2>1, AddBringsOne DEF ReleaseClears, add_key_byte
  <2>2. ASSUME NEW key \in Codes, del_key_byte(key) PROVE keys'[s] \in down'
    BY <2>2, DelTakesOne DEF ReleaseClears, del_key_byte
  <2>3. CASE clear_keys
    BY <2>3 DEF clear_keys, Held
  <2>4. CASE UNCHANGED vars
    BY <2>4 DEF vars, ReleaseClears, Held
  <2> QED  BY <2>1, <2>2, <2>3, <2>4 DEF Next
<1> QED  BY <1>1, <1>2, RingInvariant, PTL DEF Spec

-----------------------------------------------------------------------------
(* KeyRingSteps: the same functions in steps, with the interrupt between   *)
(* any two of them.                                                        *)

(* A clear that cuts into a call may leave cb_count one higher still, when *)
(* the call counts a key that it writes over another.                      *)
FewCuts == (N + 1) * (MaxClears + 1) <= CountMod

Allowed == (N + 1) * clears

\* cb_count is above the number of the slots S by what the clears allow, less k
Drift(S, k) == count + k <= Cardinality(S) + Allowed

\* an interrupt has cleared the report, and nothing has been written since
Cut == Held = {} /\ Drift({}, 1)

Typed ==
    /\ keys \in [Slots -> Codes \cup {NoKey}]
    /\ head \in Slots /\ count \in 0 .. CountMod-1
    /\ clears \in 0 .. MaxClears /\ down \subseteq Codes

\* the ring as a call finds it, the key of a call of add_key_byte or
\* del_key_byte, and a report without that key
Sound ==
    /\ tail \in Slots /\ NoDuplicates /\ HeldIsScanned
    /\ Cardinality(Held) <= count /\ Drift(Held, 0)

Adds == code \in Codes \cap down /\ ReleaseClears /\ count # 0

Dels == code \in Codes /\ \A s \in Held : keys[s] \in down \cup {code}

Absent == \A s \in Held : keys[s] # code

AtIdle == Sound /\ ReleaseClears /\ empty = None

(* The search has passed the first n slots of the turn: the code is in     *)
(* none, and before the first hole they all hold keys.                     *)
Passed(n) == \A s \in Held : Order(s) < n => keys[s] # code

Seen(n) ==
    /\ empty \in Slots \cup {None}
    /\ empty # None => empty \notin Held /\ Order(empty) < n
    /\ \/ Cut
       \/ \A s \in Slots : Order(s) < n /\ (empty # None => Order(s) < Order(empty))
                              => s \in Held

AtScan == Sound /\ Adds /\ i \in Scanned /\ Passed(Order(i)) /\ Seen(Order(i))

AtHole ==
    /\ Sound /\ Adds /\ i \in Scanned /\ Passed(Order(i) + 1) /\ Seen(Order(i))
    /\ reg = NoKey => i \notin Held
    /\ reg # NoKey => i \in Held \/ Cut

AtPop == Sound /\ Adds /\ Absent /\ tail = head /\ (Cut \/ Held = Slots)

(* The shift: the keys moved so far lie before the slot the next one goes  *)
(* to, the others from i on.  That slot is the turn Goal, -1 for the one    *)
(* before head.                                                            *)
Goal == Order(i) - offset

Shift ==
    /\ tail = head /\ offset \in Nat \ {0} /\ Goal >= -1
    /\ i \in Slots /\ empty \in Slots
    /\ Order(empty) = IF Goal = -1 THEN N - 1 ELSE Goal

Apart == \A s \in Held : Order(s) < Goal \/ Order(s) >= Order(i)

AtShift ==
    /\ Sound /\ Adds /\ Absent /\ Shift /\ Apart
    /\ Goal = -1 => /\ empty \notin Held
                    /\ Drift(Held, 1) \/ (i = head /\ head \in Held)

AtMove ==
    /\ Sound /\ Adds /\ Absent /\ Shift /\ Apart
    /\ i # empty /\ reg \in down \ {code} /\ (keys[i] = reg \/ Held = {})
    /\ Goal = -1 => empty \notin Held

\* keys[i] is about to be cleared
Left == Held \ {i}

AtLeave ==
    /\ Adds /\ Absent /\ Shift /\ i # empty
    /\ \A s, t \in Left : keys[s] = keys[t] => s = t
    /\ \A s \in Left : s = empty \/ Order(s) < Goal \/ Order(s) > Order(i)
    /\ Cardinality(Left) <= count /\ Drift(Left, 0)

\* keys[tail] is about to be overwritten
Others == Held \ {tail}

AtPut ==
    /\ code \in Codes \cap down
    /\ \A s, t \in Others : keys[s] = keys[t] => s = t
    /\ \A s \in Others : keys[s] \in down /\ keys[s] # code
    /\ Cardinality(Others) <= count
    /\ \/ tail \in Slots /\ Held \subseteq Turn(head, RO_INC(tail)) /\ Drift(Held \cup {tail}, 1)
       \/ tail = -1 /\ head = 0 /\ Cut

AtSearch == Sound /\ Dels /\ count # 0 /\ i \in Scanned /\ Passed(Order(i))

AtRelease ==
    /\ Sound /\ Dels /\ count # 0 /\ i \in Scanned /\ (i \in Held \/ Held = {})
    /\ \A s \in Held : keys[s] = code => s = i

AtRetract == Sound /\ ReleaseClears /\ RO_DEC(tail) \notin Held

StepInv ==
    /\ Typed
    /\ \/ pc = "idle" /\ AtIdle
       \/ pc = "scan" /\ AtScan
       \/ pc = "hole" /\ AtHole
       \/ pc = "pop" /\ AtPop
       \/ pc = "shift" /\ AtShift
       \/ pc = "move" /\ AtMove
       \/ pc = "leave" /\ AtLeave
       \/ pc = "put" /\ AtPut
       \/ pc = "search" /\ AtSearch
       \/ pc = "release" /\ AtRelease
       \/ pc = "retract" /\ AtRetract

(* The slots and the count.                                                *)
LEMMA FewRoom ==
    ASSUME FewCuts, NEW c \in 0 .. MaxClears
    PROVE  (N + 1) * c \in Nat /\ N + (N + 1) * c < CountMod
<1> DEFINE x == (N + 1) * c
           y == (N + 1) * MaxClears
<1>1. x \in Nat /\ x <= y /\ y \in Nat
  BY RingAssumption, SMT
<1>2. (N + 1) * (MaxClears + 1) = y + N + 1
  BY RingAssumption, SMT
<1> HIDE DEF x, y
<1>3. N + x < CountMod
  BY <1>1, <1>2, RingAssumption, SMT DEF FewCuts
<1> QED  BY <1>1, <1>3 DEF x

LEMMA StepRoom ==
    ASSUME FewCuts, Typed
    PROVE  /\ Allowed \in Nat /\ N + Allowed < CountMod
           /\ count \in Nat /\ Held \subseteq Slots
           /\ NoKey \notin Codes
           /\ \A s \in Held : s \in Slots /\ keys[s] \in Codes
<1>1. clears \in 0 .. MaxClears /\ count \in Nat
  BY RingAssumption, SMT DEF Typed
<1> QED  BY <1>1, FewRoom, RingAssumption DEF Held, Typed, Allowed

\* sums, for the integers only
LEMMA Sums ==
    /\ \A a, b \in Nat : a + 1 <= 0 + b => a + 1 <= 1 + b
    /\ \A g \in Int, o \in Nat : o # 0 /\ g = (N - 1) + 1 - o => o = N - g /\ g < N
    /\ \A a \in 0 .. N : a \in Nat /\ a <= a
    /\ \A a, b, c \in Nat : a <= b /\ b + 1 <= a + 1 + c => a + 1 <= b + 1 /\ b + 1 + 0 <= a + 1 + c
BY RingAssumption, SMT

LEMMA SumGrows ==
    ASSUME NEW a \in Nat, NEW b \in Nat, NEW c \in Nat, NEW d \in Nat,
           a + 0 <= b + d, b <= c
    PROVE  a + 0 <= c + d
OBVIOUS

(* The slots of a set, and one slot more.                                  *)
LEMMA OneMore ==
    ASSUME NEW S, S \subseteq Slots, NEW s \in Slots
    PROVE  /\ Cardinality(S) \in 0 .. N /\ Cardinality(S \cup {s}) \in 1 .. N
           /\ Cardinality(S \ {s}) \in 0 .. N-1
           /\ Cardinality(S \cup {s}) = IF s \in S THEN Cardinality(S) ELSE Cardinality(S) + 1
           /\ Cardinality(S \ {s}) = IF s \in S THEN Cardinality(S) - 1 ELSE Cardinality(S)
<1>1. /\ IsFiniteSet(S) /\ Cardinality(S) \in 0 .. N
      /\ Cardinality(S \cup {s}) \in 0 .. N /\ Cardinality(S \ {s}) \in 0 .. N
      /\ (Cardinality(S \cup {s}) = 0 <=> S \cup {s} = {})
      /\ (Cardinality(S \ {s}) = N <=> S \ {s} = Slots)
  BY SlotSetFinite
<1>2. Cardinality(S \cup {s}) # 0 /\ Cardinality(S \ {s}) # N
  BY <1>1
<1>3. Cardinality(S \cup {s}) = IF s \in S THEN Cardinality(S) ELSE Cardinality(S) + 1
  BY <1>1, FS_AddElement
<1>4. Cardinality(S \ {s}) = IF s \in S THEN Cardinality(S) - 1 ELSE Cardinality(S)
  BY <1>1, FS_RemoveElement
<1> QED  BY <1>1, <1>2, <1>3, <1>4, RingAssumption, SMT

LEMMA NoSlots == Cardinality({}) = 0
BY FS_EmptySet

(* The loops go from turn to turn and stop behind the last slot that they  *)
(* are to visit.                                                           *)
LEMMA Visited ==
    ASSUME head \in Slots, tail \in Slots, NEW s \in Scanned
    PROVE  /\ s \in Slots /\ Order(s) \in 0 .. N-1 /\ RO_INC(s) \in Slots
           /\ RO_INC(s) # tail => /\ RO_INC(s) \in Scanned
                                  /\ Order(RO_INC(s)) = Order(s) + 1
           /\ RO_INC(s) = tail => /\ \A t \in Scanned : Order(t) <= Order(s)
                                  /\ tail = head => Order(s) = N - 1
<1>1. /\ s \in Slots /\ Order(s) \in 0 .. N-1 /\ Order(tail) \in 0 .. N-1
      /\ Order(head) = 0 /\ RO_INC(s) \in Slots
      /\ Order(RO_INC(s)) = IF Order(s) = N - 1 THEN 0 ELSE Order(s) + 1
  BY OrderRange, OrderSteps, RingStep DEF Scanned, Turn
<1>2. \A t \in Slots : Order(t) \in 0 .. N-1
  BY OrderRange
<1>3. CASE tail = head
  <2>1. Scanned = Slots
    BY <1>3 DEF Scanned, Turn
  <2>2. RO_INC(s) # tail => Order(RO_INC(s)) # 0
    BY <1>1, <1>3, OrderInjective
  <2>3. RO_INC(s) = tail => Order(s) = N - 1
    BY <1>1, <1>3, RingAssumption, SMT
  <2>4. RO_INC(s) = tail => \A t \in Slots : Order(t) <= Order(s)
    BY <1>2, <2>3, RingAssumption, SMT
  <2> QED  BY <1>1, <2>1, <2>2, <2>3, <2>4
<1>4. CASE tail # head
  <2>1. Scanned = {t \in Slots : Order(t) < Order(tail)}
    BY <1>4 DEF Scanned, Turn, Order
  <2>2. Order(s) < Order(tail)
    BY <2>1
  <2>3. Order(RO_INC(s)) = Order(s) + 1
    BY <1>1, <2>2, RingAssumption, SMT
  <2>4. RO_INC(s) # tail => Order(RO_INC(s)) # Order(tail)
    BY <1>1, OrderInjective
  <2>5. RO_INC(s) # tail => Order(RO_INC(s)) < Order(tail)
    BY <1>1, <2>2, <2>3, <2>4, RingAssumption, SMT
  <2>6. RO_INC(s) = tail => \A t \in Scanned : Order(t) <= Order(s)
    <3> SUFFICES ASSUME RO_INC(s) = tail, NEW t \in Scanned PROVE Order(t) <= Order(s)
      OBVIOUS
    <3>1. Order(t) < Order(tail) /\ Order(t) \in 0 .. N-1 /\ Order(tail) = Order(s) + 1
      BY <1>2, <2>1, <2>3
    <3> QED  BY <1>1, <3>1, RingAssumption, SMT
  <2> QED  BY <1>1, <1>4, <2>1, <2>3, <2>5, <2>6
<1> QED  BY <1>3, <1>4

LEMMA HeadVisited ==
    ASSUME head \in Slots, tail \in Slots
    PROVE  head \in Scanned /\ Order(head) = 0
<1>1. Order(head) = 0 /\ Order(tail) \in 0 .. N-1
  BY OrderRange, OrderSteps
<1>2. CASE tail = head
  BY <1>1, <1>2 DEF Scanned, Turn
<1>3. CASE tail # head
  <2>1. Order(tail) # 0
    BY <1>1, <1>3, OrderInjective
  <2>2. Order(head) < Order(tail)
    BY <1>1, <2>1, RingAssumption, SMT
  <2>3. Scanned = {t \in Slots : Order(t) < Order(tail)}
    BY <1>3 DEF Scanned, Turn, Order
  <2> QED  BY <1>1, <2>2, <2>3, RingAssumption, SMT
<1> QED  BY <1>2, <1>3

\* what a step that writes nothing to the ring leaves true
LEMMA RingStill ==
    ASSUME UNCHANGED <<keys, head, tail, count, clears>>
    PROVE  /\ Held' = Held /\ Scanned' = Scanned /\ (Sound' <=> Sound) /\ (Cut' <=> Cut)
           /\ \A s : Order(s)' = Order(s)
           /\ \A S, k : Drift(S, k)' <=> Drift(S, k)
           /\ (down' = down => (ReleaseClears' <=> ReleaseClears) /\ (Typed' <=> Typed))
<1>1. Held' = Held /\ Scanned' = Scanned
  BY DEF Held, Scanned
<1>2. \A S, k : Drift(S, k)' <=> Drift(S, k)
  BY DEF Drift, Allowed
<1>3. Sound' <=> Sound
  BY <1>1, <1>2 DEF Sound, NoDuplicates, HeldIsScanned, Drift, Allowed
<1>4. Cut' <=> Cut
  BY <1>1, <1>2 DEF Cut, Drift, Allowed
<1>5. \A s : Order(s)' = Order(s)
  BY DEF Order
<1> QED  BY <1>1, <1>2, <1>3, <1>4, <1>5 DEF ReleaseClears, Typed

-----------------------------------------------------------------------------
LEMMA CallAddKeeps ==
    ASSUME FewCuts, StepInv, NEW c \in Codes, CallAdd(c)
    PROVE  StepInv'
<1>1. /\ AtIdle /\ Typed /\ i' = head /\ code' = c /\ down' = down \cup {c} /\ empty' = empty
      /\ UNCHANGED <<keys, head, tail, count, clears>>
      /\ pc' = IF count # 0 THEN "scan" ELSE "put"
  BY DEF CallAdd, Goto, StepInv
<1>2. /\ Held' = Held /\ Scanned' = Scanned /\ Sound' /\ empty = None
      /\ head \in Slots /\ tail \in Slots
      /\ \A s : Order(s)' = Order(s)
      /\ \A S, k : Drift(S, k)' <=> Drift(S, k)
  BY <1>1, RingStill DEF AtIdle, Sound, Typed
<1>3. Typed' /\ ReleaseClears' /\ code' \in Codes \cap down'
  BY <1>1, <1>2 DEF Typed, AtIdle, ReleaseClears
<1>4. CASE count # 0
  <2>1. Adds'
    BY <1>1, <1>3, <1>4 DEF Adds
  <2>2. i' \in Scanned' /\ Order(i)' = 0
    <3>1. Order(i)' = Order(head)
      BY <1>1 DEF Order
    <3> QED  BY <1>1, <1>2, <3>1, HeadVisited
  <2>3. \A s \in Held : ~ (Order(s) < 0)
    BY <1>2, StepRoom, OrderRange, RingAssumption, SMT DEF Held
  <2>4. \A s \in Slots : ~ (Order(s) < 0)
    BY <1>2, OrderRange, RingAssumption, SMT
  <2>5. Passed(Order(i))'
    BY <1>2, <2>2, <2>3 DEF Passed
  <2>6. Seen(Order(i))'
    BY <1>1, <1>2, <2>2, <2>4 DEF Seen
  <2> QED  BY <1>1, <1>2, <1>3, <1>4, <2>1, <2>2, <2>5, <2>6 DEF AtScan, StepInv
<1>5. CASE count = 0
  <2>1. Held = {}
    <3>1. Cardinality(Held) <= 0 /\ Cardinality(Held) \in 0 .. N
          /\ (Cardinality(Held) = 0 <=> Held = {})
      BY <1>1, <1>5, SlotSetFinite, StepRoom DEF AtIdle, Sound
    <3> QED  BY <3>1, RingAssumption, SMT
  <2>2. tail' \in Slots /\ Held' = {} /\ Others' = {}
    BY <1>1, <1>2, <2>1 DEF Others
  <2>3. Cardinality(Others') <= count'
    BY <1>1, <1>5, <2>2, NoSlots
  <2>4. Drift(Held \cup {tail}, 1)'
    <3>1. Cardinality({} \cup {tail}) = 1
      BY <1>2, OneMore, NoSlots
    <3>2. Allowed' = Allowed /\ Allowed \in Nat
      BY <1>1, StepRoom DEF Allowed
    <3> QED  BY <1>1, <1>5, <2>2, <3>1, <3>2 DEF Drift
  <2> QED  BY <1>1, <1>3, <1>5, <2>2, <2>3, <2>4 DEF AtPut, StepInv
<1> QED  BY <1>4, <1>5

\* the search loop of add_key_byte
LEMMA ScanKeeps ==
    ASSUME FewCuts, StepInv, ScanFound \/ ScanOther
    PROVE  StepInv'
<1>1. /\ AtScan /\ Typed /\ UNCHANGED vars
      /\ UNCHANGED <<keys, head, tail, count, clears, down>>
  BY DEF ScanFound, ScanOther, StepInv, vars
<1>2. /\ Held' = Held /\ Scanned' = Scanned /\ (Sound' <=> Sound) /\ (Cut' <=> Cut)
      /\ \A s : Order(s)' = Order(s)
      /\ ReleaseClears' /\ Typed'
      /\ i \in Slots /\ head \in Slots
  BY <1>1, RingStill DEF AtScan, Adds, Typed, Scanned, Turn
<1>3. CASE ScanFound
  BY <1>1, <1>2, <1>3 DEF ScanFound, Done, AtIdle, AtScan, StepInv
<1>4. CASE ScanOther
  <2>1. /\ keys[i] # code /\ reg' = keys[i] /\ pc' = "hole"
        /\ i' = i /\ code' = code /\ empty' = empty
    BY <1>4 DEF ScanOther, Goto
  <2>2. Order(i)' = Order(i) /\ Order(i) \in 0 .. N-1
    BY <1>1, <1>2, <2>1, OrderRange DEF Order
  <2>3. Passed(Order(i) + 1)'
    <3> SUFFICES ASSUME NEW s \in Held, Order(s) < Order(i) + 1 PROVE keys[s] # code
      BY <1>1, <1>2, <2>1, <2>2 DEF Passed
    <3>1. s \in Slots /\ Order(s) \in 0 .. N-1
      BY <1>2, OrderRange DEF Held
    <3>2. Order(s) < Order(i) \/ Order(s) = Order(i)
      BY <2>2, <3>1, RingAssumption, SMT
    <3> QED  BY <1>1, <1>2, <2>1, <3>1, <3>2, OrderInjective DEF AtScan, Passed
  <2>4. Seen(Order(i))'
    BY <1>1, <1>2, <2>1, <2>2 DEF AtScan, Seen
  <2>5. (reg' = NoKey => i \notin Held) /\ (reg' # NoKey => i \in Held)
    BY <1>2, <2>1 DEF Held
  <2> QED  BY <1>1, <1>2, <2>1, <2>3, <2>4, <2>5 DEF AtScan, AtHole, Adds, StepInv
<1> QED  BY <1>3, <1>4

\* the slot at the tail is free
LEMMA ToPut ==
    ASSUME FewCuts, Typed, Sound, tail # head, Adds', Absent',
           UNCHANGED <<keys, head, tail, count, clears, down>>
    PROVE  AtPut'
<1>1. tail \notin Held /\ tail \in Slots /\ head \in Slots /\ Held \subseteq Slots
  BY TurnNotTail, StepRoom DEF Sound, HeldIsScanned, Scanned, Typed
<1>2. Held' = Held /\ tail' = tail /\ Others' = Held
  BY <1>1 DEF Held, Others
<1>3. Held \subseteq Turn(head, RO_INC(tail))
  <2> SUFFICES ASSUME NEW s \in Held PROVE s \in Turn(head, RO_INC(tail))
    OBVIOUS
  <2>1. s \in Slots /\ RO_SUB(s, head) \in 0 .. N-1 /\ RO_SUB(tail, head) \in 0 .. N-1
    BY <1>1, RingDistance
  <2>2. RO_SUB(s, head) < RO_SUB(tail, head)
    BY DEF Sound, HeldIsScanned, Scanned, Turn
  <2>3. RO_SUB(s, head) <= RO_SUB(tail, head)
    BY <2>1, <2>2, RingAssumption, SMT
  <2> QED  BY <1>1, <2>1, <2>3, TurnBehind
<1>4. Drift(Held \cup {tail}, 1)'
  <2>1. Cardinality(Held \cup {tail}) = Cardinality(Held) + 1 /\ Cardinality(Held) \in 0 .. N
    BY <1>1, OneMore
  <2>2. Allowed' = Allowed /\ Allowed \in Nat /\ count \in Nat
    BY StepRoom DEF Allowed
  <2>3. count <= Cardinality(Held) + Allowed
    <3>1. Drift(Held, 0)
      BY DEF Sound
    <3> QED  BY <2>2, <3>1 DEF Drift
  <2>4. count + 1 <= Cardinality(Held) + 1 + Allowed
    BY <2>1, <2>2, <2>3, RingAssumption, SMT
  <2> QED  BY <1>2, <2>1, <2>2, <2>4 DEF Drift
<1>5. \A s \in Held : keys[s] \in down' /\ keys[s] # code'
  BY <1>2 DEF Adds, ReleaseClears, Absent
<1> QED  BY <1>1, <1>2, <1>3, <1>4, <1>5 DEF AtPut, Adds, Sound, NoDuplicates

\* a slot is taken for the first hole, or the hole is kept that was found before
LEMMA HoleKeeps ==
    ASSUME FewCuts, StepInv, Hole
    PROVE  StepInv'
<1>1. /\ AtHole /\ Typed /\ offset' = 1 /\ code' = code /\ AfterScan(empty')
      /\ UNCHANGED <<keys, head, tail, count, clears, down>>
  BY DEF Hole, StepInv, vars
<1>2. /\ Held' = Held /\ Scanned' = Scanned /\ Sound' /\ (Cut' <=> Cut)
      /\ \A s : Order(s)' = Order(s)
      /\ \A S, k : Drift(S, k)' <=> Drift(S, k)
      /\ ReleaseClears' /\ Typed' /\ Adds'
      /\ head \in Slots /\ tail \in Slots
  BY <1>1, RingStill DEF AtHole, Adds, Sound, Typed
<1>3. /\ i \in Slots /\ Order(i) \in 0 .. N-1 /\ RO_INC(i) \in Slots
      /\ RO_INC(i) # tail => RO_INC(i) \in Scanned /\ Order(RO_INC(i)) = Order(i) + 1
      /\ RO_INC(i) = tail => /\ \A t \in Scanned : Order(t) <= Order(i)
                             /\ tail = head => Order(i) = N - 1
  BY <1>1, <1>2, Visited DEF AtHole
<1>4. PICK v \in Again : empty' = IF empty = None /\ v = NoKey THEN i ELSE empty
  BY DEF Hole
<1>5. (v = NoKey => i \notin Held) /\ (v # NoKey => i \in Held \/ Cut)
  BY <1>1, <1>3, <1>4 DEF Again, AtHole, Held
<1>6. \A s \in Slots : Order(s) \in 0 .. N-1 /\ (Order(s) = Order(i) => s = i)
  BY <1>2, <1>3, OrderRange, OrderInjective
<1> DEFINE n == Order(i) + 1
\* the slots up to i are seen
<1>7. /\ empty' \in Slots \cup {None}
      /\ empty' # None => empty' \notin Held /\ Order(empty') < n
      /\ \/ Cut
         \/ \A s \in Slots : Order(s) < n /\ (empty' # None => Order(s) < Order(empty'))
                                => s \in Held
  <2>1. /\ empty \in Slots \cup {None}
        /\ empty # None => empty \notin Held /\ Order(empty) < Order(i)
        /\ \/ Cut
           \/ \A s \in Slots : Order(s) < Order(i) /\ (empty # None => Order(s) < Order(empty))
                                  => s \in Held
    BY <1>1 DEF AtHole, Seen
  <2>2. None \notin Slots /\ Order(i) < n
    BY <1>3, RingAssumption, SMT DEF None, Slots
  <2>3. \A s \in Slots : Order(s) < n <=> Order(s) < Order(i) \/ s = i
    BY <1>3, <1>6, RingAssumption, SMT
  <2>4. CASE empty = None /\ v = NoKey
    BY <1>3, <1>4, <1>5, <1>6, <2>1, <2>2, <2>3, <2>4, RingAssumption, SMT
  <2>5. CASE empty # None
    <3>1. empty' = empty /\ Order(empty) < n /\ empty \in Slots
      BY <1>3, <1>4, <1>6, <2>1, <2>3, <2>5
    <3>2. \A s \in Slots : Order(s) < Order(empty) => Order(s) < Order(i)
      BY <1>3, <1>6, <2>1, <2>5, <3>1, RingAssumption, SMT
    <3> QED  BY <2>1, <2>5, <3>1, <3>2
  <2>6. CASE empty = None /\ v # NoKey
    BY <1>4, <1>5, <2>1, <2>3, <2>6
  <2> QED  BY <2>4, <2>5, <2>6
<1>8. \A s \in Held : Order(s) < n => keys[s] # code
  BY <1>1 DEF AtHole, Passed
<1> HIDE DEF n
<1>9. CASE RO_INC(i) # tail
  <2>1. pc' = "scan" /\ i' = RO_INC(i)
    BY <1>1, <1>9 DEF AfterScan, Goto
  <2>2. Order(i)' = n /\ i' \in Scanned
    <3>1. Order(i)' = Order(RO_INC(i))
      BY <1>1, <2>1 DEF Order
    <3> QED  BY <1>3, <1>9, <2>1, <3>1 DEF n
  <2>3. Passed(Order(i))'
    BY <1>1, <1>2, <1>8, <2>2 DEF Passed
  <2>4. Seen(Order(i))'
    BY <1>1, <1>2, <1>7, <2>2 DEF Seen
  <2> QED  BY <1>2, <2>1, <2>2, <2>3, <2>4 DEF AtScan, StepInv
\* the loop has come to its end
<1>10. CASE RO_INC(i) = tail
  <2>1. \A s \in Held : s \in Slots /\ s \in Scanned /\ Order(s) < n
    BY <1>1, <1>3, <1>6, <1>10, RingAssumption, SMT DEF n, AtHole, Sound, HeldIsScanned, Held
  <2>2. Absent'
    BY <1>1, <1>2, <1>8, <2>1 DEF Absent
  <2>3. CASE tail # head
    <3>1. pc' = "put"
      BY <1>1, <1>10, <2>3 DEF AfterScan, Goto
    <3>2. AtPut'
      BY <1>1, <1>2, <2>2, <2>3, ToPut DEF AtHole
    <3> QED  BY <1>2, <3>1, <3>2 DEF StepInv
  <2>4. CASE tail = head /\ empty' = None
    <3>1. pc' = "pop"
      BY <1>1, <1>10, <2>4 DEF AfterScan, Goto
    <3>2. Cut \/ Held = Slots
      <4>1. \A s \in Slots : Order(s) < n
        BY <1>3, <1>6, <1>10, <2>4, RingAssumption, SMT DEF n
      <4> QED  BY <1>7, <2>4, <4>1 DEF Held
    <3> QED  BY <1>1, <1>2, <2>2, <2>4, <3>1, <3>2 DEF AtPop, StepInv
  <2>5. CASE tail = head /\ empty' # None
    <3>1. pc' = "shift" /\ i' = RO_INC(empty')
      BY <1>1, <1>10, <2>5 DEF AfterScan, Goto
    <3>2. empty' \in Slots /\ empty' \notin Held /\ Order(i) = N - 1
      BY <1>3, <1>7, <1>10, <2>5
    <3>3. /\ i' \in Slots /\ Order(empty') \in 0 .. N-1
          /\ Order(i)' = IF Order(empty') = N - 1 THEN 0 ELSE Order(empty') + 1
      <4>1. Order(i)' = Order(RO_INC(empty'))
        BY <1>1, <3>1 DEF Order
      <4> QED  BY <1>2, <1>6, <3>1, <3>2, <4>1, OrderSteps, RingStep
    <3>4. Goal' = (IF Order(empty') = N - 1 THEN -1 ELSE Order(empty')) /\ Goal' >= -1
      <4>1. Goal' = Order(i)' - 1
        BY <1>1 DEF Goal
      <4> QED  BY <3>3, <4>1, RingAssumption, SMT
    <3>5. Order(empty)' = Order(empty')
      BY <1>1 DEF Order
    <3>6. Shift'
      <4>1. Order(empty)' = IF Goal' = -1 THEN N - 1 ELSE Goal'
        BY <3>3, <3>4, <3>5, RingAssumption, SMT
      <4> QED  BY <1>1, <2>5, <3>2, <3>3, <3>4, <4>1 DEF Shift
    <3>7. Apart'
      <4> SUFFICES ASSUME NEW s \in Held PROVE Order(s) < Goal' \/ Order(s) >= Order(i)'
        BY <1>2 DEF Apart
      <4>1. s \in Slots /\ Order(s) \in 0 .. N-1 /\ Order(s) # Order(empty')
        BY <1>2, <1>6, <2>1, <3>2, OrderInjective
      <4> QED  BY <3>3, <3>4, <4>1, RingAssumption, SMT
    <3>8. Goal' = -1 => Drift(Held, 1)' \/ (i' = head /\ head \in Held)
      <4> SUFFICES ASSUME Goal' = -1 PROVE Drift(Held, 1)' \/ (i' = head /\ head \in Held)
        OBVIOUS
      <4>1. Order(empty') = N - 1 /\ Order(i)' = 0
        BY <3>3, <3>4, RingAssumption, SMT
      <4>2. Order(head) = 0 /\ Order(i') = 0
        BY <1>1, <1>2, <4>1, OrderSteps DEF Order
      <4>3. i' = head
        BY <1>2, <3>3, <4>2, OrderInjective
      <4>4. Cut => Drift(Held, 1)'
        BY <1>2 DEF Cut
      <4>5. Order(head) < n /\ Order(head) < Order(empty')
        BY <1>3, <4>1, <4>2, RingAssumption, SMT DEF n
      <4> QED  BY <1>2, <1>7, <2>5, <4>3, <4>4, <4>5
    <3> QED  BY <1>1, <1>2, <2>2, <3>1, <3>2, <3>4, <3>6, <3>7, <3>8 DEF AtShift, StepInv
  <2> QED  BY <2>3, <2>4, <2>5
<1> QED  BY <1>9, <1>10

-----------------------------------------------------------------------------
(* The shift and its end: i is done with, and the next key goes to turn g. *)
ShiftStep(g) ==
    /\ head \in Slots /\ tail = head /\ i \in Slots
    /\ UNCHANGED <<head, count, clears, down>>
    /\ AfterShift(offset')
    /\ Typed' /\ Adds' /\ Absent' /\ NoDuplicates'
    /\ Cardinality(Held') <= count' /\ Drift(Held, 0)'
    /\ offset' \in Nat \ {0} /\ empty' \in Slots
    /\ g \in Int /\ g = Order(i) + 1 - offset' /\ g >= -1
    /\ Order(empty') = IF g = -1 THEN N - 1 ELSE g
    /\ \A s \in Held' : Order(s) < g \/ Order(s) > Order(i)
    /\ g = -1 => empty' \notin Held' /\ Drift(Held, 1)'

LEMMA ShiftOn ==
    ASSUME FewCuts, NEW g, ShiftStep(g)
    PROVE  StepInv'
<1>0. /\ head \in Slots /\ tail = head /\ i \in Slots
      /\ UNCHANGED <<head, count, clears, down>>
      /\ AfterShift(offset')
      /\ Typed' /\ Adds' /\ Absent' /\ NoDuplicates'
      /\ Cardinality(Held') <= count' /\ Drift(Held, 0)'
      /\ offset' \in Nat \ {0} /\ empty' \in Slots
      /\ g \in Int /\ g = Order(i) + 1 - offset' /\ g >= -1
      /\ Order(empty') = IF g = -1 THEN N - 1 ELSE g
      /\ \A s \in Held' : Order(s) < g \/ Order(s) > Order(i)
      /\ g = -1 => empty' \notin Held' /\ Drift(Held, 1)'
  BY DEF ShiftStep
<1>1. /\ Allowed' \in Nat /\ N + Allowed' < CountMod /\ count' \in Nat /\ Held' \subseteq Slots
  <2>1. clears' \in 0 .. MaxClears /\ count' \in 0 .. CountMod-1
    BY <1>0 DEF Typed
  <2>2. count' \in Nat
    BY <2>1, RingAssumption, SMT
  <2> QED  BY <2>1, <2>2, FewRoom DEF Allowed, Held
<1>2. /\ \A s \in Slots : Order(s) \in 0 .. N-1
      /\ Order(head) = 0 /\ RO_INC(i) \in Slots
      /\ Order(RO_INC(i)) = IF Order(i) = N - 1 THEN 0 ELSE Order(i) + 1
      /\ \A s : Order(s)' = RO_SUB(s', head)
      /\ \A s \in Slots : Order(s) = RO_SUB(s, head)
  BY <1>0, OrderRange, OrderSteps, RingStep DEF Order
<1>3. CASE RO_INC(i) # tail
  <2>1. pc' = "shift" /\ i' = RO_INC(i) /\ tail' = tail
    BY <1>0, <1>3 DEF AfterShift, Goto
  <2>2. Order(RO_INC(i)) # 0
    BY <1>0, <1>2, <1>3, OrderInjective
  <2>3. Order(i)' = Order(i) + 1 /\ i' \in Slots
    BY <1>0, <1>2, <2>1, <2>2 DEF Order
  <2>4. Goal' = g
    BY <1>0, <1>2, <2>3, RingAssumption, SMT DEF Goal
  <2>5. Order(empty)' = Order(empty')
    BY <1>0 DEF Order
  <2>6. Shift'
    BY <1>0, <2>1, <2>3, <2>4, <2>5 DEF Shift
  <2>7. Apart' /\ HeldIsScanned'
    <3>1. HeldIsScanned'
      BY <1>0, <1>1, <2>1 DEF HeldIsScanned, Scanned, Turn
    <3> SUFFICES ASSUME NEW s \in Held' PROVE Order(s) < g \/ Order(s) >= Order(i) + 1
      BY <1>0, <2>3, <2>4, <3>1 DEF Apart, Order
    <3>2. Order(s) \in 0 .. N-1 /\ Order(i) \in 0 .. N-1 /\ (Order(s) < g \/ Order(s) > Order(i))
      BY <1>0, <1>1, <1>2
    <3> QED  BY <1>0, <3>2, RingAssumption, SMT
  <2>8. Sound'
    BY <1>0, <2>1, <2>7 DEF Sound
  <2> QED  BY <1>0, <2>1, <2>4, <2>6, <2>7, <2>8 DEF AtShift, StepInv
<1>4. CASE RO_INC(i) = tail
  <2>1. pc' = "put" /\ tail' = Back(tail, offset') /\ Order(i) = N - 1
    BY <1>0, <1>2, <1>4, RingAssumption, SMT DEF AfterShift, Goto
  <2>2. offset' = N - g /\ g < N
    <3>1. offset' \in Nat /\ offset' # 0 /\ g \in Int /\ g = (N - 1) + 1 - offset'
      BY <1>0, <2>1
    <3> QED  BY <3>1, Sums
  <2>3. \A s \in Held' : Order(s) \in 0 .. N-1 /\ Order(s) < g
    BY <1>0, <1>1, <1>2, <2>1, RingAssumption, SMT
  <2>4. code' \in Codes \cap down' /\ \A s \in Held' : keys'[s] \in down' /\ keys'[s] # code'
    BY <1>0 DEF Adds, ReleaseClears, Absent
  <2>5. CASE g >= 0
    <3>1. tail' = RO_SUB(head, N - g)
      <4>1. head \in 0 .. N-1 /\ tail' = Back(head, N - g)
        BY <1>0, <2>1, <2>2 DEF Slots
      <4>2. head - (N - g) + N >= 0
        BY <1>0, <2>2, <2>5, <4>1, RingAssumption, SMT
      <4> QED  BY <1>0, <4>1, <4>2 DEF Back
    <3>2. tail' \in Slots /\ Order(tail') = g
      <4>1. g \in 0 .. N-1
        BY <1>0, <2>2, <2>5, RingAssumption, SMT
      <4> QED  BY <1>0, <3>1, <4>1, FirstTurns
    <3>3. tail' \notin Held'
      BY <1>0, <2>3, <3>2
    <3>4. Held' \subseteq Turn(head, RO_INC(tail'))
      <4> SUFFICES ASSUME NEW s \in Held' PROVE s \in Turn(head, RO_INC(tail'))
        OBVIOUS
      <4>1. s \in Slots /\ Order(s) <= Order(tail')
        BY <1>0, <1>1, <2>3, <3>2, RingAssumption, SMT
      <4> QED  BY <1>0, <3>2, <4>1, TurnBehind DEF Order
    <3>5. Others' = Held'
      BY <1>0, <3>3 DEF Others
    <3>6. Drift(Held \cup {tail}, 1)'
      <4>1. Cardinality(Held' \cup {tail'}) = Cardinality(Held') + 1
            /\ Cardinality(Held') \in 0 .. N
        BY <1>0, <1>1, <3>2, <3>3, OneMore
      <4>2. count' <= Cardinality(Held') + Allowed'
        BY <1>0, <1>1 DEF Drift
      <4>3. count' + 1 <= Cardinality(Held') + 1 + Allowed'
        BY <1>0, <1>1, <4>1, <4>2, RingAssumption, SMT
      <4> QED  BY <1>0, <4>1, <4>3 DEF Drift
    <3> QED  BY <1>0, <2>1, <2>4, <3>2, <3>4, <3>5, <3>6 DEF AtPut, NoDuplicates, StepInv
  <2>6. CASE g = -1
    <3>1. Held' = {}
      BY <1>0, <2>3, <2>6
    <3>2. Others' = {} /\ Cardinality(Others') <= count'
      BY <1>0, <1>1, <3>1, NoSlots DEF Others
    <3>3. Cut' /\ Drift({}, 1)'
      BY <1>0, <2>6, <3>1 DEF Cut
    <3>4. CASE head = 0
      <4>1. tail' = -1
        <5>1. tail' = Back(0, N - (-1))
          BY <1>0, <2>1, <2>2, <2>6, <3>4
        <5>2. 0 - (N - (-1)) + N = -1
          BY RingAssumption, SMT
        <5> QED  BY <1>0, <5>1, <5>2 DEF Back
      <4> QED  BY <1>0, <2>1, <2>4, <3>2, <3>3, <3>4, <4>1 DEF AtPut, StepInv
    <3>5. CASE head # 0
      <4>1. head - 1 \in 0 .. N-1 /\ head - offset' + N = head - 1
        BY <1>0, <2>2, <2>6, <3>5, RingAssumption, SMT DEF Slots
      <4>2. tail' = (head - 1) % N
        BY <1>0, <2>1, <4>1, RingAssumption, SMT DEF Back, RO_SUB
      <4>3. tail' \in Slots
        BY <1>0, <4>1, <4>2, ModRange, RingAssumption, SMT DEF Slots
      <4>4. Cardinality({} \cup {tail'}) = 1
        BY <1>0, <4>3, OneMore, NoSlots
      <4>5. Drift(Held \cup {tail}, 1)'
        <5>1. count' + 1 <= 0 + Allowed'
          BY <1>0, <3>3, NoSlots DEF Drift
        <5>2. count' \in Nat /\ Allowed' \in Nat
          BY <1>0, <1>1
        <5>3. count' + 1 <= 1 + Allowed'
          BY <5>1, <5>2, Sums
        <5> QED  BY <1>0, <3>1, <4>4, <5>3 DEF Drift
      <4> QED  BY <1>0, <2>1, <2>4, <3>1, <3>2, <4>3, <4>5 DEF AtPut, StepInv
    <3> QED  BY <1>0, <3>4, <3>5
  <2> QED  BY <1>0, <2>2, <2>5, <2>6, RingAssumption, SMT
<1> QED  BY <1>0, <1>3, <1>4

LEMMA ShiftHoleStep ==
    ASSUME FewCuts, StepInv, ShiftHole
    PROVE  ShiftStep(Goal)
<1>1. /\ AtShift /\ Typed /\ keys[i] = NoKey /\ offset' = offset + 1 /\ AfterShift(offset')
      /\ UNCHANGED <<keys, head, count, clears, down, code, empty>>
  BY DEF ShiftHole, StepInv
<1>2. /\ Held' = Held /\ Allowed' = Allowed
      /\ Typed' /\ Adds' /\ Absent' /\ NoDuplicates'
      /\ Cardinality(Held') <= count' /\ Drift(Held, 0)'
  <2>1. Held' = Held /\ Allowed' = Allowed
    BY <1>1 DEF Held, Allowed
  <2> QED  BY <1>1, <2>1
           DEF AtShift, Typed, Adds, ReleaseClears, Absent, Sound, NoDuplicates, Drift
<1>3. /\ head \in Slots /\ tail = head /\ i \in Slots /\ empty \in Slots /\ i \notin Held
      /\ offset \in Nat \ {0} /\ Goal = Order(i) - offset /\ Goal >= -1
      /\ Order(empty) = IF Goal = -1 THEN N - 1 ELSE Goal
      /\ Order(i) \in 0 .. N-1
  BY <1>1, OrderRange DEF AtShift, Shift, Typed, Goal, Held
<1>4. /\ Goal \in Int /\ Goal = Order(i) + 1 - offset' /\ offset' \in Nat \ {0}
  BY <1>1, <1>3, RingAssumption, SMT
<1>5. ASSUME NEW s \in Held PROVE Order(s) < Goal \/ Order(s) > Order(i)
  <2>1. s \in Slots /\ Order(s) \in 0 .. N-1 /\ Order(s) # Order(i)
    BY <1>3, OrderRange, OrderInjective DEF Held
  <2>2. Order(s) < Goal \/ Order(s) >= Order(i)
    BY <1>1 DEF AtShift, Apart
  <2> QED  BY <1>3, <2>1, <2>2, RingAssumption, SMT
<1>6. Goal = -1 => empty \notin Held /\ Drift(Held, 1)'
  BY <1>1, <1>2, <1>3 DEF AtShift, Drift
<1> QED  BY <1>1, <1>2, <1>3, <1>4, <1>5, <1>6 DEF ShiftStep

LEMMA ShiftHoleKeeps ==
    ASSUME FewCuts, StepInv, ShiftHole
    PROVE  StepInv'
BY ShiftHoleStep, ShiftOn

LEMMA ShiftKeyKeeps ==
    ASSUME FewCuts, StepInv, ShiftKey
    PROVE  StepInv'
<1>1. /\ AtShift /\ Typed /\ keys[i] # NoKey /\ reg' = keys[i] /\ pc' = "move"
      /\ UNCHANGED <<keys, head, tail, count, clears, down, code, i, empty, offset>>
  BY DEF ShiftKey, StepInv, vars, Goto
<1>2. /\ Held' = Held /\ Sound' /\ \A s : Order(s)' = RO_SUB(s', head)
      /\ ReleaseClears' /\ Typed'
  BY <1>1, RingStill DEF AtShift, Adds, Order
<1>3. Adds' /\ Absent' /\ Shift' /\ Apart' /\ Goal' = Goal
  <2>1. Order(i)' = Order(i) /\ Order(empty)' = Order(empty) /\ Goal' = Goal
    BY <1>1 DEF Order, Goal
  <2> QED  BY <1>1, <1>2, <2>1 DEF AtShift, Adds, Absent, Shift, Apart, Order
<1>4. i \in Held
  BY <1>1 DEF AtShift, Shift, Held
<1>5. i # empty
  <2>1. Goal = -1 => empty \notin Held
    BY <1>1 DEF AtShift
  <2>2. Goal # -1 => Order(empty) # Order(i)
    <3>1. i \in Slots /\ Order(i) \in 0 .. N-1 /\ offset \in Nat \ {0}
          /\ Order(empty) = IF Goal = -1 THEN N - 1 ELSE Goal
      BY <1>1, OrderRange DEF AtShift, Shift, Typed
    <3> QED  BY <3>1, RingAssumption, SMT DEF Goal
  <2> QED  BY <1>4, <2>1, <2>2
<1>6. reg' \in down \ {code}
  BY <1>1, <1>4 DEF AtShift, Adds, ReleaseClears, Absent
<1>7. Goal = -1 => empty \notin Held
  BY <1>1 DEF AtShift
<1> QED  BY <1>1, <1>2, <1>3, <1>5, <1>6, <1>7 DEF AtMove, StepInv

\* the key, or after an interrupt what is left of it, is copied
LEMMA MoveKeeps ==
    ASSUME FewCuts, StepInv, Move
    PROVE  StepInv'
<1>1. /\ AtMove /\ Typed /\ pc' = "leave"
      /\ UNCHANGED <<head, tail, count, clears, down, code, i, empty, offset>>
  BY DEF Move, StepInv, Goto
<1>2. PICK v \in Again : keys' = [keys EXCEPT ![empty] = v]
  BY DEF Move
<1>3. /\ keys \in [Slots -> Codes \cup {NoKey}] /\ head \in Slots /\ i \in Slots
      /\ empty \in Slots /\ i # empty /\ down \subseteq Codes /\ code \in Codes \cap down
      /\ reg \in down \ {code} /\ (keys[i] = reg \/ Held = {}) /\ count # 0
      /\ NoDuplicates /\ Absent /\ ReleaseClears
      /\ Cardinality(Held) <= count /\ Drift(Held, 0)
      /\ offset \in Nat \ {0} /\ Goal = Order(i) - offset /\ Goal >= -1
      /\ Order(empty) = IF Goal = -1 THEN N - 1 ELSE Goal
  BY <1>1 DEF AtMove, Typed, Shift, Adds, Sound, Goal
<1>4. /\ NoKey \notin Codes /\ count \in Nat /\ Allowed \in Nat /\ Allowed' = Allowed
      /\ Held \subseteq Slots
      /\ \A s \in Slots : Order(s) \in 0 .. N-1
      /\ \A s : Order(s)' = RO_SUB(s', head)
      /\ \A s : Order(s) = RO_SUB(s, head)
  BY <1>1, <1>3, StepRoom, OrderRange DEF Order, Allowed
<1>5. v \in Codes \cup {NoKey} /\ (v # NoKey => v = reg) /\ (Held # {} => v = reg /\ i \in Held)
  BY <1>2, <1>3, <1>4 DEF Again, Held
<1>6. empty \notin Held
  <2>1. Goal = -1 => empty \notin Held
    BY <1>1 DEF AtMove
  <2>2. Goal # -1 => ~ (Order(empty) < Goal \/ Order(empty) >= Order(i))
    <3>1. Order(i) \in 0 .. N-1 /\ Order(empty) \in 0 .. N-1
      BY <1>3, <1>4
    <3> QED  BY <1>3, <3>1, RingAssumption, SMT
  <2> QED  BY <1>1, <2>1, <2>2 DEF AtMove, Apart
<1>7. /\ \A s \in Slots : keys'[s] = IF s = empty THEN v ELSE keys[s]
      /\ keys' \in [Slots -> Codes \cup {NoKey}]
  BY <1>2, <1>3, <1>5
<1>8. /\ Held' \subseteq Held \cup {empty} /\ Left' = Held' \ {i}
      /\ Held # {} => Left' = (Held \ {i}) \cup {empty}
      /\ Held = {} => Left' \in {{}, {empty}}
  BY <1>1, <1>3, <1>4, <1>5, <1>6, <1>7 DEF Held, Left
<1>9. Typed' /\ Adds' /\ Absent'
  <2>1. Typed'
    BY <1>1, <1>7 DEF Typed
  <2>2. \A s \in Held' : keys'[s] \in down /\ keys'[s] # code
    <3> SUFFICES ASSUME NEW s \in Held' PROVE keys'[s] \in down /\ keys'[s] # code
      OBVIOUS
    <3>1. CASE s = empty
      BY <1>3, <1>5, <1>7, <3>1 DEF Held
    <3>2. CASE s # empty
      BY <1>3, <1>7, <1>8, <3>2 DEF ReleaseClears, Absent, Held
    <3> QED  BY <3>1, <3>2
  <2> QED  BY <1>1, <1>3, <2>1, <2>2 DEF Adds, ReleaseClears, Absent
<1>10. Shift'
  <2>1. Order(i)' = Order(i) /\ Order(empty)' = Order(empty) /\ Goal' = Goal
    BY <1>1 DEF Order, Goal
  <2> QED  BY <1>1, <2>1 DEF AtMove, Shift
<1>11. \A s, t \in Left' : keys'[s] = keys'[t] => s = t
  <2>1. CASE Held = {}
    BY <1>8, <2>1
  <2>2. CASE Held # {}
    <3>1. keys'[empty] = keys[i] /\ i \in Held
      BY <1>3, <1>5, <1>7, <2>2
    <3>2. \A s \in Held \ {i} : keys'[s] = keys[s] /\ keys[s] # keys[i]
      BY <1>3, <1>4, <1>6, <1>7, <3>1 DEF NoDuplicates
    <3>3. \A s, t \in Held \ {i} : keys[s] = keys[t] => s = t
      BY <1>3 DEF NoDuplicates
    <3> QED  BY <1>8, <2>2, <3>1, <3>2, <3>3
  <2> QED  BY <2>1, <2>2
<1>12. \A s \in Left' : s = empty \/ Order(s) < Goal \/ Order(s) > Order(i)
  <2> SUFFICES ASSUME NEW s \in Left', s # empty PROVE Order(s) < Goal \/ Order(s) > Order(i)
    OBVIOUS
  <2>1. s \in Held /\ s # i /\ s \in Slots
    BY <1>4, <1>8
  <2>2. Order(s) < Goal \/ Order(s) >= Order(i)
    BY <1>1, <2>1 DEF AtMove, Apart
  <2>3. Order(s) # Order(i) /\ Order(s) \in 0 .. N-1 /\ Order(i) \in 0 .. N-1
    BY <1>3, <1>4, <2>1, OrderInjective
  <2> QED  BY <2>2, <2>3, RingAssumption, SMT
<1>13. Cardinality(Left') <= count /\ Cardinality(Held) <= Cardinality(Left')
       /\ Cardinality(Left') \in Nat /\ Cardinality(Held) \in Nat
  <2>1. CASE Held = {}
    <3>1. Cardinality(Held) = 0 /\ Cardinality({empty}) = 1
      <4>1. Cardinality({} \cup {empty}) = 1
        BY <1>3, OneMore, NoSlots
      <4> QED  BY <2>1, <4>1, NoSlots
    <3>2. Cardinality(Left') \in {0, 1}
      BY <1>8, <2>1, <3>1, NoSlots
    <3> QED  BY <1>3, <1>4, <3>1, <3>2
  <2>2. CASE Held # {}
    <3> DEFINE S == Held \ {i}
    <3>1. Cardinality(S) = Cardinality(Held) - 1 /\ Cardinality(Held) \in 0 .. N
      BY <1>3, <1>4, <1>5, <2>2, OneMore
    <3>2. Cardinality(S \cup {empty}) = Cardinality(S) + 1
      BY <1>3, <1>4, <1>6, OneMore
    <3> HIDE DEF S
    <3>3. Cardinality(S \cup {empty}) = Cardinality(Held)
      BY <3>1, <3>2, RingAssumption, SMT
    <3>4. Left' = S \cup {empty}
      BY <1>8, <2>2 DEF S
    <3>5. Cardinality(Left') = Cardinality(Held)
      BY <3>3, <3>4
    <3>6. Cardinality(Held) \in Nat /\ Cardinality(Held) <= Cardinality(Held)
      BY <3>1, Sums
    <3> QED  BY <1>3, <3>5, <3>6
  <2> QED  BY <2>1, <2>2
<1>14. Drift(Left, 0)'
  <2>1. count + 0 <= Cardinality(Held) + Allowed
    BY <1>3 DEF Drift
  <2>2. count + 0 <= Cardinality(Left') + Allowed
    BY <1>4, <1>13, <2>1, SumGrows
  <2> QED  BY <1>1, <1>4, <2>2 DEF Drift
<1>15. \A s \in Left' : s = empty \/ Order(s)' < Goal' \/ Order(s)' > Order(i)'
  BY <1>1, <1>12 DEF Order, Goal
<1> QED  BY <1>1, <1>3, <1>9, <1>10, <1>11, <1>13, <1>14, <1>15 DEF AtLeave, StepInv

LEMMA LeaveStep ==
    ASSUME FewCuts, StepInv, Leave
    PROVE  ShiftStep(Goal + 1)
<1>1. /\ AtLeave /\ Typed /\ keys' = [keys EXCEPT ![i] = NoKey] /\ empty' = RO_INC(empty)
      /\ AfterShift(offset) /\ offset' = offset
      /\ UNCHANGED <<head, count, clears, down, code>>
  BY DEF Leave, StepInv
<1>2. /\ keys \in [Slots -> Codes \cup {NoKey}] /\ head \in Slots /\ i \in Slots
      /\ empty \in Slots /\ i # empty /\ Adds /\ Absent /\ tail = head
      /\ offset \in Nat \ {0} /\ Goal = Order(i) - offset /\ Goal >= -1
      /\ Order(empty) = IF Goal = -1 THEN N - 1 ELSE Goal
      /\ Order(i) \in 0 .. N-1 /\ Order(empty) \in 0 .. N-1 /\ Order(i) # Order(empty)
  BY <1>1, OrderRange, OrderInjective DEF AtLeave, Typed, Shift, Goal
<1>3. /\ Held' = Left /\ keys' \in [Slots -> Codes \cup {NoKey}] /\ Left \subseteq Held
      /\ \A s \in Left : keys'[s] = keys[s] /\ s \in Slots
  BY <1>1, <1>2 DEF Held, Left
<1>4. /\ Typed' /\ Adds' /\ Absent' /\ NoDuplicates'
      /\ Cardinality(Held') <= count' /\ Drift(Held, 0)'
  <2>1. Typed'
    BY <1>1, <1>3 DEF Typed
  <2>2. Adds' /\ Absent'
    BY <1>1, <1>2, <1>3 DEF Adds, ReleaseClears, Absent
  <2>3. NoDuplicates' /\ Cardinality(Held') <= count'
    BY <1>1, <1>3 DEF AtLeave, NoDuplicates
  <2>4. Drift(Held, 0)'
    BY <1>1, <1>3 DEF AtLeave, Drift, Allowed
  <2> QED  BY <2>1, <2>2, <2>3, <2>4
<1> DEFINE g == Goal + 1
<1>5. g \in Int /\ g = Order(i) + 1 - offset /\ g >= 0
  BY <1>2, RingAssumption, SMT
<1>6. empty' \in Slots /\ Order(empty') = g
  <2>1. /\ RO_INC(empty) \in Slots
        /\ Order(RO_INC(empty)) = IF Order(empty) = N - 1 THEN 0 ELSE Order(empty) + 1
    BY <1>2, RingStep, OrderSteps
  <2>2. Order(RO_INC(empty)) = g
    BY <1>2, <2>1, RingAssumption, SMT
  <2> QED  BY <1>1, <2>1, <2>2
<1>7. \A s \in Held' : Order(s) < g \/ Order(s) > Order(i)
  <2> SUFFICES ASSUME NEW s \in Left PROVE Order(s) < g \/ Order(s) > Order(i)
    BY <1>3
  <2>1. s \in Slots /\ Order(s) \in 0 .. N-1
        /\ (s = empty \/ Order(s) < Goal \/ Order(s) > Order(i))
    BY <1>1, <1>2, <1>3, OrderRange DEF AtLeave
  <2>2. CASE s = empty
    BY <1>2, <2>2, RingAssumption, SMT
  <2> QED  BY <1>2, <2>1, <2>2, RingAssumption, SMT
<1> HIDE DEF g
<1>8. Order(empty') = (IF g = -1 THEN N - 1 ELSE g) /\ g # -1
  BY <1>5, <1>6, SMT
<1>9. ShiftStep(g)
  BY <1>1, <1>2, <1>4, <1>5, <1>6, <1>7, <1>8 DEF ShiftStep
<1> QED  BY <1>9 DEF g

LEMMA LeaveKeeps ==
    ASSUME FewCuts, StepInv, Leave
    PROVE  StepInv'
BY LeaveStep, ShiftOn

-----------------------------------------------------------------------------
LEMMA PopKeeps ==
    ASSUME FewCuts, StepInv, Pop
    PROVE  StepInv'
<1>1. /\ AtPop /\ Typed /\ head' = RO_INC(head) /\ count' = (count - 1) % CountMod
      /\ pc' = "put" /\ UNCHANGED <<keys, tail, clears, down, code>>
  BY DEF Pop, StepInv, Goto
<1>2. /\ head \in Slots /\ tail = head /\ count \in 0 .. CountMod-1 /\ count # 0
      /\ Adds /\ Absent /\ NoDuplicates /\ Cardinality(Held) <= count /\ Drift(Held, 0)
      /\ (Cut \/ Held = Slots)
  BY <1>1 DEF AtPop, Typed, Adds, Sound
<1>3. count' = count - 1 /\ count' \in 0 .. CountMod-1
  <2>1. count - 1 \in 0 .. 2 * CountMod - 1
    BY <1>2, RingAssumption, SMT
  <2> QED  BY <1>1, <1>2, <2>1, ModOnce, RingAssumption, SMT
<1>4. /\ Held \subseteq Slots /\ Held' = Held /\ Others' = Others /\ Others \subseteq Held
      /\ Allowed' = Allowed /\ Allowed \in Nat /\ count \in Nat
  BY <1>1, StepRoom DEF Held, Others, Allowed
<1>5. Typed'
  BY <1>1, <1>2, <1>3, RingStep DEF Typed
<1>6. /\ Cardinality(Held) \in 0 .. N
      /\ Cardinality(Others) = IF tail \in Held THEN Cardinality(Held) - 1 ELSE Cardinality(Held)
      /\ Cardinality(Held \cup {tail}) =
            IF tail \in Held THEN Cardinality(Held) ELSE Cardinality(Held) + 1
  BY <1>2, <1>4, OneMore DEF Others
<1>7. Cardinality(Others) <= count' /\ count' + 1 <= Cardinality(Held \cup {tail}) + Allowed
  <2>1. CASE Cut
    <3>1. Held = {} /\ count + 1 <= 0 + Allowed
      BY <2>1, NoSlots DEF Cut, Drift
    <3>2. Cardinality(Held) = 0
      BY <3>1, NoSlots
    <3>3. count + 1 <= 1 + Allowed
      BY <1>4, <3>1, Sums
    <3> QED  BY <1>2, <1>3, <1>4, <1>6, <3>1, <3>2, <3>3, RingAssumption, SMT
  <2>2. CASE Held = Slots
    <3>1. tail \in Held /\ count + 0 <= Cardinality(Held) + Allowed
      BY <1>2, <2>2 DEF Drift
    <3> QED  BY <1>2, <1>3, <1>4, <1>6, <3>1, RingAssumption, SMT
  <2> QED  BY <1>2, <2>1, <2>2
<1>8. Drift(Held \cup {tail}, 1)'
  BY <1>1, <1>4, <1>7 DEF Drift
<1>9. Held' \subseteq Turn(head, RO_INC(tail))'
  BY <1>1, <1>2, <1>4 DEF Turn, RO_INC, RO_ADD
<1>10. \A s, t \in Others' : keys'[s] = keys'[t] => s = t
  BY <1>1, <1>2, <1>4 DEF NoDuplicates
<1>11. \A s \in Others' : keys'[s] \in down' /\ keys'[s] # code'
  BY <1>1, <1>2, <1>4 DEF Adds, ReleaseClears, Absent
<1>12. code' \in Codes \cap down' /\ tail' \in Slots /\ Cardinality(Others') <= count'
  BY <1>1, <1>2, <1>4, <1>7 DEF Adds
<1> QED  BY <1>1, <1>5, <1>8, <1>9, <1>10, <1>11, <1>12 DEF AtPut, StepInv

LEMMA PutKeeps ==
    ASSUME FewCuts, StepInv, Put
    PROVE  StepInv'
<1>1. /\ AtPut /\ Typed /\ tail' = RO_INC(tail) /\ count' = (count + 1) % CountMod
      /\ IF tail \in Slots THEN keys' = [keys EXCEPT ![tail] = code] ELSE keys' = keys
      /\ pc' = "idle" /\ empty' = None /\ UNCHANGED <<head, clears, down>>
  BY DEF Put, StepInv, Done
<1>2. /\ head \in Slots /\ count \in 0 .. CountMod-1 /\ code \in Codes \cap down
      /\ keys \in [Slots -> Codes \cup {NoKey}]
      /\ Allowed \in Nat /\ Allowed' = Allowed /\ N + Allowed < CountMod /\ count \in Nat
      /\ Held \subseteq Slots /\ NoKey \notin Codes
  BY <1>1, StepRoom DEF AtPut, Typed, Allowed
<1>3. CASE tail \in Slots
  <2>1. Held \subseteq Turn(head, RO_INC(tail)) /\ Drift(Held \cup {tail}, 1)
    <3>1. tail # -1
      BY <1>3, RingAssumption, SMT DEF Slots
    <3> QED  BY <1>1, <3>1 DEF AtPut
  <2>2. /\ \A s \in Slots : keys'[s] = IF s = tail THEN code ELSE keys[s]
        /\ keys' \in [Slots -> Codes \cup {NoKey}]
    BY <1>1, <1>2, <1>3
  <2>3. Held' = Held \cup {tail} /\ Held' = Others \cup {tail} /\ Others \subseteq Held
        /\ tail \notin Others
    BY <1>2, <1>3, <2>2 DEF Held, Others
  <2> DEFINE d == Cardinality(Held \cup {tail})
             o == Cardinality(Others)
  <2>4. d = o + 1 /\ d \in 0 .. N
    <3>1. Cardinality(Others \cup {tail}) = Cardinality(Others) + 1
          /\ Cardinality(Others \cup {tail}) \in 1 .. N
      BY <1>2, <1>3, <2>3, OneMore
    <3>2. Held \cup {tail} = Others \cup {tail}
      BY <2>3
    <3>3. d = o + 1 /\ d \in 1 .. N
      BY <3>1, <3>2
    <3>4. \A x \in 1 .. N : x \in 0 .. N
      BY RingAssumption, SMT
    <3> QED  BY <3>3, <3>4
  <2>5. o <= count /\ count + 1 <= d + Allowed
    BY <1>1, <2>1 DEF AtPut, Drift
  <2> HIDE DEF d, o
  <2>6. count + 1 < CountMod
    BY <1>2, <2>4, <2>5, RingAssumption, SMT
  <2>7. count' = count + 1 /\ count' \in 0 .. CountMod-1
    <3>1. count + 1 \in 0 .. 2 * CountMod - 1
      BY <1>2, <2>6, RingAssumption, SMT
    <3> QED  BY <1>1, <1>2, <2>6, <3>1, ModOnce, RingAssumption, SMT
  <2>8. d <= count' /\ count' + 0 <= d + Allowed
    <3>1. o \in Nat
      BY <1>2, OneMore, SlotSetFinite, <2>3, <1>3 DEF o
    <3> QED  BY <1>2, <2>4, <2>5, <2>7, <3>1, Sums
  <2>9. Cardinality(Held') <= count' /\ Drift(Held, 0)'
    BY <1>2, <2>3, <2>8 DEF Drift, d
  <2>10. NoDuplicates' /\ ReleaseClears'
    <3>1. /\ \A s, t \in Others : keys[s] = keys[t] => s = t
          /\ \A s \in Others : keys[s] \in down /\ keys[s] # code
      BY <1>1 DEF AtPut
    <3>2. \A s \in Others : keys'[s] = keys[s] /\ keys'[tail] = code
      BY <1>2, <1>3, <2>2, <2>3
    <3>3. keys'[tail] = code
      BY <1>3, <2>2
    <3> QED  BY <1>1, <1>2, <2>3, <3>1, <3>2, <3>3 DEF NoDuplicates, ReleaseClears
  <2>11. tail' \in Slots /\ HeldIsScanned'
    <3>1. RO_SUB(tail, head) \in 0 .. N-1 /\ RO_INC(tail) \in Slots
      BY <1>2, <1>3, RingDistance, RingStep
    <3>2. RO_SUB(tail, head) <= RO_SUB(tail, head)
      BY <3>1, RingAssumption, SMT
    <3>3. tail \in Turn(head, RO_INC(tail))
      BY <1>2, <1>3, <3>2, TurnBehind
    <3> QED  BY <1>1, <2>1, <2>3, <3>1, <3>3 DEF HeldIsScanned, Scanned
  <2>12. Typed'
    BY <1>1, <2>2, <2>7 DEF Typed
  <2> QED  BY <1>1, <2>9, <2>10, <2>11, <2>12 DEF AtIdle, Sound, StepInv
<1>4. CASE tail \notin Slots
  <2>1. tail = -1 /\ Cut /\ keys' = keys
    BY <1>1, <1>4 DEF AtPut
  <2>2. tail' \in Slots
    <3>1. (-1 + 1) % N = 0
      BY RingAssumption, SMT
    <3> QED  BY <1>1, <2>1, <3>1, RingAssumption, SMT DEF RO_INC, RO_ADD, Slots
  <2>3. Held' = {} /\ count + 1 <= 0 + Allowed
    BY <2>1, NoSlots DEF Cut, Drift, Held
  <2>4. count' = count + 1 /\ count' \in 0 .. CountMod-1
    <3>1. count + 1 < CountMod
      BY <1>2, <2>3, RingAssumption, SMT
    <3>2. count + 1 \in 0 .. 2 * CountMod - 1
      BY <1>2, <3>1, RingAssumption, SMT
    <3> QED  BY <1>1, <1>2, <3>1, <3>2, ModOnce, RingAssumption, SMT
  <2>5. Cardinality(Held') = 0 /\ 0 <= count' /\ count' + 0 <= 0 + Allowed
    BY <1>2, <2>3, <2>4, NoSlots, RingAssumption, SMT
  <2>6. Drift(Held, 0)' /\ Cardinality(Held') <= count'
    BY <1>2, <2>5 DEF Drift
  <2>7. Typed'
    BY <1>1, <2>1, <2>4 DEF Typed
  <2> QED  BY <1>1, <2>2, <2>3, <2>6, <2>7
           DEF AtIdle, Sound, NoDuplicates, HeldIsScanned, ReleaseClears, StepInv
<1> QED  BY <1>3, <1>4

-----------------------------------------------------------------------------
LEMMA CallDelKeeps ==
    ASSUME FewCuts, StepInv, NEW c \in Codes, CallDel(c)
    PROVE  StepInv'
<1>1. /\ AtIdle /\ Typed /\ pc = "idle" /\ down' = down \ {c} /\ empty' = empty
      /\ UNCHANGED <<keys, head, tail, count, clears>>
      /\ IF count # 0 THEN pc' = "search" /\ code' = c /\ i' = head ELSE pc' = pc
  BY DEF CallDel, Goto, StepInv
<1>2. /\ Held' = Held /\ Scanned' = Scanned /\ Sound' /\ Sound
      /\ head \in Slots /\ tail \in Slots
      /\ \A s : Order(s)' = Order(s)
  BY <1>1, RingStill DEF AtIdle, Sound, Typed
<1>3. Typed'
  BY <1>1 DEF Typed
<1>4. CASE count # 0
  <2>1. Dels'
    BY <1>1, <1>2, <1>4 DEF Dels, AtIdle, ReleaseClears
  <2>2. i' \in Scanned' /\ Order(i)' = 0
    <3>1. Order(i)' = Order(head)
      BY <1>1, <1>4 DEF Order
    <3> QED  BY <1>1, <1>2, <1>4, <3>1, HeadVisited
  <2>3. \A s \in Held : ~ (Order(s) < 0)
    BY <1>2, OrderRange, RingAssumption, SMT DEF Held
  <2>4. Passed(Order(i))'
    BY <1>2, <2>2, <2>3 DEF Passed
  <2> QED  BY <1>1, <1>2, <1>3, <1>4, <2>1, <2>2, <2>4 DEF AtSearch, StepInv
<1>5. CASE count = 0
  <2>1. Held = {}
    <3>1. Cardinality(Held) <= 0 /\ Cardinality(Held) \in 0 .. N
          /\ (Cardinality(Held) = 0 <=> Held = {})
      BY <1>1, <1>5, SlotSetFinite, StepRoom DEF AtIdle, Sound
    <3> QED  BY <3>1, RingAssumption, SMT
  <2> QED  BY <1>1, <1>2, <1>3, <1>5, <2>1 DEF AtIdle, ReleaseClears, StepInv
<1> QED  BY <1>4, <1>5

\* the search loop of del_key_byte
LEMMA SearchKeeps ==
    ASSUME FewCuts, StepInv, SearchFound \/ SearchOther
    PROVE  StepInv'
<1>1. /\ AtSearch /\ Typed /\ pc = "search"
      /\ UNCHANGED <<keys, head, tail, count, clears, down>>
  BY DEF SearchFound, SearchOther, StepInv, vars
<1>2. /\ Held' = Held /\ Scanned' = Scanned /\ Sound' /\ Sound
      /\ \A s : Order(s)' = Order(s)
      /\ Typed' /\ head \in Slots /\ tail \in Slots
  BY <1>1, RingStill DEF AtSearch, Sound, Typed
<1>3. /\ i \in Slots /\ Order(i) \in 0 .. N-1
      /\ RO_INC(i) # tail => RO_INC(i) \in Scanned /\ Order(RO_INC(i)) = Order(i) + 1
      /\ RO_INC(i) = tail => \A t \in Scanned : Order(t) <= Order(i)
  BY <1>1, <1>2, Visited DEF AtSearch
<1>4. \A s \in Held : s \in Slots /\ s \in Scanned /\ Order(s) \in 0 .. N-1
  BY <1>2, OrderRange DEF Sound, HeldIsScanned, Held
<1>5. \A s \in Held : Order(s) < Order(i) => keys[s] # code
  BY <1>1 DEF AtSearch, Passed
<1>6. CASE SearchFound
  <2>1. pc' = "release" /\ code' = code /\ i' = i /\ keys[i] = code
    BY <1>6 DEF SearchFound, Goto
  <2>2. code \in Codes /\ NoKey \notin Codes
    BY <1>1, RingAssumption DEF AtSearch, Dels
  <2>3. i \in Held
    BY <1>3, <2>1, <2>2 DEF Held
  <2>4. \A s \in Held : keys[s] = code => s = i
    BY <1>2, <2>1, <2>3 DEF Sound, NoDuplicates
  <2> QED  BY <1>1, <1>2, <2>1, <2>3, <2>4 DEF AtSearch, AtRelease, Dels, StepInv
<1>7. CASE SearchOther
  <2>0. keys[i] # code
    BY <1>7 DEF SearchOther
  <2>1. CASE RO_INC(i) # tail
    <3>1. pc' = "search" /\ code' = code /\ i' = RO_INC(i)
      BY <1>1, <1>7, <2>1 DEF SearchOther
    <3>2. Order(i)' = Order(i) + 1 /\ i' \in Scanned'
      BY <1>1, <1>2, <1>3, <2>1, <3>1 DEF Order
    <3>3. Passed(Order(i))'
      <4> SUFFICES ASSUME NEW s \in Held, Order(s) < Order(i) + 1 PROVE keys[s] # code
        BY <1>1, <1>2, <3>1, <3>2 DEF Passed
      <4>1. Order(s) < Order(i) \/ Order(s) = Order(i)
        BY <1>3, <1>4, RingAssumption, SMT
      <4>2. Order(s) = Order(i) => s = i
        BY <1>2, <1>3, <1>4, OrderInjective
      <4> QED  BY <1>5, <2>0, <4>1, <4>2
    <3> QED  BY <1>1, <1>2, <3>1, <3>2, <3>3 DEF AtSearch, Dels, StepInv
  <2>2. CASE RO_INC(i) = tail
    <3>1. pc' = "idle" /\ empty' = None
      BY <1>7, <2>2 DEF SearchOther, Done
    <3>2. \A s \in Held : keys[s] # code
      <4> SUFFICES ASSUME NEW s \in Held PROVE keys[s] # code
        OBVIOUS
      <4>1. Order(s) < Order(i) \/ Order(s) = Order(i)
        BY <1>3, <1>4, <2>2, RingAssumption, SMT
      <4>2. Order(s) = Order(i) => s = i
        BY <1>2, <1>3, <1>4, OrderInjective
      <4> QED  BY <1>5, <2>0, <4>1, <4>2
    <3>3. ReleaseClears'
      BY <1>1, <1>2, <3>2 DEF AtSearch, Dels, ReleaseClears
    <3> QED  BY <1>2, <3>1, <3>3 DEF AtIdle, StepInv
  <2> QED  BY <2>1, <2>2
<1> QED  BY <1>6, <1>7

\* the key leaves its slot, and with the last one the indices start again
LEMMA ReleaseKeeps ==
    ASSUME FewCuts, StepInv, Release
    PROVE  StepInv'
<1>1. /\ AtRelease /\ Typed /\ keys' = [keys EXCEPT ![i] = NoKey]
      /\ count' = (count - 1) % CountMod
      /\ head' = (IF count' = 0 THEN 0 ELSE head) /\ tail' = (IF count' = 0 THEN 0 ELSE tail)
      /\ IF i = RO_DEC(tail') THEN pc' = "retract" ELSE pc' = "idle" /\ empty' = None
      /\ UNCHANGED <<clears, down>>
  BY DEF Release, Goto, Done, StepInv
<1>2. /\ head \in Slots /\ tail \in Slots /\ i \in Slots
      /\ count \in 0 .. CountMod-1 /\ count # 0
      /\ keys \in [Slots -> Codes \cup {NoKey}]
      /\ Allowed \in Nat /\ Allowed' = Allowed /\ count \in Nat /\ Held \subseteq Slots
      /\ Cardinality(Held) <= count /\ count + 0 <= Cardinality(Held) + Allowed
      /\ i \in Held \/ Held = {}
  BY <1>1, StepRoom DEF AtRelease, Sound, Typed, Scanned, Turn, Allowed, Drift
<1>3. /\ Held' = Held \ {i} /\ keys' \in [Slots -> Codes \cup {NoKey}]
      /\ \A s \in Held' : keys'[s] = keys[s]
  BY <1>1, <1>2 DEF Held
<1>4. count' = count - 1 /\ count' \in 0 .. CountMod-1
  <2>1. count - 1 \in 0 .. 2 * CountMod - 1
    BY <1>2, RingAssumption, SMT
  <2> QED  BY <1>1, <1>2, <2>1, ModOnce, RingAssumption, SMT
<1>5. /\ Cardinality(Held') <= count' /\ count' + 0 <= Cardinality(Held') + Allowed
      /\ (count' = 0 => Held' = {})
  <2>1. Cardinality(Held) \in 0 .. N /\ Cardinality(Held') \in 0 .. N
        /\ (Cardinality(Held') = 0 <=> Held' = {})
    BY <1>2, <1>3, SlotSetFinite
  <2>2. Cardinality(Held') = IF i \in Held THEN Cardinality(Held) - 1 ELSE Cardinality(Held)
    BY <1>2, <1>3, OneMore
  <2>3. Held = {} => Cardinality(Held) = 0
    BY NoSlots
  <2>4. ASSUME NEW a \in 0 .. N, NEW b \in 0 .. N, a <= count, count + 0 <= a + Allowed,
               b = a - 1 \/ (b = a /\ a = 0)
        PROVE  b <= count - 1 /\ count - 1 + 0 <= b + Allowed /\ (count - 1 = 0 => b = 0)
    BY <1>2, <2>4, RingAssumption, SMT
  <2> QED  BY <1>2, <1>4, <2>1, <2>2, <2>3, <2>4
<1>6. ReleaseClears' /\ NoDuplicates'
  <2>1. /\ \A s \in Held : keys[s] \in down \cup {code} /\ (keys[s] = code => s = i)
        /\ \A s, t \in Held : keys[s] = keys[t] => s = t
    BY <1>1 DEF AtRelease, Dels, Sound, NoDuplicates
  <2> QED  BY <1>1, <1>3, <2>1 DEF ReleaseClears, NoDuplicates
<1>7. head' \in Slots /\ tail' \in Slots /\ HeldIsScanned'
  <2>1. CASE count' = 0
    <3>1. 0 \in Slots
      BY RingAssumption, SMT DEF Slots
    <3> QED  BY <1>1, <1>5, <2>1, <3>1 DEF HeldIsScanned
  <2>2. CASE count' # 0
    <3>1. Scanned' = Scanned /\ head' = head /\ tail' = tail
      BY <1>1, <2>2 DEF Scanned
    <3> QED  BY <1>1, <1>2, <1>3, <3>1 DEF AtRelease, Sound, HeldIsScanned
  <2> QED  BY <2>1, <2>2
<1>8. Sound' /\ Typed'
  BY <1>1, <1>2, <1>3, <1>4, <1>5, <1>6, <1>7 DEF Sound, Drift, Typed
<1>9. i \notin Held'
  BY <1>3
<1> QED  BY <1>1, <1>6, <1>8, <1>9 DEF AtIdle, AtRetract, StepInv

\* tail goes one slot back, over a slot without a key
LEMMA RetractKeeps ==
    ASSUME FewCuts, StepInv, Retract
    PROVE  StepInv'
<1> DEFINE u == RO_DEC(tail)
<1>1. /\ AtRetract /\ Typed /\ tail' = u
      /\ UNCHANGED <<keys, head, count, clears, down>>
      /\ \/ pc' = "idle" /\ empty' = None
         \/ pc' = "retract" /\ keys[RO_DEC(u)] = NoKey
  BY DEF Retract, Done, locals, StepInv
<1>2. /\ head \in Slots /\ tail \in Slots /\ u \in Slots /\ u \notin Held /\ RO_INC(u) = tail
      /\ Held \subseteq Turn(head, tail)
  <2>1. head \in Slots /\ tail \in Slots
    BY <1>1 DEF AtRetract, Sound, Typed
  <2>2. u \in Slots /\ u = (IF tail = 0 THEN N-1 ELSE tail - 1)
    BY <2>1, RingStep
  <2>3. RO_INC(u) = IF u = N-1 THEN 0 ELSE u + 1
    BY <2>2, RingStep
  <2>4. RO_INC(u) = tail
    BY <2>1, <2>2, <2>3, RingAssumption, SMT DEF Slots
  <2> QED  BY <1>1, <2>1, <2>2, <2>4 DEF AtRetract, Sound, HeldIsScanned, Scanned
<1> HIDE DEF u
<1>3. Held' = Held /\ Typed' /\ ReleaseClears' /\ NoDuplicates'
      /\ Cardinality(Held') <= count' /\ Drift(Held, 0)'
  BY <1>1 DEF AtRetract, Sound, Held, Typed, ReleaseClears, NoDuplicates, Drift, Allowed
<1>4. Held \subseteq Turn(head, u)
  <2> SUFFICES ASSUME NEW s \in Held PROVE s \in Turn(head, u)
    OBVIOUS
  <2>1. s \in Slots /\ s # u /\ RO_SUB(s, head) <= RO_SUB(u, head)
    BY <1>2, TurnBehind DEF Held
  <2>2. Order(s) # Order(u) /\ Order(s) \in 0 .. N-1 /\ Order(u) \in 0 .. N-1
    BY <1>2, <2>1, OrderInjective, OrderRange
  <2>3. Order(s) < Order(u)
    BY <2>1, <2>2, RingAssumption, SMT DEF Order
  <2> QED  BY <2>1, <2>3 DEF Turn, Order
<1>5. Sound'
  BY <1>1, <1>2, <1>3, <1>4 DEF Sound, HeldIsScanned, Scanned
<1>6. keys[RO_DEC(u)] = NoKey => RO_DEC(tail)' \notin Held'
  BY <1>1, <1>3 DEF Held, RO_DEC, RO_SUB
<1> QED  BY <1>1, <1>3, <1>5, <1>6 DEF AtIdle, AtRetract, StepInv

-----------------------------------------------------------------------------
\* what the allowance grows by
LEMMA OneMoreClear ==
    ASSUME NEW c \in Nat
    PROVE  (N + 1) * (c + 1) = (N + 1) * c + N + 1
BY RingAssumption, SMT

(* A clear empties the report and leaves a count within the new allowance. *)
LEMMA Emptied ==
    ASSUME FewCuts, Typed, clear_keys, NEW S, S \subseteq Slots, Drift(S, 0)
    PROVE  /\ Held' = {} /\ Typed' /\ NoDuplicates' /\ HeldIsScanned' /\ ReleaseClears'
           /\ Cardinality(Held') <= count'
           /\ Drift({}, 0)' /\ Drift({}, 1)' /\ Cut'
           /\ tail \in Slots => Drift(Held \cup {tail}, 1)'
<1>1. /\ keys' = [s \in Slots |-> NoKey] /\ clears < MaxClears /\ clears' = clears + 1
      /\ UNCHANGED <<head, tail, count, down>>
      /\ clears \in 0 .. MaxClears
  BY DEF clear_keys, Typed
<1>2. Held' = {} /\ Typed'
  <2>1. Held' = {} /\ keys' \in [Slots -> Codes \cup {NoKey}]
    BY <1>1 DEF Held
  <2>2. clears' \in 0 .. MaxClears
    BY <1>1, RingAssumption, SMT
  <2> QED  BY <1>1, <2>1, <2>2 DEF Typed
<1>3. Allowed' = Allowed + N + 1
  <2>1. clears \in Nat
    BY <1>1, RingAssumption, SMT
  <2> QED  BY <1>1, <2>1, OneMoreClear DEF Allowed
<1>4. count + 1 <= Allowed + N + 1 /\ Allowed \in Nat /\ count \in Nat
  <2>1. Allowed \in Nat /\ count \in Nat /\ Cardinality(S) \in 0 .. N
        /\ count + 0 <= Cardinality(S) + Allowed
    BY StepRoom, SlotSetFinite DEF Drift
  <2>2. ASSUME NEW a \in 0 .. N, count + 0 <= a + Allowed PROVE count + 1 <= Allowed + N + 1
    BY <2>1, <2>2, RingAssumption, SMT
  <2> QED  BY <2>1, <2>2
<1>5. Cardinality({}) <= count' /\ Drift({}, 0)' /\ Drift({}, 1)'
  <2>1. 0 <= count /\ count + 0 <= 0 + (Allowed + N + 1) /\ count + 1 <= 0 + (Allowed + N + 1)
    BY <1>4, RingAssumption, SMT
  <2> QED  BY <1>1, <1>3, <2>1, NoSlots DEF Drift
<1>6. ASSUME tail \in Slots PROVE Drift(Held \cup {tail}, 1)'
  <2>1. Cardinality({} \cup {tail}) = 1
    BY <1>6, OneMore, NoSlots
  <2>2. count + 1 <= 1 + (Allowed + N + 1)
    BY <1>4, RingAssumption, SMT
  <2>3. Held' \cup {tail'} = {} \cup {tail}
    BY <1>1, <1>2
  <2> QED  BY <1>1, <1>3, <2>1, <2>2, <2>3 DEF Drift
<1> QED  BY <1>2, <1>4, <1>5, <1>6
         DEF Cut, NoDuplicates, HeldIsScanned, ReleaseClears
LEMMA InterruptKeeps ==
    ASSUME FewCuts, StepInv, Interrupt
    PROVE  StepInv'
<1>1. /\ clear_keys /\ Typed /\ UNCHANGED <<pc, code, i, empty, offset, reg>>
      /\ UNCHANGED <<head, tail, count, down>>
  BY DEF Interrupt, clear_keys, locals, StepInv
<1>2. /\ Scanned' = Scanned /\ Goal' = Goal
      /\ \A s : Order(s)' = RO_SUB(s', head)
      /\ Order(i)' = Order(i) /\ Order(empty)' = Order(empty)
      /\ (Shift => Shift')
  BY <1>1 DEF Scanned, Order, Goal, Shift
<1>3. Held \subseteq Slots /\ (tail \in Slots => Held \cup {tail} \subseteq Slots) /\ {} \subseteq Slots
  BY DEF Held
\* where no key is about to be overwritten or moved
<1>4. ASSUME Sound
      PROVE  /\ Sound' /\ Held' = {} /\ Typed' /\ ReleaseClears' /\ Cut'
             /\ Drift(Held, 1)' /\ Cardinality(Held') <= count'
  <2>1. Drift(Held, 0) /\ tail \in Slots
    BY <1>4 DEF Sound
  <2>2. /\ Held' = {} /\ Typed' /\ NoDuplicates' /\ HeldIsScanned' /\ ReleaseClears'
        /\ Cardinality(Held') <= count' /\ Drift({}, 0)' /\ Drift({}, 1)' /\ Cut'
    BY <1>1, <1>3, <2>1, Emptied
  <2>3. Drift(Held, 0)' /\ Drift(Held, 1)'
    BY <2>2 DEF Drift
  <2> QED  BY <1>1, <2>1, <2>2, <2>3 DEF Sound
<1>5. CASE pc = "idle" /\ AtIdle
  BY <1>1, <1>4, <1>5 DEF AtIdle, StepInv
<1>6. CASE pc = "scan" /\ AtScan
  BY <1>1, <1>2, <1>4, <1>6 DEF AtScan, Adds, Passed, Seen, StepInv
<1>7. CASE pc = "hole" /\ AtHole
  BY <1>1, <1>2, <1>4, <1>7 DEF AtHole, Adds, Passed, Seen, StepInv
<1>8. CASE pc = "pop" /\ AtPop
  BY <1>1, <1>4, <1>8 DEF AtPop, Adds, Absent, StepInv
<1>9. CASE pc = "shift" /\ AtShift
  BY <1>1, <1>2, <1>4, <1>9 DEF AtShift, Adds, Absent, Apart, StepInv
<1>10. CASE pc = "move" /\ AtMove
  BY <1>1, <1>2, <1>4, <1>10 DEF AtMove, Adds, Absent, Apart, StepInv
<1>11. CASE pc = "leave" /\ AtLeave
  <2>1. Left \subseteq Slots /\ Drift(Left, 0)
    BY <1>3, <1>11 DEF AtLeave, Left
  <2>2. /\ Held' = {} /\ Typed' /\ ReleaseClears' /\ Cardinality(Held') <= count'
        /\ Drift({}, 0)' /\ Left' = {}
    BY <1>1, <2>1, Emptied DEF Left
  <2>3. Drift(Left, 0)'
    BY <2>2 DEF Drift
  <2> QED  BY <1>1, <1>2, <1>11, <2>2, <2>3 DEF AtLeave, Adds, Absent, StepInv
<1>12. CASE pc = "put" /\ AtPut
  <2> DEFINE T == IF tail \in Slots THEN Held \cup {tail} ELSE {}
  <2>1. T \subseteq Slots /\ Drift(T, 1)
    <3>1. -1 \notin Slots
      BY RingAssumption, SMT DEF Slots
    <3> QED  BY <1>3, <1>12, <3>1 DEF AtPut, Cut
  <2> HIDE DEF T
  <2>2. Drift(T, 0)
    <3>1. count \in Nat /\ Allowed \in Nat /\ Cardinality(T) \in 0 .. N
      BY <1>1, <2>1, StepRoom, SlotSetFinite
    <3>2. count + 1 <= Cardinality(T) + Allowed
      BY <2>1 DEF Drift
    <3>3. \A a \in 0 .. N : count + 1 <= a + Allowed => count + 0 <= a + Allowed
      BY <3>1, RingAssumption, SMT
    <3> QED  BY <3>1, <3>2, <3>3 DEF Drift
  <2>3. /\ Held' = {} /\ Typed' /\ Others' = {} /\ Cardinality(Others') <= count'
        /\ Cut' /\ (tail \in Slots => Drift(Held \cup {tail}, 1)')
    BY <1>1, <2>1, <2>2, Emptied DEF Others
  <2> QED  BY <1>1, <1>12, <2>3 DEF AtPut, StepInv
<1>13. CASE pc = "search" /\ AtSearch
  BY <1>1, <1>2, <1>4, <1>13 DEF AtSearch, Dels, Passed, StepInv
<1>14. CASE pc = "release" /\ AtRelease
  BY <1>1, <1>2, <1>4, <1>14 DEF AtRelease, Dels, StepInv
<1>15. CASE pc = "retract" /\ AtRetract
  BY <1>1, <1>4, <1>15 DEF AtRetract, StepInv
<1> QED  BY <1>5, <1>6, <1>7, <1>8, <1>9, <1>10, <1>11, <1>12, <1>13, <1>14, <1>15 DEF StepInv

LEMMA StepInvInit == StepInit => StepInv
<1> SUFFICES ASSUME StepInit PROVE StepInv
  OBVIOUS
<1>1. /\ keys = [s \in Slots |-> NoKey] /\ head = 0 /\ tail = 0 /\ count = 0 /\ clears = 0
      /\ down = {} /\ pc = "idle" /\ empty = None
  BY DEF StepInit, Init
<1>2. 0 \in Slots /\ 0 \in 0 .. CountMod-1 /\ 0 \in 0 .. MaxClears /\ (N + 1) * 0 = 0
  BY RingAssumption, SMT DEF Slots
<1>3. Held = {} /\ Typed
  BY <1>1, <1>2 DEF Held, Typed
<1>4. Cardinality(Held) <= count /\ Drift(Held, 0)
  <2>1. 0 <= 0 /\ 0 + 0 <= 0 + 0
    BY SMT
  <2> QED  BY <1>1, <1>2, <1>3, <2>1, NoSlots DEF Drift, Allowed
<1> QED  BY <1>1, <1>2, <1>3, <1>4
         DEF StepInv, AtIdle, Sound, NoDuplicates, HeldIsScanned, ReleaseClears

LEMMA StepInvStep ==
    ASSUME FewCuts, StepInv, [StepNext]_stepVars
    PROVE  StepInv'
<1>1. CASE Call
  BY <1>1, CallAddKeeps, CallDelKeeps DEF Call
<1>2. CASE Running
  <2>1. CASE InRing
    BY <2>1, ScanKeeps, HoleKeeps, PopKeeps, ShiftHoleKeeps, ShiftKeyKeeps, MoveKeeps, LeaveKeeps,
       SearchKeeps, ReleaseKeeps, RetractKeeps DEF InRing
  <2> QED  BY <1>2, <2>1, PutKeeps DEF Running
<1>3. CASE Interrupt
  BY <1>3, InterruptKeeps
<1>4. CASE UNCHANGED stepVars
  <2>1. UNCHANGED <<keys, head, tail, count, clears, down, pc, code, i, empty, offset, reg>>
    BY <1>4 DEF stepVars, vars, locals
  <2> QED  BY <2>1 DEF StepInv, Typed, AtIdle, AtScan, AtHole, AtPop, AtShift, AtMove, AtLeave,
                AtPut, AtSearch, AtRelease, AtRetract, Sound, Adds, Dels, Absent, Passed, Seen, Shift,
                Apart, Left, Others, Goal, Cut, Drift, Allowed, NoDuplicates, HeldIsScanned,
                ReleaseClears, Held, Scanned, Order
<1> QED  BY <1>1, <1>2, <1>3, <1>4 DEF StepNext

LEMMA StepInvariant ==
    ASSUME FewCuts PROVE StepSpec => []StepInv
BY StepInvInit, StepInvStep, PTL DEF StepSpec

(* SoundWhenIdle, for as many clears as the width of cb_count can absorb:  *)
(* wherever the interrupt cuts into the loops of add_key_byte and          *)
(* del_key_byte, the ring is a ring again when the call returns.           *)
THEOREM SoundAfterCut ==
    ASSUME FewCuts PROVE StepSpec => []SoundWhenIdle
<1>1. StepInv => SoundWhenIdle
  <2> SUFFICES ASSUME StepInv, pc = "idle"
               PROVE  /\ {head, tail} \subseteq Slots
                      /\ NoDuplicates /\ HeldIsScanned /\ Cardinality(Held) <= count
    BY DEF SoundWhenIdle
  <2>1. AtIdle /\ Typed
    BY DEF StepInv
  <2> QED  BY <2>1 DEF AtIdle, Sound, Typed
<1> QED  BY <1>1, StepInvariant, PTL

(* ReleasedWhenIdle: the key that a cut call of add_key_byte writes after  *)
(* the clear is one that is down, and its release takes it out.            *)
THEOREM ReleasedAfterCut ==
    ASSUME FewCuts PROVE StepSpec => []ReleasedWhenIdle
<1>1. StepInv => ReleasedWhenIdle
  BY DEF StepInv, AtIdle, ReleasedWhenIdle
<1> QED  BY <1>1, StepInvariant, PTL

-----------------------------------------------------------------------------
(* KeyRingQueue: the ring is the queue of HeldKeys.                        *)

(* A key lies right behind the tail, unless there is none: the one shift   *)
(* that would put the oldest key behind the others (Rotated) is never met. *)
TailOnKey == Held # {} => RO_DEC(tail) \in Held

QueueInv == RingInv /\ TailOnKey

LEMMA SeqOf ==
    ASSUME NEW S, NEW n \in Nat, NEW f \in [1 .. n -> S]
    PROVE  f \in Seq(S) /\ Len(f) = n
<1>1. f \in Seq(S)
  BY SeqDef
<1>2. Len(f) \in Nat /\ DOMAIN f = 1 .. Len(f) /\ DOMAIN f = 1 .. n
  BY <1>1, LenProperties
<1>3. Len(f) = n
  <2>1. ASSUME NEW m \in Nat, 1 .. m = 1 .. n PROVE m = n
    <3>1. \A k \in Int : k \in 1 .. m <=> k \in 1 .. n
      BY <2>1
    <3> QED  BY <3>1, SMT
  <2> QED  BY <1>2, <2>1
<1> QED  BY <1>1, <1>3

(* What HeldSequence lists, and that nothing else lists it.                *)
Listed(q) ==
    /\ q \in Seq(Codes) /\ Len(q) = Cardinality(Held)
    /\ \A t \in Held : Rank(t) + 1 \in 1 .. Len(q) /\ q[Rank(t) + 1] = keys[t]

QueueRead ==
    TypeOK =>
        /\ Cardinality(Held) \in 0 .. N
        /\ Listed(HeldSequence)
        /\ \A n \in 1 .. Len(HeldSequence) :
              \E t \in Held : Rank(t) = n - 1 /\ HeldSequence[n] = keys[t]
        /\ \A q \in Seq(Codes) : Listed(q) => HeldSequence = q

LEMMA QueueReads == QueueRead
<1> SUFFICES ASSUME TypeOK PROVE
        /\ Cardinality(Held) \in 0 .. N
        /\ Listed(HeldSequence)
        /\ \A n \in 1 .. Len(HeldSequence) :
              \E t \in Held : Rank(t) = n - 1 /\ HeldSequence[n] = keys[t]
        /\ \A q \in Seq(Codes) : Listed(q) => HeldSequence = q
  BY DEF QueueRead
<1> DEFINE c == Cardinality(Held)
<1>1. head \in Slots /\ Held \subseteq Slots /\ \A t \in Held : keys[t] \in Codes
  BY DEF TypeOK, Held
<1>2. c \in 0 .. N /\ c \in Nat
  <2>1. c \in 0 .. N
    BY <1>1, SlotSetFinite
  <2> HIDE DEF c
  <2> QED  BY <2>1, RingAssumption, SMT
<1>3. /\ \A t \in Held : Rank(t) \in 0 .. c-1
      /\ \A n \in 0 .. c-1 : \E t \in Held : Rank(t) = n
      /\ \A t, u \in Held : Rank(t) = Rank(u) => t = u
  BY <1>1, RankNumbersHeld
<1>4. HeldSequence = [n \in 1 .. c |-> keys[SlotOf(n)]]
  BY DEF HeldSequence
<1> HIDE DEF c
<1>5. \A n \in 1 .. c : n - 1 \in 0 .. c-1
  BY <1>2, SMT
<1>6. ASSUME NEW n \in 1 .. c
      PROVE  SlotOf(n) \in Held /\ Rank(SlotOf(n)) = n - 1
  BY <1>3, <1>5 DEF SlotOf
<1>7. HeldSequence \in Seq(Codes) /\ Len(HeldSequence) = c
  <2>1. HeldSequence \in [1 .. c -> Codes]
    BY <1>1, <1>4, <1>6
  <2> QED  BY <1>2, <2>1, SeqOf
<1>8. \A n \in 1 .. c : \E t \in Held : Rank(t) = n - 1 /\ HeldSequence[n] = keys[t]
  BY <1>4, <1>6
<1>9. ASSUME NEW t \in Held
      PROVE  Rank(t) + 1 \in 1 .. c /\ HeldSequence[Rank(t) + 1] = keys[t]
  <2>1. Rank(t) + 1 \in 1 .. c /\ Rank(t) + 1 - 1 = Rank(t)
    BY <1>2, <1>3, SMT
  <2>2. SlotOf(Rank(t) + 1) = t
    BY <1>3, <1>6, <2>1
  <2> QED  BY <1>4, <2>1, <2>2
<1>10. ASSUME NEW q \in Seq(Codes), Listed(q)
       PROVE  HeldSequence = q
  <2>1. Len(q) = c /\ \A t \in Held : q[Rank(t) + 1] = keys[t]
    BY <1>10 DEF Listed, c
  <2>2. ASSUME NEW n \in 1 .. c PROVE HeldSequence[n] = q[n]
    <3>1. PICK t \in Held : Rank(t) = n - 1 /\ HeldSequence[n] = keys[t]
      BY <1>8
    <3>2. (n - 1) + 1 = n
      BY <1>2, SMT
    <3> QED  BY <2>1, <3>1, <3>2
  <2> QED  BY <1>7, <2>1, <2>2, SeqEqual
<1> QED  BY <1>2, <1>7, <1>8, <1>9, <1>10 DEF Listed, c

LEMMA QueueReadsNext == QueueRead'
BY QueueReads, PTL

(* Where the held slots are the first of the turn, their rank is the turn. *)
FirstHeld ==
    TypeOK => \A m \in 0 .. N : Held = {s \in Slots : Order(s) < m}
                                   => \A s \in Held : Rank(s) = Order(s)

LEMMA FirstHeldRank == FirstHeld
<1> SUFFICES ASSUME TypeOK, NEW m \in 0 .. N, Held = {s \in Slots : Order(s) < m}, NEW s \in Held
             PROVE  Rank(s) = Order(s)
  BY DEF FirstHeld
<1>1. head \in Slots /\ s \in Slots /\ Order(s) \in 0 .. N-1 /\ Order(s) < m
  BY OrderRange DEF TypeOK, Held
<1>2. \A t \in Slots : Order(t) \in 0 .. N-1
  BY <1>1, OrderRange
<1>3. {t \in Held : Order(t) < Order(s)} = {t \in Slots : Order(t) < Order(s)}
  BY <1>1, <1>2, RingAssumption, SMT
<1> QED  BY <1>1, <1>3, FirstTurns DEF Rank

LEMMA FirstHeldRankNext == FirstHeld'
BY FirstHeldRank, PTL

(* The tail keeps to the keys.                                             *)
LEMMA RoundTrip ==
    ASSUME NEW s \in Slots
    PROVE  RO_INC(s) \in Slots /\ RO_DEC(RO_INC(s)) = s
<1>1. RO_INC(s) \in Slots /\ RO_INC(s) = IF s = N-1 THEN 0 ELSE s + 1
  BY RingStep
<1>2. RO_DEC(RO_INC(s)) = IF RO_INC(s) = 0 THEN N-1 ELSE RO_INC(s) - 1
  BY <1>1, RingStep
<1> QED  BY <1>1, <1>2, RingAssumption, SMT DEF Slots

LEMMA TailOnKeyStep ==
    ASSUME FewClears, QueueInv, [Next]_vars
    PROVE  TailOnKey'
<1>0. /\ RingInv /\ RingInv' /\ TailOnKey
      /\ keys \in [Slots -> Codes \cup {NoKey}] /\ head \in Slots /\ tail \in Slots
      /\ NoKey \notin Codes /\ count \in 0 .. CountMod-1
  BY InvStep, RingAssumption DEF QueueInv, RingInv, TypeOK
<1>1. ASSUME NEW key \in Codes, add_key_byte(key) PROVE TailOnKey'
  <2>1. CASE AddPresent(key)
    BY <1>0, <2>1 DEF AddPresent, TailOnKey, Held, RO_DEC, RO_SUB
  <2>2. ASSUME NEW slot \in Slots, NEW ks \in [Slots -> Codes \cup {NoKey}], PutAt(ks, slot, key)
        PROVE  TailOnKey'
    <3>1. tail' = RO_INC(slot) /\ keys'[slot] = key
      BY <2>2 DEF PutAt
    <3>2. slot \in Held'
      BY <1>0, <3>1 DEF Held
    <3>3. RO_DEC(tail)' = slot
      BY <3>1, RoundTrip DEF RO_DEC, RO_SUB
    <3> QED  BY <3>2, <3>3 DEF TailOnKey
  <2>3. CASE AddFree(key) \/ AddPop(key)
    BY <1>0, <2>2, <2>3 DEF AddFree, AddPop
  <2>4. CASE AddShift(key)
    <3>1. Shifted \in [Slots -> Codes \cup {NoKey}]
      BY <1>0, <2>4, ShiftedGathers DEF AddShift, Full, RingInv, Gathered
    <3>2. RO_SUB(tail, N - Cardinality(Held)) \in Slots
      <4>1. Cardinality(Held) \in 0 .. N
        BY SlotSetFinite DEF Held
      <4>2. tail - (N - Cardinality(Held)) + N \in Int
        BY <1>0, <4>1, RingAssumption, SMT DEF Slots
      <4> QED  BY <4>2, ModRange, RingAssumption, SMT DEF RO_SUB, Slots
    <3> QED  BY <2>2, <2>4, <3>1, <3>2 DEF AddShift
  <2> QED  BY <1>1, <2>1, <2>3, <2>4 DEF add_key_byte
<1>2. ASSUME NEW key \in Codes, del_key_byte(key) PROVE TailOnKey'
  <2>1. CASE DelMissing(key)
    BY <1>0, <2>1 DEF DelMissing, TailOnKey, Held, RO_DEC, RO_SUB
  <2>2. CASE DelPresent(key)
    <3> DEFINE at == First({s \in Scanned : keys[s] = key})
               ks == [keys EXCEPT ![at] = NoKey]
               c  == (count - 1) % CountMod
               h  == IF c = 0 THEN 0 ELSE head
               t  == IF c = 0 THEN 0 ELSE tail
    <3>1. /\ keys' = ks /\ count' = c /\ head' = h
          /\ tail' = IF at = RO_DEC(t) THEN Retracted(ks, h, t) ELSE t
      BY <2>2 DEF DelPresent
    <3>2. at \in Held /\ Held' = Held \ {at}
      <4>1. at \in Held
        BY <1>0, <2>2, PresentIsFound DEF DelPresent
      <4> HIDE DEF at
      <4> QED  BY <1>0, <3>1, <4>1 DEF Held
    <3>3. CASE c = 0
      <4>1. Cardinality(Held') <= 0
        BY <1>0, <3>1, <3>3 DEF RingInv, CountCoversHeld
      <4>2. Cardinality(Held') \in 0 .. N /\ (Cardinality(Held') = 0 <=> Held' = {})
        BY SlotSetFinite DEF Held
      <4>3. \A a \in 0 .. N : a <= 0 => a = 0
        BY RingAssumption, SMT
      <4> QED  BY <4>1, <4>2, <4>3 DEF TailOnKey
    <3>4. CASE c # 0 /\ at # RO_DEC(tail)
      BY <1>0, <3>1, <3>2, <3>4 DEF TailOnKey, RO_DEC, RO_SUB
    <3>5. CASE c # 0 /\ at = RO_DEC(tail)
      <4> DEFINE left == {s \in Turn(head, tail) : ks[s] # NoKey}
      <4>1. Held' = left
        BY <1>0, <3>1, <3>2 DEF Held, Turn, RingInv, HeldIsScanned, Scanned
      <4>2. tail' = Retracted(ks, head, tail)
        BY <3>1, <3>5
      <4>3. left = {} \/ \E m \in left : tail' = RO_INC(m)
        BY <1>0, <4>2, RetractedStops
      <4> HIDE DEF left, ks
      <4>4. ASSUME NEW m \in left, tail' = RO_INC(m) PROVE RO_DEC(tail)' \in left
        <5>1. m \in Slots
          BY <4>1, <4>4 DEF Held
        <5> QED  BY <4>4, <5>1, RoundTrip DEF RO_DEC, RO_SUB
      <4> QED  BY <4>1, <4>3, <4>4 DEF TailOnKey
    <3> QED  BY <3>3, <3>4, <3>5
  <2> QED  BY <1>2, <2>1, <2>2 DEF del_key_byte
<1>3. CASE clear_keys
  BY <1>3 DEF clear_keys, TailOnKey, Held
<1>4. CASE UNCHANGED vars
  BY <1>0, <1>4 DEF vars, TailOnKey, Held, RO_DEC, RO_SUB
<1> QED  BY <1>1, <1>2, <1>3, <1>4 DEF Next

-----------------------------------------------------------------------------
(* Each step is one of the queue's.                                        *)

\* where the keys stay and the head does
LEMMA QueueStill ==
    ASSUME UNCHANGED <<keys, head>>
    PROVE  HeldSequence' = HeldSequence /\ HK!Members' = HK!Members
<1>1. Held' = Held /\ \A s : Rank(s)' = Rank(s)
  BY DEF Held, Rank, Order
<1>2. \A n : SlotOf(n)' = SlotOf(n)
  BY <1>1 DEF SlotOf
<1>3. HeldSequence' = HeldSequence
  BY <1>1, <1>2 DEF HeldSequence
<1> QED  BY <1>3 DEF HK!Members

\* the members of the queue are the codes of the held slots
LEMMA QueueMembers ==
    ASSUME TypeOK
    PROVE  \A key : key \in HK!Members <=> \E t \in Held : keys[t] = key
<1>1. /\ \A t \in Held : /\ Rank(t) + 1 \in 1 .. Len(HeldSequence)
                         /\ HeldSequence[Rank(t) + 1] = keys[t]
      /\ \A n \in 1 .. Len(HeldSequence) :
            \E t \in Held : Rank(t) = n - 1 /\ HeldSequence[n] = keys[t]
  BY QueueReads DEF QueueRead, Listed
<1> QED  BY <1>1 DEF HK!Members

\* how the queue of the next state is recognised
LEMMA QueueNext ==
    ASSUME TypeOK', NEW q \in Seq(Codes), Len(q) = Cardinality(Held'),
           \A t \in Held' : Rank(t)' + 1 \in 1 .. Len(q) /\ q[Rank(t)' + 1] = keys'[t]
    PROVE  HeldSequence' = q
BY QueueReadsNext DEF QueueRead, Listed

LEMMA FreeIsPress ==
    ASSUME FewClears, RingInv, TypeOK', NEW key \in Codes, AddFree(key)
    PROVE  HK!Press(key)
<1> DEFINE c == Cardinality(Held)
<1>1. /\ TypeOK /\ keys \in [Slots -> Codes \cup {NoKey}] /\ head \in Slots /\ tail \in Slots
      /\ Held \subseteq Slots /\ NoKey \notin Codes
      /\ keys' = [keys EXCEPT ![tail] = key] /\ head' = head
  BY RingAssumption DEF RingInv, TypeOK, Held, AddFree, PutAt
<1>2. \A t \in Held : Order(t) < Order(tail)
  <2>1. CASE count = 0
    BY <2>1, CountRoom
  <2>2. CASE count # 0
    <3>1. tail # head
      BY <2>2 DEF AddFree, Full
    <3> QED  BY <3>1 DEF RingInv, HeldIsScanned, Scanned, Turn, Order
  <2> QED  BY <2>1, <2>2
<1>3. \A t \in Slots : Order(t) \in 0 .. N-1
  BY <1>1, OrderRange
<1>4. tail \notin Held
  BY <1>1, <1>2, <1>3, RingAssumption, SMT
<1>5. Held' = Held \cup {tail}
  BY <1>1 DEF Held
<1>6. c \in 0 .. N-1 /\ Cardinality(Held') = c + 1
  <2>1. IsFiniteSet(Held) /\ c \in 0 .. N /\ c # N
    BY <1>1, <1>4, SlotSetFinite
  <2>2. Cardinality(Held') = c + 1
    BY <1>4, <1>5, <2>1, FS_AddElement
  <2> HIDE DEF c
  <2> QED  BY <2>1, <2>2, RingAssumption, SMT
<1>7. /\ HeldSequence \in Seq(Codes) /\ Len(HeldSequence) = c
      /\ \A t \in Held : HeldSequence[Rank(t) + 1] = keys[t]
  BY <1>1, QueueReads DEF QueueRead, Listed
<1>8. key \notin HK!Members
  BY <1>1, AbsentIsNotHeld, QueueMembers DEF AddFree
<1>9. \A t \in Slots : Rank(t)' = Cardinality({u \in Held' : Order(u) < Order(t)})
  BY <1>1 DEF Rank, Order
<1>10. \A t \in Held : Rank(t)' = Rank(t) /\ Rank(t) \in 0 .. c-1
  <2> SUFFICES ASSUME NEW t \in Held PROVE Rank(t)' = Rank(t)
    BY <1>1, RankNumbersHeld
  <2>1. ~ (Order(tail) < Order(t))
    BY <1>1, <1>2, <1>3, RingAssumption, SMT
  <2>2. {u \in Held' : Order(u) < Order(t)} = {u \in Held : Order(u) < Order(t)}
    BY <1>5, <2>1
  <2> QED  BY <1>1, <1>9, <2>2 DEF Rank
<1>11. \A t \in Slots : t = tail => Rank(t)' = c
  <2> SUFFICES ASSUME NEW t \in Slots, t = tail PROVE Rank(t)' = c
    OBVIOUS
  <2>1. {u \in Held' : Order(u) < Order(t)} = Held
    BY <1>1, <1>2, <1>3, <1>5, RingAssumption, SMT
  <2> QED  BY <1>9, <2>1
<1> HIDE DEF c
<1> DEFINE q == Append(HeldSequence, key)
<1>12. /\ q \in Seq(Codes) /\ Len(q) = c + 1 /\ q[c + 1] = key
       /\ \A n \in 1 .. c : q[n] = HeldSequence[n]
  BY <1>7, AppendProperties
<1>13. \A n \in 0 .. c-1 : n + 1 \in 1 .. c /\ n + 1 \in 1 .. c + 1
  BY <1>6, SMT
<1>14. c + 1 \in 1 .. c + 1 /\ c # N
  BY <1>6, RingAssumption, SMT
<1> HIDE DEF q
<1>15. \A t \in Held' : Rank(t)' + 1 \in 1 .. Len(q) /\ q[Rank(t)' + 1] = keys'[t]
  <2> SUFFICES ASSUME NEW t \in Held'
               PROVE  Rank(t)' + 1 \in 1 .. Len(q) /\ q[Rank(t)' + 1] = keys'[t]
    OBVIOUS
  <2>1. CASE t \in Held
    BY <1>1, <1>4, <1>7, <1>10, <1>12, <1>13, <2>1
  <2>2. CASE t = tail
    BY <1>1, <1>11, <1>12, <1>14, <2>2
  <2> QED  BY <1>5, <2>1, <2>2
<1>16. HeldSequence' = q
  BY <1>6, <1>12, <1>15, QueueNext
<1> QED  BY <1>7, <1>8, <1>14, <1>16 DEF HK!Press, q

LEMMA PopIsPress ==
    ASSUME FewClears, RingInv, TypeOK', NEW key \in Codes, AddPop(key)
    PROVE  HK!Press(key)
<1>1. /\ TypeOK /\ keys \in [Slots -> Codes \cup {NoKey}] /\ head \in Slots /\ tail = head
      /\ Held = Slots /\ NoKey \notin Codes
      /\ keys' = [keys EXCEPT ![head] = key] /\ head' = RO_INC(head)
  BY RingAssumption DEF RingInv, TypeOK, AddPop, PutAt, Full
<1>2. Held' = Slots
  BY <1>1 DEF Held
<1>3. head' \in Slots /\ head' = IF head = N-1 THEN 0 ELSE head + 1
  BY <1>1, RingStep
\* the turns of the slots before and after
<1>4. \A t \in Slots : /\ Order(t) \in 0 .. N-1 /\ (t = head <=> Order(t) = 0)
                       /\ Order(t)' = IF t = head THEN N - 1 ELSE Order(t) - 1
  <2> SUFFICES ASSUME NEW t \in Slots
               PROVE  /\ Order(t) \in 0 .. N-1 /\ (t = head <=> Order(t) = 0)
                      /\ Order(t)' = IF t = head THEN N - 1 ELSE Order(t) - 1
    OBVIOUS
  <2>1. Order(t) \in 0 .. N-1 /\ Order(t) = IF t >= head THEN t - head ELSE t - head + N
    BY <1>1, OrderRange
  <2>2. Order(t)' = IF t >= head' THEN t - head' ELSE t - head' + N
    BY <1>3, RingDistance DEF Order
  <2> QED  BY <1>1, <1>3, <2>1, <2>2, RingAssumption, SMT DEF Slots
<1>5. \A t \in Slots : Rank(t) = Order(t) /\ Rank(t)' = Order(t)'
  <2>1. N \in 0 .. N /\ Slots = {t \in Slots : Order(t) < N}
    BY <1>4, RingAssumption, SMT
  <2>2. Slots = {t \in Slots : Order(t)' < N}
    BY <1>4, RingAssumption, SMT
  <2>3. \A t \in Slots : Rank(t) = Order(t)
    BY <1>1, <2>1, FirstHeldRank DEF FirstHeld
  <2>4. Slots' = Slots
    BY DEF Slots
  <2>5. \A t \in Slots : Rank(t)' = Order(t)'
    BY <1>2, <2>1, <2>2, FirstHeldRankNext DEF FirstHeld
  <2> QED  BY <2>3, <2>5
<1>6. Cardinality(Slots) = N
  BY SlotsFinite
<1>7. /\ HeldSequence \in Seq(Codes) /\ Len(HeldSequence) = N
      /\ \A t \in Slots : HeldSequence[Order(t) + 1] = keys[t]
  BY <1>1, <1>5, <1>6, QueueReads DEF QueueRead, Listed
<1>8. key \notin HK!Members
  BY <1>1, AbsentIsNotHeld, QueueMembers DEF AddPop
<1> DEFINE r == Tail(HeldSequence)
           q == Append(r, key)
<1>9. HeldSequence # <<>>
  BY <1>7, EmptySeq, RingAssumption
<1>10. /\ r \in Seq(Codes) /\ Len(r) = N - 1
       /\ \A n \in 1 .. N-1 : r[n] = HeldSequence[n + 1]
  BY <1>7, <1>9, HeadTailProperties
<1> HIDE DEF r
<1>11. /\ q \in Seq(Codes) /\ Len(q) = (N - 1) + 1 /\ q[(N - 1) + 1] = key
       /\ \A n \in 1 .. N-1 : q[n] = r[n]
  BY <1>10, AppendProperties
<1> HIDE DEF q
<1>12. Len(q) = N /\ q[N] = key /\ N \in 1 .. N /\ (N - 1) + 1 = N
  <2>1. (N - 1) + 1 = N /\ N \in 1 .. N
    BY RingAssumption, SMT
  <2> QED  BY <1>11, <2>1
<1>13. \A t \in Slots : Rank(t)' + 1 \in 1 .. Len(q) /\ q[Rank(t)' + 1] = keys'[t]
  <2> SUFFICES ASSUME NEW t \in Slots
               PROVE  Rank(t)' + 1 \in 1 .. Len(q) /\ q[Rank(t)' + 1] = keys'[t]
    OBVIOUS
  <2>1. CASE t = head
    BY <1>1, <1>4, <1>5, <1>12, <2>1
  <2>2. CASE t # head
    <3>1. Order(t) \in 1 .. N-1 /\ Order(t) - 1 + 1 = Order(t) /\ Order(t) \in 1 .. N
      BY <1>4, <2>2, RingAssumption, SMT
    <3>2. q[Order(t)] = HeldSequence[Order(t) + 1]
      BY <1>10, <1>11, <3>1
    <3> QED  BY <1>1, <1>4, <1>5, <1>7, <1>12, <2>2, <3>1, <3>2
  <2> QED  BY <2>1, <2>2
<1>14. HeldSequence' = q
  BY <1>2, <1>6, <1>11, <1>12, <1>13, QueueNext
<1> QED  BY <1>7, <1>8, <1>14 DEF HK!Press, q, r

\* the shift that is met keeps the keys in their order
LEMMA ShiftKeepsOrder ==
    ASSUME RingInv, TailOnKey, tail = head, Held # Slots
    PROVE  /\ Shifted = Compacted
           /\ \A s \in Slots : Order(s) < Cardinality(Held) =>
                 \E t \in Held : Rank(t) = Order(s) /\ Shifted[s] = keys[t]
<1>1. /\ head \in Slots /\ Held \subseteq Slots /\ Slots \ Held \subseteq Slots
      /\ Slots \ Held # {}
  BY DEF RingInv, TypeOK, Held
<1>2. First(Slots \ Held) # RO_DEC(tail)
  <2> SUFFICES ASSUME First(Slots \ Held) = RO_DEC(head) PROVE FALSE
    OBVIOUS
  <2>1. /\ RO_DEC(head) \in Slots \ Held
        /\ \A t \in Slots \ Held : Order(RO_DEC(head)) <= Order(t)
    <3> DEFINE S == Slots \ Held
    <3>1. S \subseteq Slots /\ S # {} /\ First(S) = RO_DEC(head)
      BY <1>1
    <3> HIDE DEF S
    <3>2. First(S) \in S /\ \A t \in S : Order(First(S)) <= Order(t)
      BY <1>1, <3>1, FirstIsLeast
    <3> QED  BY <3>1, <3>2 DEF S
  <2>2. Held = {}
    BY <2>1 DEF TailOnKey
  <2>3. Order(RO_DEC(head)) = N - 1 /\ Order(head) = 0
    BY <1>1, OrderSteps
  <2> QED  BY <1>1, <2>1, <2>2, <2>3, RingAssumption, SMT
<1>3. Shifted = Compacted
  BY <1>2 DEF Shifted
<1>4. ASSUME NEW s \in Slots, Order(s) < Cardinality(Held)
      PROVE  \E t \in Held : Rank(t) = Order(s) /\ Compacted[s] = keys[t]
  <2> DEFINE c == Cardinality(Held)
             t == CHOOSE u \in Held : Rank(u) = Order(s)
  <2>1. Order(s) \in 0 .. c-1
    <3>1. c \in 0 .. N /\ Order(s) \in 0 .. N-1 /\ Order(s) < c
      BY <1>1, <1>4, SlotSetFinite, OrderRange
    <3> HIDE DEF c
    <3> QED  BY <3>1, RingAssumption, SMT
  <2>2. \E u \in Held : Rank(u) = Order(s)
    BY <1>1, <2>1, RankNumbersHeld
  <2>3. t \in Held /\ Rank(t) = Order(s) /\ Compacted[s] = keys[t]
    BY <2>2 DEF Compacted
  <2> QED  BY <2>3
<1> QED  BY <1>3, <1>4

LEMMA ShiftIsPress ==
    ASSUME FewClears, QueueInv, TypeOK', NEW key \in Codes, AddShift(key)
    PROVE  HK!Press(key)
<1> DEFINE c == Cardinality(Held)
           slot == RO_SUB(head, N - c)
<1>1. /\ RingInv /\ TailOnKey /\ TypeOK /\ head \in Slots /\ tail = head /\ Held # Slots
      /\ Held \subseteq Slots /\ NoKey \notin Codes
  BY RingAssumption DEF QueueInv, RingInv, TypeOK, AddShift, Full, Held
<1>2. c \in 0 .. N-1
  <2>1. c \in 0 .. N /\ c # N
    BY <1>1, SlotSetFinite
  <2> HIDE DEF c
  <2> QED  BY <2>1, RingAssumption, SMT
<1>3. Gathered(Shifted)
  BY <1>1, ShiftedGathers
<1>4. keys' = [Shifted EXCEPT ![slot] = key] /\ head' = head
  BY <1>1 DEF AddShift, PutAt
<1>5. \A s \in Slots : Order(s) < c =>
          \E t \in Held : Rank(t) = Order(s) /\ Shifted[s] = keys[t]
  BY <1>1, ShiftKeepsOrder
<1>6. /\ HeldSequence \in Seq(Codes) /\ Len(HeldSequence) = c
      /\ \A t \in Held : HeldSequence[Rank(t) + 1] = keys[t]
  BY <1>1, QueueReads DEF QueueRead, Listed
<1>7. key \notin HK!Members
  BY <1>1, AbsentIsNotHeld, QueueMembers DEF AddShift
<1>8. slot \in Slots /\ Order(slot) = c /\ Cardinality({s \in Slots : Order(s) < c}) = c
  BY <1>1, <1>2, FirstTurns
<1> HIDE DEF slot
<1>9. \A s \in Slots : Shifted[s] # NoKey <=> Order(s) < c
  BY <1>3 DEF Gathered
<1> HIDE DEF c
<1>10. Held' = {s \in Slots : Order(s) < c} \cup {slot}
  BY <1>1, <1>3, <1>4, <1>8, <1>9 DEF Held, Gathered
<1>11. \A s \in Slots : Order(s) \in 0 .. N-1 /\ (Order(s) = c => s = slot)
  BY <1>1, <1>8, OrderRange, OrderInjective
<1>12. Held' = {s \in Slots : Order(s) < c + 1} /\ c + 1 \in 0 .. N /\ c # N
  BY <1>2, <1>8, <1>10, <1>11, RingAssumption, SMT
<1>13. \A s \in Slots : s \in Held' => Rank(s)' = Order(s)
  <2>1. \A s \in Slots : Order(s)' = Order(s)
    BY <1>4 DEF Order
  <2>2. Held' = {s \in Slots : Order(s)' < c + 1}
    BY <1>12, <2>1
  <2>3. Slots' = Slots
    BY DEF Slots
  <2>4. \A s \in Held' : Rank(s)' = Order(s)'
    BY <1>12, <2>2, FirstHeldRankNext DEF FirstHeld
  <2> QED  BY <2>1, <2>4
<1>14. Cardinality(Held') = c + 1
  <2> DEFINE S == {s \in Slots : Order(s) < c}
  <2>1. IsFiniteSet(S) /\ Cardinality(S) = c
    BY <1>8, SlotSetFinite
  <2>2. slot \notin S
    BY <1>2, <1>8, RingAssumption, SMT
  <2> HIDE DEF S
  <2>3. Cardinality(S \cup {slot}) = Cardinality(S) + 1
    BY <2>1, <2>2, FS_AddElement
  <2> QED  BY <1>10, <2>1, <2>3 DEF S
<1> DEFINE q == Append(HeldSequence, key)
<1>15. /\ q \in Seq(Codes) /\ Len(q) = c + 1 /\ q[c + 1] = key
       /\ \A n \in 1 .. c : q[n] = HeldSequence[n]
  BY <1>6, AppendProperties
<1> HIDE DEF q
<1>16. \A s \in Held' : Rank(s)' + 1 \in 1 .. Len(q) /\ q[Rank(s)' + 1] = keys'[s]
  <2> SUFFICES ASSUME NEW s \in Held'
               PROVE  Order(s) + 1 \in 1 .. c + 1 /\ q[Order(s) + 1] = keys'[s]
    BY <1>12, <1>13, <1>15
  <2>1. s \in Slots /\ Order(s) \in 0 .. N-1 /\ Order(s) < c + 1
    BY <1>11, <1>12
  <2>2. CASE s = slot
    <3>1. c + 1 \in 1 .. c + 1
      BY <1>2, SMT
    <3>2. keys'[s] = key
      BY <1>3, <1>4, <2>1, <2>2 DEF Gathered
    <3> QED  BY <1>8, <1>15, <2>2, <3>1, <3>2
  <2>3. CASE s # slot
    <3>1. Order(s) < c
      BY <1>2, <1>11, <2>1, <2>3, RingAssumption, SMT
    <3>2. Order(s) + 1 \in 1 .. c /\ Order(s) + 1 \in 1 .. c + 1
      BY <1>2, <2>1, <3>1, RingAssumption, SMT
    <3>3. PICK t \in Held : Rank(t) = Order(s) /\ Shifted[s] = keys[t]
      BY <1>5, <2>1, <3>1
    <3>4. keys'[s] = Shifted[s]
      BY <1>3, <1>4, <2>1, <2>3 DEF Gathered
    <3> QED  BY <1>6, <1>15, <3>2, <3>3, <3>4
  <2> QED  BY <2>2, <2>3
<1>17. HeldSequence' = q
  BY <1>14, <1>15, <1>16, QueueNext
<1> QED  BY <1>6, <1>7, <1>12, <1>17 DEF HK!Press, q

LEMMA DelIsRelease ==
    ASSUME FewClears, RingInv, RingInv', NEW key \in Codes, DelPresent(key)
    PROVE  HK!Release(key)
<1> DEFINE c == Cardinality(Held)
           at == First({s \in Scanned : keys[s] = key})
<1>1. /\ TypeOK /\ TypeOK' /\ keys \in [Slots -> Codes \cup {NoKey}] /\ head \in Slots
      /\ Held \subseteq Slots
      /\ keys' = [keys EXCEPT ![at] = NoKey] /\ (count' = 0 \/ head' = head)
  BY DEF RingInv, TypeOK, Held, DelPresent
<1>2. at \in Held /\ keys[at] = key
  BY PresentIsFound DEF DelPresent
<1> HIDE DEF at
<1>3. Held' = Held \ {at} /\ \A t \in Held' : keys'[t] = keys[t]
  BY <1>1, <1>2 DEF Held
<1>4. /\ c \in 0 .. N /\ HeldSequence \in Seq(Codes) /\ Len(HeldSequence) = c
      /\ \A t \in Held : HeldSequence[Rank(t) + 1] = keys[t]
  BY <1>1, QueueReads DEF QueueRead, Listed
<1>5. /\ \A t \in Held : Rank(t) \in 0 .. c-1
      /\ \A t, u \in Held : Rank(t) = Rank(u) => t = u
      /\ \A t, u \in Held : Order(t) < Order(u) => Rank(t) < Rank(u)
  BY <1>1, RankNumbersHeld
<1>6. IsFiniteSet(Held) /\ Cardinality(Held') = c - 1
  BY <1>1, <1>2, <1>3, SlotSetFinite, FS_RemoveElement
<1> HIDE DEF c
<1>7. c \in 1 .. N /\ c \in Nat /\ c - 1 \in Nat
  BY <1>2, <1>4, <1>5, RingAssumption, SMT
\* the ranks of the keys behind the one that leaves
<1>8. ASSUME NEW t \in Held'
      PROVE  /\ Rank(t)' = IF Rank(t) < Rank(at) THEN Rank(t) ELSE Rank(t) - 1
             /\ Rank(t) # Rank(at) /\ t \in Held
  <2>1. t \in Held /\ t # at /\ t \in Slots /\ at \in Slots
    BY <1>1, <1>2, <1>3
  <2>2. head' = head
    <3>1. count' # 0
      <4>1. Cardinality(Held') \in 0 .. N /\ (Cardinality(Held') = 0 <=> Held' = {})
            /\ Cardinality(Held') <= count'
        BY <1>1, <1>3, SlotSetFinite DEF RingInv, CountCoversHeld
      <4>2. \A n \in 0 .. N : n <= 0 => n = 0
        BY RingAssumption, SMT
      <4> QED  BY <4>1, <4>2
    <3> QED  BY <1>1, <3>1
  <2>3. Rank(t)' = Cardinality({u \in Held \ {at} : Order(u) < Order(t)})
    BY <1>3, <2>2 DEF Rank, Order
  <2>4. Order(t) \in 0 .. N-1 /\ Order(at) \in 0 .. N-1 /\ Order(t) # Order(at)
    BY <1>1, <2>1, OrderRange, OrderInjective
  <2> DEFINE Before == {u \in Held : Order(u) < Order(t)}
  <2>5. IsFiniteSet(Before) /\ Cardinality(Before) = Rank(t)
    <3>1. Before \subseteq Slots
      BY <1>1
    <3> QED  BY <3>1, SlotSetFinite DEF Rank
  <2>6. Rank(t) \in 0 .. c-1 /\ Rank(at) \in 0 .. c-1 /\ Rank(t) # Rank(at)
    BY <1>2, <1>5, <2>1
  <2>7. CASE Order(at) < Order(t)
    <3>1. at \in Before /\ {u \in Held \ {at} : Order(u) < Order(t)} = Before \ {at}
      BY <1>2, <2>7
    <3> HIDE DEF Before
    <3>2. Cardinality(Before \ {at}) = Cardinality(Before) - 1
      BY <2>5, <3>1, FS_RemoveElement
    <3>3. ~ (Rank(t) < Rank(at))
      <4>1. Rank(at) < Rank(t)
        BY <1>2, <1>5, <2>1, <2>7
      <4> QED  BY <1>7, <2>6, <4>1, SMT
    <3> QED  BY <2>1, <2>3, <2>5, <2>6, <3>1, <3>2, <3>3
  <2>8. CASE ~ (Order(at) < Order(t))
    <3>1. Order(t) < Order(at)
      BY <2>4, <2>8, RingAssumption, SMT
    <3>2. {u \in Held \ {at} : Order(u) < Order(t)} = Before
      BY <2>8
    <3>3. Rank(t) < Rank(at)
      BY <1>2, <1>5, <2>1, <3>1
    <3> QED  BY <2>1, <2>3, <2>5, <2>6, <3>2, <3>3
  <2> QED  BY <2>7, <2>8
<1> DEFINE n == Rank(at) + 1
           q == HK!Without(n)
<1>9. n \in 1 .. c /\ HeldSequence[n] = key
  <2>1. Rank(at) \in 0 .. c-1 /\ HeldSequence[n] = key
    BY <1>2, <1>4, <1>5
  <2> QED  BY <1>7, <2>1, SMT
<1>10. /\ q \in Seq(Codes) /\ Len(q) = c - 1
       /\ \A m \in 1 .. c-1 : q[m] = IF m < n THEN HeldSequence[m] ELSE HeldSequence[m + 1]
  <2>1. q = [m \in 1 .. c-1 |-> IF m < n THEN HeldSequence[m] ELSE HeldSequence[m + 1]]
    BY <1>4 DEF HK!Without
  <2>2. \A m \in 1 .. c-1 : m \in 1 .. c /\ m + 1 \in 1 .. c
    BY <1>7, SMT
  <2> HIDE DEF q
  <2>3. \A m \in 1 .. c : HeldSequence[m] \in Codes
    BY <1>4, ElementOfSeq
  <2>4. q \in [1 .. c-1 -> Codes]
    BY <2>1, <2>2, <2>3
  <2> QED  BY <1>7, <2>1, <2>4, SeqOf
<1> HIDE DEF q
<1>11. \A t \in Held' : Rank(t)' + 1 \in 1 .. Len(q) /\ q[Rank(t)' + 1] = keys'[t]
  <2> SUFFICES ASSUME NEW t \in Held'
               PROVE  Rank(t)' + 1 \in 1 .. c-1 /\ q[Rank(t)' + 1] = keys[t]
    BY <1>3, <1>10
  <2>1. /\ Rank(t) \in 0 .. c-1 /\ Rank(at) \in 0 .. c-1 /\ Rank(t) # Rank(at)
        /\ Rank(t)' = IF Rank(t) < Rank(at) THEN Rank(t) ELSE Rank(t) - 1
        /\ HeldSequence[Rank(t) + 1] = keys[t]
    BY <1>2, <1>4, <1>5, <1>8
  <2>2. CASE Rank(t) < Rank(at)
    <3>1. Rank(t) + 1 \in 1 .. c-1 /\ Rank(t) + 1 < Rank(at) + 1
      BY <1>7, <2>1, <2>2, SMT
    <3> QED  BY <1>10, <2>1, <2>2, <3>1
  <2>3. CASE ~ (Rank(t) < Rank(at))
    <3>1. Rank(t) - 1 + 1 = Rank(t) /\ Rank(t) \in 1 .. c-1 /\ ~ (Rank(t) < Rank(at) + 1)
      BY <1>7, <2>1, <2>3, SMT
    <3> QED  BY <1>10, <2>1, <2>3, <3>1
  <2> QED  BY <2>2, <2>3
<1>12. HeldSequence' = q
  BY <1>1, <1>6, <1>10, <1>11, QueueNext
<1>13. key \in HK!Members
  BY <1>1, <1>2, QueueMembers
<1> QED  BY <1>4, <1>9, <1>12, <1>13 DEF HK!Release, q

LEMMA EmptyQueue ==
    ASSUME TypeOK', Held' = {}
    PROVE  HeldSequence' = <<>>
<1>1. <<>> \in Seq(Codes) /\ Len(<<>>) = Cardinality(Held')
  BY EmptySeq, NoSlots
<1> QED  BY <1>1, QueueNext

LEMMA QueueStep ==
    ASSUME FewClears, QueueInv, [Next]_vars
    PROVE  [HK!Next]_HeldSequence
<1>0. RingInv /\ RingInv' /\ TypeOK /\ TypeOK'
  BY InvStep DEF QueueInv, RingInv
<1>1. ASSUME NEW key \in Codes, add_key_byte(key) PROVE HK!Press(key)
  <2>1. CASE AddPresent(key)
    <3>1. \E t \in Held : keys[t] = key
      BY <2>1, RingAssumption DEF AddPresent, Present, Held, Scanned, Turn
    <3>2. key \in HK!Members /\ HeldSequence' = HeldSequence
      BY <1>0, <2>1, <3>1, QueueMembers, QueueStill DEF AddPresent
    <3> QED  BY <3>2 DEF HK!Press
  <2> QED  BY <1>0, <1>1, <2>1, FreeIsPress, PopIsPress, ShiftIsPress DEF add_key_byte
<1>2. ASSUME NEW key \in Codes, del_key_byte(key) PROVE HK!Release(key)
  <2>1. CASE DelMissing(key)
    <3>1. key \notin HK!Members /\ HeldSequence' = HeldSequence
      BY <1>0, <2>1, AbsentIsNotHeld, QueueMembers, QueueStill DEF DelMissing, Held
    <3> QED  BY <3>1 DEF HK!Release
  <2> QED  BY <1>0, <1>2, <2>1, DelIsRelease DEF del_key_byte
<1>3. CASE clear_keys
  <2>1. HeldSequence' = <<>>
    BY <1>0, <1>3, EmptyQueue DEF clear_keys, Held
  <2> QED  BY <2>1 DEF HK!Next, HK!Clear
<1>4. CASE UNCHANGED vars
  BY <1>4, QueueStill DEF vars
<1> QED  BY <1>1, <1>2, <1>3, <1>4 DEF Next, HK!Next

LEMMA QueueInit == Init => QueueInv /\ HK!Init
<1> SUFFICES ASSUME Init PROVE QueueInv /\ HK!Init
  OBVIOUS
<1>1. RingInv /\ TypeOK /\ Held = {}
  BY InvInit DEF Init, Held, RingInv
<1>2. <<>> \in Seq(Codes) /\ Listed(<<>>)
  BY <1>1, EmptySeq, NoSlots DEF Listed
<1>3. HeldSequence = <<>>
  BY <1>1, <1>2, QueueReads DEF QueueRead
<1> QED  BY <1>1, <1>3 DEF QueueInv, TailOnKey, HK!Init

(* RefinesHeldKeys: through every wrap, hole, shift, pop and reset of the  *)
(* indices the report stays the queue of the keys that are held, with any  *)
(* number of slots and codes.                                              *)
THEOREM RingIsQueue ==
    ASSUME FewClears
    PROVE  Spec => RefinesHeldKeys
<1>1. QueueInv /\ [Next]_vars => QueueInv'
  BY InvStep, TailOnKeyStep DEF QueueInv
<1>2. QueueInv /\ [Next]_vars => [HK!Next]_HeldSequence
  BY QueueStep
<1> QED  BY <1>1, <1>2, QueueInit, PTL DEF Spec, RefinesHeldKeys, HK!Spec

-----------------------------------------------------------------------------
(* KeyRingSteps again: a call that no interrupt cuts into is one step of   *)
(* KeyRing.  Whatever is cut, a key lies right behind the tail when a call *)
(* begins, so that the first hole of a full ring is not the last slot.     *)
TailInv == pc \in {"idle", "scan", "hole", "search", "release"} => TailOnKey

\* the ring that the call found
Held0 == {s \in Slots : start.keys[s] # NoKey}

Full0 == start.count # 0 /\ start.tail = start.head

Absent0 == \A s \in Held0 : start.keys[s] # code

Fresh == keys = start.keys /\ head = start.head /\ tail = start.tail /\ count = start.count

\* the slots of the first n turns all hold keys, up to the first hole
FirstHole(n) ==
    IF empty = None THEN \A s \in Slots : Order(s) < n => s \in Held
    ELSE /\ empty \in Slots \ Held /\ Order(empty) < n
         /\ \A s \in Slots : Order(s) < Order(empty) => s \in Held

\* the keys of the first m turns, and those of them that have been moved to
\* the first g slots: the n-th key is in turn n
Below(m) == {t \in Held0 : Order(t) < m}

Gathering(m, g) ==
    /\ start.keys \in [Slots -> Codes \cup {NoKey}]
    /\ head = start.head /\ count = start.count /\ Full0
    /\ Held0 # Slots /\ (Held0 # {} => RO_DEC(head) \in Held0) /\ Absent0
    /\ g = Cardinality(Below(m))
    /\ \A s \in Slots : Order(s) < g =>
          \E t \in Below(m) : Cardinality(Below(Order(t))) = Order(s) /\ keys[s] = start.keys[t]
    /\ \A s \in Slots : Order(s) >= m => keys[s] = start.keys[s]

Gathered0 ==
    /\ Gathering(N, Cardinality(Held0))
    /\ tail = RO_SUB(head, N - Cardinality(Held0))
    /\ \A s \in Slots : Order(s) >= Cardinality(Held0) => keys[s] = NoKey

Popped ==
    /\ keys = start.keys /\ tail = start.tail /\ Full0 /\ Held0 = Slots
    /\ head = RO_INC(start.head) /\ count = (start.count - 1) % CountMod
    /\ start.count \in 0 .. CountMod-1

\* i is the slot of the key that the call releases
Found ==
    /\ start.head \in Slots /\ start.count # 0
    /\ i \in Turn(start.head, start.tail) /\ start.keys[i] = code
    /\ \A s \in Slots : start.keys[s] = code => s = i

\* the tail before it is moved back
Tail0 == IF count = 0 THEN 0 ELSE start.tail

Retracting ==
    /\ Found /\ keys = [start.keys EXCEPT ![i] = NoKey]
    /\ count = (start.count - 1) % CountMod
    /\ head = (IF count = 0 THEN 0 ELSE start.head)
    /\ i = RO_DEC(Tail0) /\ Tail0 \in Slots /\ Held \subseteq Turn(head, Tail0)

Uncut == clears = start.clears

Whole ==
    \/ pc = "idle"
    \/ pc = "scan" /\ Fresh /\ FirstHole(Order(i))
    \/ pc = "hole" /\ Fresh /\ FirstHole(Order(i)) /\ reg = keys[i]
    \/ pc = "pop" /\ Fresh /\ Held0 = Slots /\ Absent0
    \/ pc = "shift" /\ Goal >= 0 /\ Gathering(Order(i), Goal)
    \/ pc = "move" /\ Goal >= 0 /\ Gathering(Order(i), Goal) /\ reg = keys[i] /\ reg # NoKey
    \/ pc = "leave" /\ Goal >= 0 /\ Gathering(Order(i), Goal) /\ i \in Held0
       /\ keys[empty] = start.keys[i]
    \/ pc = "put" /\ Absent0 /\ ((Fresh /\ ~Full0) \/ Popped \/ Gathered0)
    \/ pc = "search" /\ Fresh
    \/ pc = "release" /\ Fresh /\ Found
    \/ pc = "retract" /\ Retracting

IsAdding == pc \in {"scan", "hole", "pop", "shift", "move", "leave", "put"}

AtomicInv ==
    /\ TailInv
    /\ pc # "idle" => start.clears \in Nat /\ start.clears <= clears
    /\ pc # "idle" /\ Uncut =>
          /\ Whole /\ code \in Codes
          /\ down = IF IsAdding THEN start.down \cup {code} ELSE start.down \ {code}

LEMMA RoundTripBack ==
    ASSUME NEW s \in Slots
    PROVE  RO_DEC(s) \in Slots /\ RO_INC(RO_DEC(s)) = s
<1>1. RO_DEC(s) \in Slots /\ RO_DEC(s) = IF s = 0 THEN N-1 ELSE s - 1
  BY RingStep
<1>2. RO_INC(RO_DEC(s)) = IF RO_DEC(s) = N-1 THEN 0 ELSE RO_DEC(s) + 1
  BY <1>1, RingStep
<1> QED  BY <1>1, <1>2, RingAssumption, SMT DEF Slots

LEMMA TailKept ==
    ASSUME FewCuts, StepInv, StepInv', TailInv, [StepNext]_stepVars
    PROVE  TailInv'
<1> SUFFICES ASSUME pc' \in {"idle", "scan", "hole", "search", "release"} PROVE TailOnKey'
  BY DEF TailInv
<1>0. /\ keys \in [Slots -> Codes \cup {NoKey}] /\ head \in Slots /\ NoKey \notin Codes
  BY RingAssumption DEF StepInv, Typed
<1>1. ASSUME UNCHANGED <<keys, tail>>, TailOnKey PROVE TailOnKey'
  BY <1>1 DEF TailOnKey, Held, RO_DEC, RO_SUB
<1>2. CASE Call \/ ScanFound \/ ScanOther \/ Hole \/ SearchOther \/ SearchFound
  <2>1. UNCHANGED <<keys, tail>> /\ pc \in {"idle", "scan", "hole", "search", "release"}
    BY <1>2 DEF Call, CallAdd, CallDel, ScanFound, ScanOther, Hole, SearchOther, SearchFound, vars
  <2> QED  BY <1>1, <2>1 DEF TailInv
<1>3. CASE Pop \/ ShiftHole \/ ShiftKey \/ Move \/ Leave
  BY <1>3 DEF Pop, ShiftHole, ShiftKey, Move, Leave, AfterShift, Goto
<1>4. CASE Put
  <2>1. AtPut /\ tail' = RO_INC(tail)
    BY <1>4 DEF Put, StepInv
  <2>2. CASE tail \in Slots
    <3>1. keys'[tail] = code /\ code # NoKey
      BY <1>0, <1>4, <2>1, <2>2 DEF Put, AtPut
    <3>2. RO_DEC(tail)' = tail
      BY <2>1, <2>2, RoundTrip DEF RO_DEC, RO_SUB
    <3> QED  BY <2>2, <3>1, <3>2 DEF TailOnKey, Held
  <2>3. CASE tail \notin Slots
    <3>1. keys' = keys /\ Held = {}
      BY <1>4, <2>1, <2>3 DEF Put, AtPut, Cut
    <3> QED  BY <3>1 DEF TailOnKey, Held
  <2> QED  BY <2>2, <2>3
<1>5. CASE Release
  <2>1. /\ keys' = [keys EXCEPT ![i] = NoKey] /\ tail' = (IF count' = 0 THEN 0 ELSE tail)
        /\ i # RO_DEC(tail') /\ pc' = "idle" /\ TailOnKey /\ AtIdle'
    BY <1>5 DEF Release, Goto, Done, TailInv, StepInv
  <2>2. Held' = Held \ {i}
    BY <1>0, <2>1 DEF Held
  <2>3. CASE count' = 0
    <3>1. Held' = {}
      <4>1. Cardinality(Held') <= 0 /\ Held' \subseteq Slots
        BY <2>1, <2>3 DEF AtIdle, Sound, Held
      <4>2. Cardinality(Held') \in 0 .. N /\ (Cardinality(Held') = 0 <=> Held' = {})
        BY <4>1, SlotSetFinite
      <4>3. \A n \in 0 .. N : n <= 0 => n = 0
        BY RingAssumption, SMT
      <4> QED  BY <4>1, <4>2, <4>3
    <3> QED  BY <3>1 DEF TailOnKey
  <2>4. CASE count' # 0
    BY <2>1, <2>2, <2>4 DEF TailOnKey, RO_DEC, RO_SUB
  <2> QED  BY <2>3, <2>4
<1>6. CASE Retract
  <2> DEFINE u == RO_DEC(tail)
  <2>1. /\ AtRetract /\ tail' = u /\ UNCHANGED <<keys, head>> /\ pc = "retract"
        /\ (keys[RO_DEC(u)] # NoKey \/ u = head)
    BY <1>6 DEF Retract, Done, StepInv, locals
  <2>2. u \in Slots /\ RO_DEC(u) \in Slots /\ Held \subseteq Turn(head, u) /\ Held' = Held
    <3>1. u \in Slots
      BY <2>1, RingStep DEF AtRetract, Sound
    <3>2. Sound'
      BY <1>6 DEF StepInv, AtIdle, AtRetract, Retract, Done, locals
    <3> QED  BY <2>1, <3>1, <3>2, RingStep DEF Sound, HeldIsScanned, Scanned, Held
  <2> HIDE DEF u
  <2>3. CASE keys[RO_DEC(u)] # NoKey
    BY <2>1, <2>2, <2>3 DEF TailOnKey, Held, RO_DEC, RO_SUB
  <2>4. CASE u = head
    <3>1. Held = {}
      <4>1. u \notin Held /\ tail = RO_INC(u) /\ Held \subseteq Turn(head, tail) /\ tail \in Slots
        <5>1. tail \in Slots /\ RO_INC(RO_DEC(tail)) = tail
          BY <2>1, RoundTripBack DEF AtRetract, Sound
        <5> QED  BY <2>1, <5>1 DEF AtRetract, Sound, HeldIsScanned, Scanned, u
      <4> SUFFICES ASSUME NEW s \in Held PROVE FALSE
        OBVIOUS
      <4>2. s \in Slots /\ RO_SUB(s, head) <= RO_SUB(head, head)
        BY <1>0, <2>2, <2>4, <4>1, TurnBehind DEF Held
      <4>3. RO_SUB(head, head) = 0 /\ RO_SUB(s, head) \in 0 .. N-1
        BY <1>0, <4>2, OrderSteps, RingDistance DEF Order
      <4>4. RO_SUB(s, head) = RO_SUB(head, head)
        BY <4>2, <4>3, RingAssumption, SMT
      <4> QED  BY <1>0, <2>4, <4>1, <4>2, <4>4, TurnInjective
    <3> QED  BY <2>2, <3>1 DEF TailOnKey
  <2> QED  BY <2>1, <2>3, <2>4
<1>7. CASE Interrupt
  BY <1>7 DEF Interrupt, clear_keys, TailOnKey, Held
<1>8. CASE UNCHANGED stepVars
  BY <1>1, <1>8 DEF stepVars, vars, locals, TailInv
<1> QED  BY <1>2, <1>3, <1>4, <1>5, <1>6, <1>7, <1>8 DEF StepNext, Running, InRing

\* a call begins
LEMMA AtomicCall ==
    ASSUME FewCuts, StepInv, NEW c \in Codes, CallAdd(c) \/ CallDel(c), TailInv',
           start' = (IF pc' = "idle" THEN NoCall ELSE Ring)
    PROVE  AtomicInv'
<1> SUFFICES ASSUME pc' # "idle"
             PROVE  /\ start'.clears \in Nat /\ start'.clears <= clears' /\ Whole' /\ code' \in Codes
                    /\ down' = IF IsAdding' THEN start'.down \cup {code'} ELSE start'.down \ {code'}
  BY DEF AtomicInv
<1>1. /\ start'.keys = keys /\ start'.head = head /\ start'.tail = tail /\ start'.count = count
      /\ start'.clears = clears /\ start'.down = down
      /\ UNCHANGED <<keys, head, tail, count, clears, empty>> /\ code' = c
      /\ pc = "idle" /\ AtIdle /\ Typed
  BY DEF Ring, CallAdd, CallDel, StepInv
<1>2. Fresh' /\ clears \in Nat /\ clears <= clears /\ Held0' = Held
  <2>1. \A n \in 0 .. MaxClears : n \in Nat /\ n <= n
    BY RingAssumption, SMT
  <2> QED  BY <1>1, <2>1 DEF Fresh, Typed, Held, Held0
<1>3. CASE CallAdd(c)
  <2>1. down' = down \cup {c} /\ i' = head /\ pc' = IF count # 0 THEN "scan" ELSE "put"
    BY <1>3 DEF CallAdd, Goto
  <2>2. CASE count # 0
    <3>1. \A s \in Slots : ~ (Order(s)' < Order(i)')
      <4> SUFFICES ASSUME NEW s \in Slots PROVE ~ (RO_SUB(s, head) < RO_SUB(head, head))
        BY <1>1, <2>1 DEF Order
      <4>1. RO_SUB(head, head) = 0 /\ RO_SUB(s, head) \in 0 .. N-1
        BY <1>1, OrderSteps, RingDistance DEF Order, Typed
      <4> QED  BY <4>1, RingAssumption, SMT
    <3>2. FirstHole(Order(i))'
      BY <1>1, <3>1 DEF FirstHole, AtIdle
    <3> QED  BY <1>1, <1>2, <2>1, <2>2, <3>2 DEF Whole, IsAdding
  <2>3. CASE count = 0
    <3>1. Held = {}
      <4>1. Cardinality(Held) <= 0 /\ Cardinality(Held) \in 0 .. N
            /\ (Cardinality(Held) = 0 <=> Held = {})
        BY <1>1, <2>3, SlotSetFinite, StepRoom DEF AtIdle, Sound
      <4> QED  BY <4>1, RingAssumption, SMT
    <3>2. Absent0' /\ ~ Full0'
      BY <1>1, <1>2, <2>3, <3>1 DEF Absent0, Full0
    <3> QED  BY <1>1, <1>2, <2>1, <2>3, <3>2 DEF Whole, IsAdding
  <2> QED  BY <2>2, <2>3
<1>4. CASE CallDel(c)
  <2>1. down' = down \ {c} /\ pc' = "search"
    BY <1>1, <1>4 DEF CallDel, Goto
  <2> QED  BY <1>1, <1>2, <2>1 DEF Whole, IsAdding
<1> QED  BY <1>3, <1>4

\* what a step inside a call has to keep
LEMMA AtomicFrame ==
    ASSUME AtomicInv, TailInv', pc # "idle", clears' = clears, pc' # "idle" => start' = start,
           Uncut /\ Whole /\ pc' # "idle" =>
               Whole' /\ code' = code /\ down' = down /\ (IsAdding' <=> IsAdding)
    PROVE  AtomicInv'
<1> SUFFICES ASSUME pc' # "idle"
             PROVE  /\ start'.clears \in Nat /\ start'.clears <= clears'
                    /\ Uncut' => /\ Whole' /\ code' \in Codes
                                 /\ down' = IF IsAdding' THEN start'.down \cup {code'}
                                            ELSE start'.down \ {code'}
  BY DEF AtomicInv
<1>1. start' = start /\ (Uncut' <=> Uncut)
  BY DEF Uncut
<1> QED  BY <1>1 DEF AtomicInv

LEMMA AtomicScan ==
    ASSUME AtomicInv, TailInv', ScanFound \/ ScanOther, pc' # "idle" => start' = start
    PROVE  AtomicInv'
<1>1. pc = "scan" /\ UNCHANGED <<keys, head, tail, count, clears, down>>
  BY DEF ScanFound, ScanOther, vars
<1>2. ASSUME Whole, pc' # "idle"
      PROVE  Whole' /\ code' = code /\ (IsAdding' <=> IsAdding)
  <2>1. /\ pc' = "hole" /\ UNCHANGED <<code, i, empty>> /\ reg' = keys[i] /\ start' = start
        /\ Fresh /\ FirstHole(Order(i))
    BY <1>1, <1>2 DEF ScanFound, ScanOther, Done, Goto, Whole
  <2>2. Held' = Held /\ \A s : Order(s)' = RO_SUB(s', head)
    BY <1>1 DEF Held, Order
  <2>3. FirstHole(Order(i))'
    BY <1>1, <2>1, <2>2 DEF FirstHole, Order
  <2>4. Fresh'
    BY <1>1, <2>1 DEF Fresh
  <2> QED  BY <1>1, <2>1, <2>3, <2>4 DEF Whole, IsAdding
<1> QED  BY <1>1, <1>2, AtomicFrame

LEMMA AtomicSearch ==
    ASSUME StepInv, AtomicInv, TailInv', SearchFound \/ SearchOther, pc' # "idle" => start' = start
    PROVE  AtomicInv'
<1>1. pc = "search" /\ UNCHANGED <<keys, head, tail, count, clears, down>> /\ AtSearch /\ Typed
  BY DEF SearchFound, SearchOther, vars, StepInv
<1>2. ASSUME Whole, pc' # "idle"
      PROVE  Whole' /\ code' = code /\ (IsAdding' <=> IsAdding)
  <2>1. /\ Fresh /\ start' = start /\ code' = code
        /\ pc' = "search" \/ (pc' = "release" /\ i' = i /\ keys[i] = code)
    BY <1>1, <1>2 DEF SearchFound, SearchOther, Done, Goto, Whole
  <2>2. Fresh'
    BY <1>1, <2>1 DEF Fresh
  <2>3. CASE pc' = "search"
    BY <1>1, <2>1, <2>2, <2>3 DEF Whole, IsAdding
  <2>4. CASE pc' = "release"
    <3>1. i' = i /\ keys[i] = code /\ code \in Codes /\ NoKey \notin Codes
      BY <1>1, <2>1, <2>4, RingAssumption DEF AtSearch, Dels
    <3>2. \A s \in Slots : keys[s] = code => s = i
      BY <1>1, <3>1 DEF AtSearch, Sound, NoDuplicates, Held, Scanned, Turn
    <3>3. Found'
      BY <1>1, <2>1, <3>1, <3>2 DEF Found, Fresh, AtSearch, Scanned, Typed
    <3> QED  BY <1>1, <2>2, <2>4, <3>3, <2>1 DEF Whole, IsAdding
  <2> QED  BY <2>1, <2>3, <2>4
<1> QED  BY <1>1, <1>2, AtomicFrame

LEMMA AtomicRelease ==
    ASSUME FewCuts, StepInv, StepInv', AtomicInv, TailInv', Release, pc' # "idle" => start' = start
    PROVE  AtomicInv'
<1>1. /\ pc = "release" /\ UNCHANGED <<clears, down>>
      /\ keys' = [keys EXCEPT ![i] = NoKey] /\ count' = (count - 1) % CountMod
      /\ head' = (IF count' = 0 THEN 0 ELSE head) /\ tail' = (IF count' = 0 THEN 0 ELSE tail)
      /\ pc' # "idle" => pc' = "retract" /\ i = RO_DEC(tail') /\ i' = i /\ code' = code
  BY DEF Release, Done, Goto
<1>2. ASSUME Whole, pc' # "idle"
      PROVE  Whole' /\ code' = code /\ (IsAdding' <=> IsAdding)
  <2>1. Fresh /\ Found /\ start' = start /\ Sound'
    BY <1>1, <1>2 DEF Whole, StepInv, AtRetract
  <2>2. Found' /\ Tail0' = tail'
    BY <1>1, <1>2, <2>1 DEF Found, Fresh, Tail0
  <2>3. Retracting'
    BY <1>1, <1>2, <2>1, <2>2 DEF Retracting, Fresh, Sound, HeldIsScanned, Scanned
  <2> QED  BY <1>1, <1>2, <2>3 DEF Whole, IsAdding
<1> QED  BY <1>1, <1>2, AtomicFrame

LEMMA AtomicRetract ==
    ASSUME AtomicInv, TailInv', Retract, pc' # "idle" => start' = start
    PROVE  AtomicInv'
<1>1. /\ pc = "retract" /\ UNCHANGED <<keys, head, count, clears, down>>
      /\ pc' # "idle" => pc' = pc /\ i' = i /\ code' = code
  BY DEF Retract, Done, locals
<1>2. ASSUME Whole, pc' # "idle"
      PROVE  Whole' /\ code' = code /\ (IsAdding' <=> IsAdding)
  <2>1. Retracting /\ start' = start
    BY <1>1, <1>2 DEF Whole
  <2>2. Retracting'
    BY <1>1, <1>2, <2>1 DEF Retracting, Found, Tail0, Held
  <2> QED  BY <1>1, <1>2, <2>2 DEF Whole, IsAdding
<1> QED  BY <1>1, <1>2, AtomicFrame

LEMMA AtomicPop ==
    ASSUME StepInv, AtomicInv, TailInv', Pop, pc' # "idle" => start' = start
    PROVE  AtomicInv'
<1>1. /\ pc = "pop" /\ pc' = "put" /\ UNCHANGED <<keys, tail, clears, down, code>>
      /\ head' = RO_INC(head) /\ count' = (count - 1) % CountMod /\ AtPop /\ Typed
  BY DEF Pop, Goto, StepInv
<1>2. ASSUME Whole
      PROVE  Whole' /\ (IsAdding' <=> IsAdding)
  <2>1. Fresh /\ Held0 = Slots /\ Absent0 /\ start' = start
    BY <1>1, <1>2 DEF Whole
  <2>2. Full0
    BY <1>1, <2>1 DEF Full0, Fresh, AtPop, Adds
  <2>3. Popped' /\ Absent0'
    BY <1>1, <2>1, <2>2 DEF Popped, Fresh, Full0, Held0, Absent0, Typed
  <2> QED  BY <1>1, <2>3 DEF Whole, IsAdding
<1> QED  BY <1>1, <1>2, AtomicFrame

LEMMA AtomicInterrupt ==
    ASSUME StepInv, AtomicInv, TailInv', Interrupt
    PROVE  AtomicInv'
<1>1. UNCHANGED <<pc, start>> /\ clears' = clears + 1 /\ clears \in 0 .. MaxClears
  BY DEF Interrupt, clear_keys, locals, StepInv, Typed
<1>2. \A a \in Nat, b \in 0 .. MaxClears : a <= b => a <= b + 1 /\ b + 1 # a
  BY RingAssumption, SMT
<1>3. pc # "idle" => start'.clears \in Nat /\ start'.clears <= clears' /\ ~ Uncut'
  BY <1>1, <1>2 DEF AtomicInv, Uncut
<1> QED  BY <1>1, <1>3 DEF AtomicInv

LEMMA GatheringStill ==
    ASSUME NEW m, NEW g, Gathering(m, g), UNCHANGED <<keys, head, count, code, start>>,
           Order(i)' = m, Goal' = g
    PROVE  Gathering(Order(i), Goal)'
<1>1. /\ Held0' = Held0 /\ (Full0' <=> Full0) /\ (Absent0' <=> Absent0)
      /\ \A s : Order(s)' = Order(s)
      /\ RO_DEC(head)' = RO_DEC(head)
  BY DEF Held0, Full0, Absent0, Order, RO_DEC, RO_SUB
<1>2. \A n : Below(n)' = Below(n)
  BY <1>1 DEF Below
<1> QED  BY <1>1, <1>2 DEF Gathering

\* no hole before turn g: the first g keys are where they belong
LEMMA GatheringStarts ==
    ASSUME Fresh, Typed, Full0, Absent0, Held0 # Slots, Held0 # {} => RO_DEC(head) \in Held0,
           NEW g \in 0 .. N-1,
           \A s \in Slots : Order(s) < g => s \in Held0,
           \A s \in Slots : Order(s) = g => s \notin Held0
    PROVE  Gathering(g + 1, g)
<1>1. head \in Slots /\ \A s \in Slots : Order(s) \in 0 .. N-1
  BY OrderRange DEF Typed
<1>2. ASSUME NEW m \in 0 .. N-1, m <= g PROVE Below(m) = {s \in Slots : Order(s) < m}
  <2>1. \A s \in Slots : Order(s) < m => Order(s) < g
    BY <1>1, <1>2, RingAssumption, SMT
  <2> QED  BY <2>1 DEF Below, Held0
<1>3. Below(g + 1) = {s \in Slots : Order(s) < g}
  <2>1. \A s \in Slots : Order(s) < g + 1 <=> Order(s) < g \/ Order(s) = g
    BY <1>1, RingAssumption, SMT
  <2> QED  BY <2>1 DEF Below, Held0
<1>4. g = Cardinality(Below(g + 1))
  BY <1>1, <1>3, FirstTurns
<1>5. ASSUME NEW s \in Slots, Order(s) < g
      PROVE  \E t \in Below(g + 1) : Cardinality(Below(Order(t))) = Order(s)
                                     /\ keys[s] = start.keys[t]
  <2>1. Order(s) \in 0 .. N-1 /\ Order(s) <= g
    BY <1>1, <1>5, RingAssumption, SMT
  <2>2. Cardinality(Below(Order(s))) = Order(s)
    BY <1>1, <1>2, <2>1, FirstTurns
  <2> QED  BY <1>3, <1>5, <2>2 DEF Fresh
<1> QED  BY <1>4, <1>5 DEF Gathering, Fresh, Typed

LEMMA AtomicHole ==
    ASSUME StepInv, AtomicInv, TailInv', Hole, pc' # "idle" => start' = start
    PROVE  AtomicInv'
<1>1. /\ pc = "hole" /\ AtHole /\ Typed /\ offset' = 1 /\ code' = code /\ AfterScan(empty')
      /\ UNCHANGED <<keys, head, tail, count, clears, down>> /\ TailOnKey
  BY DEF Hole, StepInv, vars, AtomicInv, TailInv
<1>2. pc' \in {"scan", "put", "pop", "shift"}
  BY <1>1 DEF AfterScan, Goto
<1>3. ASSUME Whole PROVE Whole'
  <2>1. /\ Fresh /\ FirstHole(Order(i)) /\ reg = keys[i] /\ start' = start
        /\ Held0 = Held /\ Held' = Held /\ Fresh' /\ head \in Slots /\ tail \in Slots
    BY <1>1, <1>2, <1>3 DEF Whole, Held0, Held, Fresh, Typed, AtHole, Sound
  <2>2. empty' = IF empty = None /\ keys[i] = NoKey THEN i ELSE empty
    BY <2>1 DEF Hole, Again
  <2>3. /\ i \in Slots /\ Order(i) \in 0 .. N-1 /\ RO_INC(i) \in Slots
        /\ RO_INC(i) # tail => RO_INC(i) \in Scanned /\ Order(RO_INC(i)) = Order(i) + 1
        /\ RO_INC(i) = tail => /\ \A t \in Scanned : Order(t) <= Order(i)
                               /\ tail = head => Order(i) = N - 1
    BY <1>1, <2>1, Visited DEF AtHole
  <2>4. /\ \A s \in Slots : Order(s) \in 0 .. N-1 /\ (Order(s) = Order(i) => s = i)
        /\ \A s : Order(s)' = RO_SUB(s', head) /\ Order(s) = RO_SUB(s, head)
    BY <1>1, <2>1, <2>3, OrderRange, OrderInjective DEF Order
  <2> DEFINE n == Order(i) + 1
  <2>5. \A s \in Slots : Order(s) < n <=> Order(s) < Order(i) \/ s = i
    BY <2>3, <2>4, RingAssumption, SMT
  <2>6. IF empty' = None THEN \A s \in Slots : Order(s) < n => s \in Held
        ELSE /\ empty' \in Slots \ Held /\ Order(empty') < n
             /\ \A s \in Slots : Order(s) < Order(empty') => s \in Held
    <3>1. None \notin Slots
      BY RingAssumption, SMT DEF None, Slots
    <3> HIDE DEF n
    <3>2. CASE empty # None
      BY <2>1, <2>2, <2>5, <3>2 DEF FirstHole
    <3>3. CASE empty = None /\ keys[i] = NoKey
      BY <2>1, <2>2, <2>3, <2>5, <3>1, <3>3 DEF FirstHole, Held
    <3>4. CASE empty = None /\ keys[i] # NoKey
      BY <2>1, <2>2, <2>3, <2>5, <3>1, <3>4 DEF FirstHole, Held
    <3> QED  BY <3>2, <3>3, <3>4
  <2>7. CASE RO_INC(i) # tail
    <3>1. pc' = "scan" /\ i' = RO_INC(i)
      BY <1>1, <2>7 DEF AfterScan, Goto
    <3>2. Order(i)' = n
      BY <1>1, <2>3, <2>4, <2>7, <3>1
    <3> HIDE DEF n
    <3>3. FirstHole(Order(i))'
      BY <1>1, <2>1, <2>4, <2>6, <3>2 DEF FirstHole
    <3> QED  BY <2>1, <3>1, <3>3 DEF Whole
  <2>8. CASE RO_INC(i) = tail
    <3>1. \A s \in Held : s \in Slots /\ Order(s) < n
      BY <1>1, <2>3, <2>4, <2>8, RingAssumption, SMT DEF AtHole, Sound, HeldIsScanned, Held
    <3>2. Absent0 /\ Absent0'
      BY <1>1, <2>1, <3>1 DEF AtHole, Passed, Absent0, Held0, Fresh
    <3>3. CASE tail # head
      <4>1. pc' = "put" /\ ~ Full0'
        BY <1>1, <2>1, <2>8, <3>3 DEF AfterScan, Goto, Full0, Fresh
      <4> QED  BY <2>1, <3>2, <4>1 DEF Whole
    <3>4. CASE tail = head /\ empty' = None
      <4>1. pc' = "pop"
        BY <1>1, <2>8, <3>4 DEF AfterScan, Goto
      <4>2. \A s \in Slots : Order(s) < n
        BY <2>3, <2>4, <2>8, <3>4, RingAssumption, SMT
      <4>3. Held0' = Slots
        BY <1>1, <2>1, <2>6, <3>4, <4>2 DEF Held0
      <4> QED  BY <2>1, <3>2, <4>1, <4>3 DEF Whole
    <3>5. CASE tail = head /\ empty' # None
      <4> DEFINE g == Order(empty')
      <4>1. pc' = "shift" /\ i' = RO_INC(empty') /\ empty' \in Slots \ Held /\ g \in 0 .. N-1
        BY <1>1, <2>4, <2>6, <2>8, <3>5 DEF AfterScan, Goto
      <4>2. Full0 /\ Held0 # Slots /\ (Held0 # {} => RO_DEC(head) \in Held0)
        BY <1>1, <2>1, <3>5, <4>1 DEF Full0, Fresh, AtHole, Adds, TailOnKey
      <4>3. g # N - 1
        <5> SUFFICES ASSUME g = N - 1 PROVE FALSE
          OBVIOUS
        <5>1. Order(head) = 0 /\ Order(RO_DEC(head)) = N - 1 /\ RO_DEC(head) \in Slots
          BY <2>1, OrderSteps, RingStep
        <5>2. Order(head) < g
          BY <5>1, RingAssumption, SMT
        <5>3. head \in Held
          BY <2>1, <2>6, <3>5, <5>2
        <5>4. RO_DEC(head) \in Held /\ RO_DEC(head) = empty'
          BY <2>1, <4>1, <4>2, <5>1, <5>3, OrderInjective
        <5> QED  BY <4>1, <5>4
      <4>4. Order(i)' = g + 1 /\ Goal' = g /\ g >= 0
        <5>1. Order(RO_INC(empty')) = g + 1
          BY <2>1, <4>1, <4>3, OrderSteps
        <5>2. Order(i)' = g + 1
          BY <1>1, <2>4, <4>1, <5>1
        <5>3. Goal' = Order(i)' - 1
          BY <1>1 DEF Goal
        <5> QED  BY <4>1, <5>2, <5>3, RingAssumption, SMT
      <4>5. Gathering(g + 1, g)
        <5>1. \A s \in Slots : Order(s) < g => s \in Held0
          BY <2>1, <2>6, <3>5
        <5>2. \A s \in Slots : Order(s) = g => s \notin Held0
          BY <2>1, <4>1, OrderInjective
        <5> HIDE DEF g
        <5> QED  BY <1>1, <2>1, <3>2, <4>1, <4>2, <5>1, <5>2, GatheringStarts
      <4> HIDE DEF g
      <4>6. Gathering(Order(i), Goal)'
        BY <1>1, <2>1, <4>4, <4>5, GatheringStill
      <4> QED  BY <4>1, <4>4, <4>6 DEF Whole
    <3> QED  BY <3>3, <3>4, <3>5
  <2> QED  BY <2>7, <2>8
<1> QED  BY <1>1, <1>2, <1>3, AtomicFrame DEF IsAdding

\* the end of an iteration of the shift loop
LEMMA GatheringOn ==
    ASSUME NEW g, ShiftStep(g), g >= 0, NEW m, m = Order(i) + 1, Gathering(m, g)', start' = start
    PROVE  Whole' /\ pc' \in {"shift", "put"}
<1>0. /\ head \in Slots /\ tail = head /\ i \in Slots /\ head' = head
      /\ AfterShift(offset') /\ offset' \in Nat \ {0} /\ g \in Int /\ g = Order(i) + 1 - offset'
      /\ \A s \in Held' : Order(s) < g \/ Order(s) > Order(i)
      /\ keys' \in [Slots -> Codes \cup {NoKey}]
  BY DEF ShiftStep, Typed
<1>2. /\ \A s \in Slots : Order(s) \in 0 .. N-1
      /\ Order(head) = 0 /\ RO_INC(i) \in Slots
      /\ Order(RO_INC(i)) = IF Order(i) = N - 1 THEN 0 ELSE Order(i) + 1
      /\ \A s : Order(s)' = RO_SUB(s', head)
      /\ \A s \in Slots : Order(s) = RO_SUB(s, head)
  BY <1>0, OrderRange, OrderSteps, RingStep DEF Order
<1>3. CASE RO_INC(i) # tail
  <2>1. pc' = "shift" /\ i' = RO_INC(i)
    BY <1>0, <1>3 DEF AfterShift, Goto
  <2>2. Order(RO_INC(i)) # 0
    BY <1>0, <1>2, <1>3, OrderInjective
  <2>3. Order(i)' = m
    BY <1>0, <1>2, <2>1, <2>2 DEF Order
  <2>4. Goal' = g
    BY <1>0, <1>2, <2>3, RingAssumption, SMT DEF Goal
  <2>5. Gathering(Order(i), Goal)'
    BY <2>3, <2>4 DEF Gathering, Below
  <2> QED  BY <2>1, <2>4, <2>5 DEF Whole
<1>4. CASE RO_INC(i) = tail
  <2>1. pc' = "put" /\ tail' = Back(tail, offset') /\ Order(i) = N - 1 /\ m = N
    BY <1>0, <1>2, <1>4, RingAssumption, SMT DEF AfterShift, Goto
  <2>2. offset' = N - g /\ g < N
    <3>1. offset' \in Nat /\ offset' # 0 /\ g \in Int /\ g = (N - 1) + 1 - offset'
      BY <1>0, <2>1
    <3> QED  BY <3>1, Sums
  <2>3. tail' = RO_SUB(head, N - g)
    <3>1. head \in 0 .. N-1 /\ tail' = Back(head, N - g)
      BY <1>0, <2>1, <2>2 DEF Slots
    <3>2. head - (N - g) + N >= 0
      BY <1>0, <2>2, <3>1, RingAssumption, SMT
    <3> QED  BY <1>0, <3>1, <3>2 DEF Back
  <2>4. Below(N)' = Held0'
    <3>1. \A s \in Slots : Order(s)' < N
      BY <1>0, <1>2, RingAssumption, SMT
    <3> QED  BY <3>1 DEF Below, Held0
  <2>5. g = Cardinality(Held0)'
    BY <2>1, <2>4 DEF Gathering
  <2>6. \A s \in Slots : Order(s)' >= g => keys'[s] = NoKey
    <3> SUFFICES ASSUME NEW s \in Slots, Order(s) >= g, s \in Held' PROVE FALSE
      BY <1>0, <1>2 DEF Held
    <3>1. Order(s) \in 0 .. N-1 /\ (Order(s) < g \/ Order(s) > N - 1)
      BY <1>0, <1>2, <2>1
    <3> QED  BY <1>0, <3>1, RingAssumption, SMT
  <2>7. Gathering(N, Cardinality(Held0))'
    BY <2>1, <2>5 DEF Gathering
  <2>8. Gathered0' /\ Absent0'
    BY <1>0, <2>3, <2>5, <2>6, <2>7 DEF Gathered0, Gathering, RO_SUB
  <2> QED  BY <2>1, <2>8 DEF Whole
<1> QED  BY <1>3, <1>4

\* the next key, if there is one in turn m
LEMMA BelowNext ==
    ASSUME head \in Slots, i \in Slots
    PROVE  /\ i \notin Held0 => Below(Order(i) + 1) = Below(Order(i))
           /\ i \in Held0 => /\ Below(Order(i) + 1) = Below(Order(i)) \cup {i}
                             /\ Cardinality(Below(Order(i) + 1)) = Cardinality(Below(Order(i))) + 1
<1>1. \A s \in Slots : Order(s) < Order(i) + 1 <=> Order(s) < Order(i) \/ s = i
  <2> SUFFICES ASSUME NEW s \in Slots
               PROVE  Order(s) < Order(i) + 1 <=> Order(s) < Order(i) \/ s = i
    OBVIOUS
  <2>1. Order(s) \in 0 .. N-1 /\ Order(i) \in 0 .. N-1 /\ (Order(s) = Order(i) => s = i)
    BY OrderRange, OrderInjective
  <2> QED  BY <2>1, RingAssumption, SMT
<1>2. Held0 \subseteq Slots /\ Below(Order(i)) \subseteq Slots
  BY DEF Held0, Below
<1>3. i \notin Below(Order(i))
  <2>1. Order(i) \in 0 .. N-1
    BY OrderRange
  <2>2. ~ (Order(i) < Order(i))
    BY <2>1, RingAssumption, SMT
  <2> QED  BY <2>2 DEF Below
<1>4. Cardinality(Below(Order(i)) \cup {i}) = Cardinality(Below(Order(i))) + 1
  BY <1>2, <1>3, OneMore
<1> QED  BY <1>1, <1>2, <1>4 DEF Below

LEMMA AtomicShiftHole ==
    ASSUME FewCuts, StepInv, AtomicInv, TailInv', ShiftHole, pc' # "idle" => start' = start
    PROVE  AtomicInv'
<1>1. /\ pc = "shift" /\ keys[i] = NoKey /\ ShiftStep(Goal)
      /\ UNCHANGED <<keys, head, count, clears, down, code>>
  BY ShiftHoleStep DEF ShiftHole
<1>2. head \in Slots /\ i \in Slots /\ Order(i) \in 0 .. N-1 /\ pc' # "idle"
      /\ \A s \in Slots : Order(s) \in 0 .. N-1
  BY <1>1, OrderRange DEF ShiftStep, AfterShift, Goto
<1>3. ASSUME Whole PROVE Whole' /\ pc' \in {"shift", "put"}
  <2>1. Goal >= 0 /\ Gathering(Order(i), Goal) /\ start' = start
    BY <1>1, <1>2, <1>3 DEF Whole
  <2>2. start.keys[i] = NoKey
    BY <1>1, <1>2, <2>1, RingAssumption, SMT DEF Gathering
  <2>3. Below(Order(i) + 1) = Below(Order(i))
    BY <1>2, <2>2, BelowNext DEF Held0
  <2>4. \A s \in Slots : Order(s) >= Order(i) + 1 => Order(s) >= Order(i)
    BY <1>2, RingAssumption, SMT
  <2>5. Gathering(Order(i) + 1, Goal)
    BY <2>1, <2>3, <2>4 DEF Gathering
  <2> DEFINE m == Order(i) + 1
             g == Goal
  <2>6. /\ ShiftStep(g) /\ g >= 0 /\ m = Order(i) + 1 /\ Gathering(m, g)
    BY <1>1, <2>1, <2>5
  <2> HIDE DEF m, g
  <2>7. \A mm, gg : Gathering(mm, gg) => Gathering(mm, gg)'
    BY <1>1, <2>1 DEF Gathering, Below, Held0, Full0, Absent0, Order, RO_DEC, RO_SUB
  <2> QED  BY <2>1, <2>6, <2>7, GatheringOn
<1> QED  BY <1>1, <1>2, <1>3, AtomicFrame DEF IsAdding

LEMMA AtomicShiftKey ==
    ASSUME AtomicInv, TailInv', ShiftKey, pc' # "idle" => start' = start
    PROVE  AtomicInv'
<1>1. /\ pc = "shift" /\ pc' = "move" /\ keys[i] # NoKey /\ reg' = keys[i]
      /\ UNCHANGED <<keys, head, tail, count, clears, down, code, i, empty, offset>>
  BY DEF ShiftKey, vars, Goto
<1>2. ASSUME Whole PROVE Whole'
  <2>1. Goal >= 0 /\ Gathering(Order(i), Goal) /\ start' = start
    BY <1>1, <1>2 DEF Whole
  <2>2. Order(i)' = Order(i) /\ Goal' = Goal
    BY <1>1 DEF Order, Goal
  <2>3. Gathering(Order(i), Goal)'
    BY <1>1, <2>1, <2>2, GatheringStill
  <2> QED  BY <1>1, <2>1, <2>2, <2>3 DEF Whole
<1> QED  BY <1>1, <1>2, AtomicFrame DEF IsAdding

LEMMA AtomicMove ==
    ASSUME StepInv, AtomicInv, TailInv', Move, pc' # "idle" => start' = start
    PROVE  AtomicInv'
<1>1. /\ pc = "move" /\ pc' = "leave" /\ AtMove /\ Typed
      /\ UNCHANGED <<head, tail, count, clears, down, code, i, empty, offset>>
  BY DEF Move, Goto, StepInv
<1>2. /\ head \in Slots /\ i \in Slots /\ empty \in Slots /\ i # empty
      /\ offset \in Nat \ {0} /\ Goal = Order(i) - offset
      /\ Order(empty) = (IF Goal = -1 THEN N - 1 ELSE Goal)
      /\ \A s \in Slots : Order(s) \in 0 .. N-1
      /\ keys \in [Slots -> Codes \cup {NoKey}]
  BY <1>1, OrderRange DEF AtMove, Shift, Typed, Goal
<1>3. ASSUME Whole PROVE Whole'
  <2>1. /\ Goal >= 0 /\ Gathering(Order(i), Goal) /\ reg = keys[i] /\ reg # NoKey
        /\ start' = start
    BY <1>1, <1>3 DEF Whole
  <2>2. keys' = [keys EXCEPT ![empty] = keys[i]]
    BY <2>1 DEF Move, Again
  <2>3. ~ (Order(empty) < Goal) /\ ~ (Order(empty) >= Order(i)) /\ Order(i) >= Order(i)
    <3>1. Order(i) \in 0 .. N-1
      BY <1>2
    <3> QED  BY <1>2, <2>1, <3>1, RingAssumption, SMT
  <2>4. /\ \A s \in Slots : Order(s) < Goal => keys'[s] = keys[s]
        /\ \A s \in Slots : Order(s) >= Order(i) => keys'[s] = keys[s]
        /\ keys'[empty] = keys[i]
    BY <1>2, <2>2, <2>3
  <2>5. keys[i] = start.keys[i] /\ i \in Held0
    BY <1>2, <2>1, <2>3 DEF Gathering, Held0
  <2>6. Order(i)' = Order(i) /\ Goal' = Goal /\ (\A s : Order(s)' = Order(s))
        /\ Held0' = Held0 /\ (Full0' <=> Full0) /\ (Absent0' <=> Absent0)
        /\ RO_DEC(head)' = RO_DEC(head) /\ \A n : Below(n)' = Below(n)
    BY <1>1, <2>1 DEF Order, Goal, Held0, Full0, Absent0, RO_DEC, RO_SUB, Below
  <2>7. Gathering(Order(i), Goal)'
    BY <1>1, <2>1, <2>4, <2>6 DEF Gathering
  <2>8. Goal' >= 0 /\ i' \in Held0' /\ keys'[empty'] = start'.keys[i']
    BY <1>1, <2>1, <2>4, <2>5, <2>6
  <2> QED  BY <1>1, <2>7, <2>8 DEF Whole
<1> QED  BY <1>1, <1>3, AtomicFrame DEF IsAdding

LEMMA AtomicLeave ==
    ASSUME FewCuts, StepInv, AtomicInv, TailInv', Leave, pc' # "idle" => start' = start
    PROVE  AtomicInv'
<1>1. /\ pc = "leave" /\ keys' = [keys EXCEPT ![i] = NoKey] /\ ShiftStep(Goal + 1)
      /\ UNCHANGED <<head, count, clears, down, code>> /\ AtLeave /\ Typed
  BY LeaveStep DEF Leave, StepInv
<1>2. /\ head \in Slots /\ i \in Slots /\ empty \in Slots /\ i # empty /\ pc' # "idle"
      /\ offset \in Nat \ {0} /\ Goal = Order(i) - offset
      /\ Order(empty) = (IF Goal = -1 THEN N - 1 ELSE Goal)
      /\ \A s \in Slots : Order(s) \in 0 .. N-1
      /\ keys \in [Slots -> Codes \cup {NoKey}]
  BY <1>1, OrderRange DEF AtLeave, Shift, Typed, Goal, ShiftStep, AfterShift, Goto
<1>3. ASSUME Whole PROVE Whole' /\ pc' \in {"shift", "put"}
  <2>1. /\ Goal >= 0 /\ Gathering(Order(i), Goal) /\ i \in Held0 /\ keys[empty] = start.keys[i]
        /\ start' = start
    BY <1>1, <1>2, <1>3 DEF Whole
  <2> DEFINE m == Order(i) + 1
             g == Goal + 1
  <2>2. Order(i) \in 0 .. N-1 /\ Goal \in 0 .. N-1 /\ Goal < Order(i) /\ Order(empty) = Goal
    <3>1. Order(i) \in 0 .. N-1
      BY <1>2
    <3> QED  BY <1>2, <2>1, <3>1, RingAssumption, SMT
  <2>3. g >= 0 /\ m = Order(i) + 1
    BY <2>2, RingAssumption, SMT
  <2>4. Below(m) = Below(Order(i)) \cup {i} /\ g = Cardinality(Below(m))
    BY <1>2, <2>1, BelowNext DEF Gathering
  <2>5. ASSUME NEW s \in Slots, Order(s) < g
        PROVE  \E t \in Below(m) : Cardinality(Below(Order(t))) = Order(s)
                                   /\ keys'[s] = start.keys[t]
    <3>1. s # i /\ (Order(s) < Goal \/ s = empty)
      <4>1. Order(s) \in 0 .. N-1
        BY <1>2
      <4>2. Order(s) < Order(i) /\ (Order(s) < Goal \/ Order(s) = Goal)
        BY <2>2, <2>5, <4>1, RingAssumption, SMT
      <4>3. ~ (Order(i) < Order(i))
        BY <2>2, RingAssumption, SMT
      <4> QED  BY <1>2, <2>2, <4>2, <4>3, OrderInjective
    <3>2. keys'[s] = keys[s]
      BY <1>1, <1>2, <3>1
    <3>3. CASE Order(s) < Goal
      BY <2>1, <2>4, <3>2, <3>3 DEF Gathering
    <3>4. CASE s = empty
      <4>1. Cardinality(Below(Order(i))) = Order(s)
        BY <2>1, <2>2, <3>4 DEF Gathering
      <4> QED  BY <2>1, <2>4, <3>2, <3>4, <4>1
    <3> QED  BY <3>1, <3>3, <3>4
  <2>6. ASSUME NEW s \in Slots, Order(s) >= m
        PROVE  keys'[s] = start.keys[s]
    <3>1. Order(s) \in 0 .. N-1
      BY <1>2
    <3>2. Order(s) >= Order(i) /\ Order(s) # Order(i)
      BY <2>2, <2>6, <3>1, RingAssumption, SMT
    <3>3. keys'[s] = keys[s]
      BY <1>1, <1>2, <3>2
    <3> QED  BY <2>1, <3>2, <3>3 DEF Gathering
  <2> HIDE DEF m, g
  <2>7. (\A s : Order(s)' = Order(s))
        /\ Held0' = Held0 /\ (Full0' <=> Full0) /\ (Absent0' <=> Absent0)
        /\ RO_DEC(head)' = RO_DEC(head) /\ \A n : Below(n)' = Below(n)
    BY <1>1, <2>1 DEF Order, Held0, Full0, Absent0, RO_DEC, RO_SUB, Below
  <2>8. \A mm, gg : /\ Gathering(Order(i), Goal) /\ gg = Cardinality(Below(mm))
                    /\ \A s \in Slots : Order(s) < gg =>
                          \E t \in Below(mm) : Cardinality(Below(Order(t))) = Order(s)
                                               /\ keys'[s] = start.keys[t]
                    /\ \A s \in Slots : Order(s) >= mm => keys'[s] = start.keys[s]
                    => Gathering(mm, gg)'
    BY <1>1, <2>1, <2>7 DEF Gathering
  <2>9. \E mm, gg : mm = m /\ gg = g /\ Gathering(mm, gg)'
    BY <2>1, <2>4, <2>5, <2>6, <2>8
  <2>10. ShiftStep(g)
    BY <1>1 DEF g
  <2> QED  BY <2>1, <2>3, <2>9, <2>10, GatheringOn
<1> QED  BY <1>1, <1>2, <1>3, AtomicFrame DEF IsAdding

LEMMA AtomicStill ==
    ASSUME AtomicInv, TailInv', UNCHANGED stepVars
    PROVE  AtomicInv'
<1>1. UNCHANGED <<keys, head, tail, count, clears, down, pc, code, i, empty, offset, reg, start>>
  BY DEF stepVars, vars, locals
<1>2. /\ Held' = Held /\ Held0' = Held0 /\ Scanned' = Scanned
      /\ (Full0' <=> Full0) /\ (Absent0' <=> Absent0) /\ (Fresh' <=> Fresh)
      /\ \A s : Order(s)' = Order(s)
      /\ \A h, t : RO_SUB(h, t)' = RO_SUB(h, t)
      /\ Goal' = Goal /\ Tail0' = Tail0
  BY <1>1 DEF Held, Held0, Scanned, Full0, Absent0, Fresh, Order, RO_SUB, Goal, Tail0
<1>3. /\ Order(i)' = Order(i) /\ RO_DEC(head)' = RO_DEC(head)
      /\ RO_INC(start.head)' = RO_INC(start.head) /\ RO_DEC(Tail0)' = RO_DEC(Tail0)
      /\ \A n : Below(n)' = Below(n)
  BY <1>1, <1>2 DEF Order, RO_DEC, RO_INC, RO_ADD, RO_SUB, Below
<1>4. (FirstHole(Order(i))' <=> FirstHole(Order(i)))
  BY <1>1, <1>2, <1>3 DEF FirstHole, Order
<1>5. \A m, g : Gathering(m, g)' <=> Gathering(m, g)
  BY <1>1, <1>2, <1>3 DEF Gathering
<1>6. Gathering(Order(i), Goal) => Gathering(Order(i), Goal)'
  BY <1>1, <1>2, <1>3, GatheringStill
<1>7. Gathered0 => Gathered0'
  <2>1. \A c : c = Cardinality(Held0) /\ Gathering(N, c) => Gathering(N, Cardinality(Held0))'
    BY <1>2, <1>5
  <2> QED  BY <1>1, <1>2, <2>1 DEF Gathered0, RO_SUB
<1>8. (Popped' <=> Popped) /\ (Found' <=> Found) /\ (Retracting' <=> Retracting)
  BY <1>1, <1>2, <1>3 DEF Popped, Found, Retracting, Turn, RO_SUB
<1>9. Whole => Whole'
  BY <1>1, <1>2, <1>4, <1>6, <1>7, <1>8 DEF Whole
<1> QED  BY <1>1, <1>9 DEF AtomicInv, Uncut, IsAdding

LEMMA AtomicInvStep ==
    ASSUME FewCuts, StepInv, StepInv', AtomicInv, [StepNext]_stepVars
    PROVE  AtomicInv'
<1>1. TailInv'
  BY TailKept DEF AtomicInv
<1>2. CASE Call /\ start' = (IF pc' = "idle" THEN NoCall ELSE Ring)
  BY <1>1, <1>2, AtomicCall DEF Call
<1>3. CASE Running
  <2>1. pc' # "idle" => start' = start
    BY <1>3 DEF Running
  <2>2. CASE Put
    <3>1. pc' = "idle"
      BY <2>2 DEF Put, Done
    <3> QED  BY <1>1, <3>1 DEF AtomicInv
  <2> QED  BY <1>1, <1>3, <2>1, <2>2, AtomicScan, AtomicHole, AtomicPop, AtomicShiftHole,
              AtomicShiftKey, AtomicMove, AtomicLeave, AtomicSearch, AtomicRelease,
              AtomicRetract DEF Running, InRing
<1>4. CASE Interrupt
  BY <1>1, <1>4, AtomicInterrupt
<1>5. CASE UNCHANGED stepVars
  BY <1>1, <1>5, AtomicStill
<1> QED  BY <1>2, <1>3, <1>4, <1>5 DEF StepNext

LEMMA AtomicInvInit == StepInit => AtomicInv
<1> SUFFICES ASSUME StepInit PROVE AtomicInv
  OBVIOUS
<1>1. pc = "idle" /\ Held = {}
  BY DEF StepInit, Init, Held
<1> QED  BY <1>1 DEF AtomicInv, TailInv, TailOnKey

-----------------------------------------------------------------------------
(* What the end of a call does to the ring that the call began with.       *)
LEMMA SameRing ==
    /\ KR!Slots = Slots
    /\ \A a, b : KR!RO_SUB(a, b) = RO_SUB(a, b)
    /\ \A a : KR!RO_INC(a) = RO_INC(a) /\ KR!RO_DEC(a) = RO_DEC(a)
    /\ \A h, t : KR!Turn(h, t) = Turn(h, t)
    /\ \A ks, h, t : KR!Retracted(ks, h, t) = Retracted(ks, h, t)
<1>1. /\ KR!Slots = Slots
      /\ \A a, b : KR!RO_SUB(a, b) = RO_SUB(a, b)
      /\ \A a : KR!RO_INC(a) = RO_INC(a) /\ KR!RO_DEC(a) = RO_DEC(a)
  BY DEF KR!Slots, KR!RO_SUB, KR!RO_INC, KR!RO_DEC, KR!RO_ADD,
         Slots, RO_SUB, RO_INC, RO_DEC, RO_ADD
<1>2. \A h, t : KR!Turn(h, t) = Turn(h, t)
  BY <1>1 DEF KR!Turn, Turn
<1>3. \A ks, h, t : KR!Retracted(ks, h, t) = Retracted(ks, h, t)
  BY DEF KR!Retracted, KR!Turn, KR!Slots, KR!RO_SUB, KR!RO_INC, KR!RO_ADD,
         Retracted, Turn, Slots, RO_SUB, RO_INC, RO_ADD
<1> QED  BY <1>1, <1>2, <1>3

LEMMA SameCardinality == \A S : KR!Cardinality(S) = Cardinality(S)
BY DEF KR!Cardinality, Cardinality

LEMMA CallView ==
    ASSUME pc # "idle"
    PROVE  /\ View = start /\ KR!Held = Held0 /\ (KR!Full <=> Full0)
           /\ \A c : KR!Present(c) <=> /\ start.count # 0
                                       /\ \E s \in Turn(start.head, start.tail) : start.keys[s] = c
           /\ \A s : KR!Order(s) = RO_SUB(s, start.head)
<1>1. View = start
  BY DEF View
<1> QED  BY <1>1, SameRing DEF KR!Held, Held0, KR!Full, Full0, KR!Present, KR!Scanned, KR!Order

LEMMA ReturnView ==
    ASSUME pc' = "idle"
    PROVE  /\ View'.keys = keys' /\ View'.head = head' /\ View'.tail = tail'
           /\ View'.count = count' /\ View'.clears = clears' /\ View'.down = down'
BY DEF View, Ring

LEMMA AddReturns ==
    ASSUME AtomicInv, Uncut, IsAdding, pc' = "idle", UNCHANGED <<clears, down>>,
           KR!AddPresent(code) \/ KR!AddFree(code) \/ KR!AddPop(code) \/ KR!AddShift(code)
    PROVE  KR!Next
<1>1. pc # "idle" /\ code \in Codes /\ down = start.down \cup {code} /\ View = start
  BY CallView DEF IsAdding, AtomicInv
<1>2. View'.down = View.down \cup {code} /\ View'.clears = View.clears
  BY <1>1, ReturnView DEF Uncut
<1>3. KR!add_key_byte(code)
  BY <1>2 DEF KR!add_key_byte
<1> QED  BY <1>1, <1>3 DEF KR!Next

LEMMA DelReturns ==
    ASSUME AtomicInv, Uncut, pc # "idle", ~ IsAdding, pc' = "idle", UNCHANGED <<clears, down>>,
           KR!DelMissing(code) \/ KR!DelPresent(code)
    PROVE  KR!Next
<1>1. code \in Codes /\ down = start.down \ {code} /\ View = start
  BY CallView DEF AtomicInv
<1>2. View'.down = View.down \ {code} /\ View'.clears = View.clears
  BY <1>1, ReturnView DEF Uncut
<1>3. KR!del_key_byte(code)
  BY <1>2 DEF KR!del_key_byte
<1> QED  BY <1>1, <1>3 DEF KR!Next

\* the code is in the report already
LEMMA FoundIsPresent ==
    ASSUME StepInv, AtomicInv, Uncut, ScanFound
    PROVE  KR!Next
<1>1. /\ pc = "scan" /\ keys[i] = code /\ pc' = "idle" /\ Fresh /\ AtScan
      /\ UNCHANGED <<keys, head, tail, count, clears, down>>
  BY DEF ScanFound, Done, vars, StepInv, AtomicInv, Whole
<1>2. KR!Present(code) /\ View = start
  BY <1>1, CallView DEF Fresh, AtScan, Adds, Scanned
<1>3. KR!AddPresent(code)
  BY <1>1, <1>2, ReturnView DEF KR!AddPresent, Fresh
<1> QED  BY <1>1, <1>3, AddReturns DEF IsAdding

\* what the slots were searched for is in none
LEMMA AbsentIsMissing ==
    ASSUME pc # "idle", Absent0, code \in Codes
    PROVE  ~ KR!Present(code)
<1>1. code # NoKey /\ \A s \in Turn(start.head, start.tail) : s \in Slots
  BY RingAssumption DEF Turn
<1> QED  BY <1>1, CallView DEF Absent0, Held0

LEMMA CountBack ==
    ASSUME NEW c \in 0 .. CountMod-1
    PROVE  (((c - 1) % CountMod) + 1) % CountMod = c
<1>1. CountMod \in Nat /\ CountMod > 0 /\ CountMod > 1
  BY RingAssumption, SMT
<1>2. CASE c = 0
  <2>1. (0 - 1) % CountMod = CountMod - 1
    BY <1>1, SMT
  <2>2. CountMod % CountMod = 0
    BY <1>1, SMT
  <2> QED  BY <1>1, <1>2, <2>1, <2>2, SMT
<1>3. CASE c # 0
  <2>1. c - 1 \in 0 .. 2*CountMod-1 /\ c \in 0 .. 2*CountMod-1
    BY <1>1, <1>3, SMT
  <2>2. (c - 1) % CountMod = c - 1 /\ c % CountMod = c
    BY <1>1, <2>1, ModOnce, SMT
  <2>3. c - 1 + 1 = c
    BY <1>1, SMT
  <2> QED  BY <2>2, <2>3
<1> QED  BY <1>2, <1>3

\* the keys that the loop has gathered are those of the shift of KeyRing
LEMMA GatheredIsShifted ==
    ASSUME pc # "idle", Gathered0, Typed
    PROVE  keys = KR!Shifted
<1> DEFINE c == Cardinality(Held0)
<1>1. /\ View = start /\ KR!Held = Held0 /\ KR!Slots = Slots
      /\ head \in Slots /\ head = start.head /\ tail = RO_SUB(head, N - c) /\ start.tail = head
      /\ \A s : KR!Order(s) = Order(s)
      /\ Held0 \subseteq Slots /\ Held0 # Slots /\ (Held0 # {} => RO_DEC(head) \in Held0)
      /\ keys \in [Slots -> Codes \cup {NoKey}]
  BY CallView, SameRing DEF Gathered0, Gathering, Full0, Typed, Order, Held0
<1>2. \A s \in Slots : Order(s) \in 0 .. N-1
  BY <1>1, OrderRange
<1>3. KR!First(KR!Slots \ KR!Held) # KR!RO_DEC(View.tail)
  <2> DEFINE S == Slots \ Held0
  <2>1. KR!First(S) = First(S)
    BY <1>1 DEF KR!First, First
  <2>2. First(S) \in S /\ \A t \in S : Order(First(S)) <= Order(t)
    <3>1. S \subseteq Slots /\ S # {}
      BY <1>1
    <3> HIDE DEF S
    <3> QED  BY <1>1, <3>1, FirstIsLeast
  <2>3. First(S) # RO_DEC(head)
    <3> SUFFICES ASSUME First(S) = RO_DEC(head) PROVE FALSE
      OBVIOUS
    <3>1. Held0 = {}
      BY <1>1, <2>2
    <3>2. Order(RO_DEC(head)) <= Order(head)
      BY <1>1, <2>2, <3>1
    <3>3. Order(head) = 0 /\ Order(RO_DEC(head)) = N - 1
      BY <1>1, OrderSteps
    <3>4. N - 1 <= 0
      BY <3>2, <3>3
    <3> QED  BY <3>4, RingAssumption, SMT
  <2> QED  BY <1>1, <2>1, <2>3, SameRing
<1>4. KR!Shifted = KR!Compacted
  BY <1>3 DEF KR!Shifted
<1>5. \A t : /\ KR!Rank(t) = RankIn(Held0, head, t)
            /\ Cardinality(Below(Order(t))) = RankIn(Held0, head, t)
  <2> SUFFICES ASSUME NEW t
               PROVE  /\ KR!Rank(t) = RankIn(Held0, head, t)
                      /\ Cardinality(Below(Order(t))) = RankIn(Held0, head, t)
    OBVIOUS
  <2> DEFINE S == {u \in Held0 : RO_SUB(u, head) < RO_SUB(t, head)}
  <2>1. Below(Order(t)) = S
    BY DEF Below, Order
  <2>2. {u \in KR!Held : KR!Order(u) < KR!Order(t)} = S
    BY <1>1 DEF Order
  <2>3. KR!Rank(t) = Cardinality({u \in KR!Held : KR!Order(u) < KR!Order(t)})
    BY SameCardinality DEF KR!Rank
  <2>4. RankIn(Held0, head, t) = Cardinality(S)
    BY DEF RankIn
  <2> HIDE DEF S
  <2> QED  BY <2>1, <2>2, <2>3, <2>4
<1>6. /\ \A t \in Held0 : RankIn(Held0, head, t) \in 0 .. c-1
      /\ \A t, u \in Held0 : RankIn(Held0, head, t) = RankIn(Held0, head, u) => t = u
  BY <1>1, RankNumbers
<1>7. c \in 0 .. N
  BY <1>1, SlotSetFinite
<1> HIDE DEF c
<1>8. ASSUME NEW s \in Slots
      PROVE  keys[s] = KR!Compacted[s]
  <2>1. KR!Compacted[s] = IF \E t \in Held0 : KR!Rank(t) = Order(s)
                          THEN start.keys[CHOOSE t \in Held0 : KR!Rank(t) = Order(s)]
                          ELSE NoKey
    BY <1>1 DEF KR!Compacted
  <2>2. CASE Order(s) < c
    <3>1. PICK t \in Held0 : Cardinality(Below(Order(t))) = Order(s) /\ keys[s] = start.keys[t]
      BY <2>2 DEF Gathered0, Gathering, Below, c
    <3>2. KR!Rank(t) = Order(s) /\ \A u \in Held0 : KR!Rank(u) = Order(s) => u = t
      BY <1>5, <1>6, <3>1
    <3>3. (CHOOSE u \in Held0 : KR!Rank(u) = Order(s)) = t
      BY <3>2
    <3> QED  BY <2>1, <3>1, <3>2, <3>3
  <2>3. CASE ~ (Order(s) < c)
    <3>1. Order(s) >= c /\ Order(s) \notin 0 .. c-1
      BY <1>2, <1>7, <2>3, RingAssumption, SMT
    <3>2. keys[s] = NoKey
      BY <3>1 DEF Gathered0, c
    <3>3. ~ \E t \in Held0 : KR!Rank(t) = Order(s)
      BY <1>5, <1>6, <3>1
    <3> QED  BY <2>1, <3>2, <3>3
  <2> QED  BY <2>2, <2>3
<1>9. KR!Compacted = [s \in Slots |-> KR!Compacted[s]]
  BY <1>1 DEF KR!Compacted
<1>10. keys = [s \in Slots |-> keys[s]]
  BY <1>1
<1> QED  BY <1>4, <1>8, <1>9, <1>10

LEMMA PutAdds ==
    ASSUME StepInv, AtomicInv, Uncut, Put
    PROVE  KR!Next
<1>1. /\ pc = "put" /\ pc' = "idle" /\ Absent0 /\ code \in Codes /\ Typed
      /\ (Fresh /\ ~ Full0) \/ Popped \/ Gathered0
      /\ UNCHANGED <<head, clears, down>>
      /\ tail' = RO_INC(tail) /\ count' = (count + 1) % CountMod
      /\ keys' = [keys EXCEPT ![tail] = code]
  <2>1. /\ pc = "put" /\ pc' = "idle" /\ Absent0 /\ code \in Codes /\ Typed
        /\ (Fresh /\ ~ Full0) \/ Popped \/ Gathered0
        /\ UNCHANGED <<head, clears, down>>
        /\ tail' = RO_INC(tail) /\ count' = (count + 1) % CountMod
        /\ IF tail \in Slots THEN keys' = [keys EXCEPT ![tail] = code] ELSE keys' = keys
    BY DEF Put, Done, StepInv, AtomicInv, Whole
  <2>2. tail \notin Slots => [keys EXCEPT ![tail] = code] = keys
    BY <2>1 DEF Typed
  <2> QED  BY <2>1, <2>2
<1>2. /\ View = start /\ KR!Held = Held0 /\ (KR!Full <=> Full0) /\ ~ KR!Present(code)
      /\ View'.keys = keys' /\ View'.head = head' /\ View'.tail = tail' /\ View'.count = count'
  BY <1>1, CallView, ReturnView, AbsentIsMissing
<1>3. CASE Fresh /\ ~ Full0
  <2>1. KR!PutAt(View.keys, View.tail, code)
    BY <1>1, <1>2, <1>3, SameRing DEF KR!PutAt, Fresh
  <2>2. KR!AddFree(code)
    BY <1>1, <1>2, <1>3, <2>1 DEF KR!AddFree, Fresh
  <2> QED  BY <1>1, <2>2, AddReturns DEF IsAdding
<1>4. CASE Popped
  <2>1. KR!PutAt(View.keys, View.tail, code)
    BY <1>1, <1>2, <1>4, SameRing DEF KR!PutAt, Popped
  <2>2. count' = start.count
    BY <1>1, <1>4, CountBack DEF Popped
  <2>3. KR!AddPop(code)
    BY <1>1, <1>2, <1>4, <2>1, <2>2, SameRing DEF KR!AddPop, Popped
  <2> QED  BY <1>1, <2>3, AddReturns DEF IsAdding
<1>5. CASE Gathered0
  <2>1. keys = KR!Shifted
    BY <1>1, <1>5, GatheredIsShifted
  <2>2. /\ head = start.head /\ count = start.count /\ Full0 /\ Held0 # Slots /\ start.tail = head
        /\ tail = RO_SUB(head, N - Cardinality(Held0))
    BY <1>5 DEF Gathered0, Gathering, Full0
  <2>3. KR!RO_SUB(View.tail, N - KR!Cardinality(KR!Held)) = tail
    BY <1>2, <2>2, SameRing, SameCardinality
  <2>4. KR!PutAt(KR!Shifted, KR!RO_SUB(View.tail, N - KR!Cardinality(KR!Held)), code)
    BY <1>1, <1>2, <2>1, <2>3, SameRing DEF KR!PutAt
  <2>5. KR!AddShift(code)
    BY <1>1, <1>2, <2>2, <2>4, SameRing DEF KR!AddShift
  <2> QED  BY <1>1, <2>5, AddReturns DEF IsAdding
<1> QED  BY <1>1, <1>3, <1>4, <1>5

LEMMA SearchMisses ==
    ASSUME StepInv, AtomicInv, Uncut, SearchOther, pc' = "idle"
    PROVE  KR!Next
<1>1. /\ pc = "search" /\ keys[i] # code /\ RO_INC(i) = tail /\ Fresh /\ AtSearch /\ Typed
      /\ code \in Codes /\ UNCHANGED <<keys, head, tail, count, clears, down>>
  BY DEF SearchOther, Done, vars, StepInv, AtomicInv, Whole
<1>2. head \in Slots /\ tail \in Slots /\ i \in Slots /\ \A t \in Scanned : Order(t) <= Order(i)
  BY <1>1, Visited DEF Typed, AtSearch, Sound
<1>3. ASSUME NEW s \in Scanned, keys[s] = code PROVE FALSE
  <2>1. s \in Slots /\ s \in Held /\ s # i
    BY <1>1, <1>3, RingAssumption DEF Scanned, Turn, Held
  <2>2. Order(s) \in 0 .. N-1 /\ Order(i) \in 0 .. N-1 /\ Order(s) # Order(i) /\ Order(s) <= Order(i)
    BY <1>2, <2>1, OrderRange, OrderInjective
  <2>3. Order(s) < Order(i)
    BY <2>2, RingAssumption, SMT
  <2> QED  BY <1>1, <1>3, <2>1, <2>3 DEF AtSearch, Passed
<1>4. ~ KR!Present(code) /\ View = start
  BY <1>1, <1>3, CallView DEF Fresh, Scanned
<1>5. KR!DelMissing(code)
  BY <1>1, <1>4, ReturnView DEF KR!DelMissing, Fresh
<1> QED  BY <1>1, <1>5, DelReturns DEF IsAdding

\* the key that is released is found at slot i
LEMMA FoundFirst ==
    ASSUME pc # "idle", Found
    PROVE  /\ KR!Present(code) /\ View = start
           /\ KR!First({s \in KR!Scanned : View.keys[s] = code}) = i
<1>1. KR!Present(code) /\ View = start /\ KR!Scanned = Turn(start.head, start.tail)
  BY CallView, SameRing DEF Found, KR!Scanned
<1>2. {s \in KR!Scanned : View.keys[s] = code} = {i}
  BY <1>1 DEF Found, Turn
<1>3. KR!Order(i) <= KR!Order(i)
  <2>1. i \in Slots /\ start.head \in Slots /\ KR!Order(i) = RO_SUB(i, start.head)
    BY CallView DEF Found, Turn
  <2>2. KR!Order(i) \in 0 .. N-1
    BY <2>1, RingDistance
  <2> QED  BY <2>2, RingAssumption, SMT
<1>4. KR!First({i}) = i
  BY <1>3 DEF KR!First
<1> QED  BY <1>1, <1>2, <1>4

LEMMA FoundIsReleased ==
    ASSUME pc # "idle", pc' = "idle", Found,
           keys' = [start.keys EXCEPT ![i] = NoKey],
           count' = (start.count - 1) % CountMod,
           head' = (IF count' = 0 THEN 0 ELSE start.head),
           NEW t, t = (IF count' = 0 THEN 0 ELSE start.tail),
           tail' = IF i = RO_DEC(t) THEN Retracted(keys', head', t) ELSE t
    PROVE  KR!DelPresent(code)
<1>1. /\ KR!Present(code) /\ View = start
      /\ KR!First({s \in KR!Scanned : View.keys[s] = code}) = i
      /\ View'.keys = keys' /\ View'.head = head' /\ View'.tail = tail' /\ View'.count = count'
  BY FoundFirst, ReturnView
<1>2. KR!RO_DEC(t) = RO_DEC(t) /\ KR!Retracted(keys', head', t) = Retracted(keys', head', t)
  BY SameRing
<1> QED  BY <1>1, <1>2 DEF KR!DelPresent

LEMMA ReleaseReleases ==
    ASSUME AtomicInv, Uncut, Release, pc' = "idle"
    PROVE  KR!Next
<1>1. /\ pc = "release" /\ Fresh /\ Found /\ UNCHANGED <<clears, down>>
      /\ keys' = [keys EXCEPT ![i] = NoKey] /\ count' = (count - 1) % CountMod
      /\ head' = (IF count' = 0 THEN 0 ELSE head) /\ tail' = (IF count' = 0 THEN 0 ELSE tail)
      /\ i # RO_DEC(tail')
  BY DEF Release, Goto, AtomicInv, Whole
<1>2. KR!DelPresent(code)
  <2>1. \A t : t = (IF count' = 0 THEN 0 ELSE start.tail) => t = tail'
    BY <1>1 DEF Fresh
  <2>2. /\ keys' = [start.keys EXCEPT ![i] = NoKey] /\ count' = (start.count - 1) % CountMod
        /\ head' = (IF count' = 0 THEN 0 ELSE start.head)
        /\ tail' = (IF count' = 0 THEN 0 ELSE start.tail)
    BY <1>1 DEF Fresh
  <2>3. \E t : /\ t = (IF count' = 0 THEN 0 ELSE start.tail)
               /\ tail' = IF i = RO_DEC(t) THEN Retracted(keys', head', t) ELSE t
    <3>1. \A t : t = tail' => RO_DEC(t) = RO_DEC(tail')
      OBVIOUS
    <3> QED  BY <1>1, <2>2, <3>1
  <2> QED  BY <1>1, <2>2, <2>3, FoundIsReleased
<1> QED  BY <1>1, <1>2, DelReturns DEF IsAdding

\* tail stops where Retracted has it
LEMMA RetractStops ==
    ASSUME NEW ks, NEW h \in Slots, NEW t \in Slots, NEW u \in Slots,
           NEW S, S = {s \in Slots : ks[s] # NoKey}, S \subseteq Turn(h, t), S \subseteq Turn(h, u),
           S # {} => RO_DEC(u) \in S, S = {} => u = h
    PROVE  Retracted(ks, h, t) = u
<1>1. {s \in Turn(h, t) : ks[s] # NoKey} = S
  BY DEF Turn
<1>2. \/ S = {} /\ Retracted(ks, h, t) = h
      \/ \E m \in S : /\ Retracted(ks, h, t) = RO_INC(m)
                      /\ \A r \in S : RO_SUB(r, h) <= RO_SUB(m, h)
  BY <1>1, RetractedStops
<1>3. CASE S = {}
  BY <1>2, <1>3
<1>4. CASE S # {}
  <2>1. PICK m \in S : /\ Retracted(ks, h, t) = RO_INC(m)
                       /\ \A r \in S : RO_SUB(r, h) <= RO_SUB(m, h)
    BY <1>2, <1>4
  <2>2. PICK w \in S : w = RO_DEC(u) /\ RO_INC(w) = u
    BY <1>4, RoundTripBack
  <2>3. m \in Slots /\ w \in Slots /\ RO_SUB(m, h) <= RO_SUB(w, h) /\ RO_SUB(w, h) <= RO_SUB(m, h)
    BY <2>1, <2>2, TurnBehind
  <2>4. RO_SUB(m, h) = RO_SUB(w, h)
    <3>1. RO_SUB(m, h) \in 0 .. N-1 /\ RO_SUB(w, h) \in 0 .. N-1
      BY <2>3, RingDistance
    <3> QED  BY <2>3, <3>1, RingAssumption, SMT
  <2>5. m = w
    BY <2>3, <2>4, TurnInjective
  <2> QED  BY <2>1, <2>2, <2>5
<1> QED  BY <1>3, <1>4

LEMMA RetractReleases ==
    ASSUME StepInv', TailInv', AtomicInv, Uncut, Retract, pc' = "idle"
    PROVE  KR!Next
<1>1. /\ pc = "retract" /\ Retracting /\ UNCHANGED <<keys, head, count, clears, down>>
      /\ keys[RO_DEC(tail')] # NoKey \/ tail' = head
  BY DEF Retract, locals, AtomicInv, Whole
<1>2. /\ Sound' /\ TailOnKey' /\ Held' = Held /\ head \in Slots /\ RO_DEC(tail)' = RO_DEC(tail')
  BY <1>1 DEF StepInv, AtIdle, Typed, TailInv, Held, RO_DEC, RO_SUB
<1>3. /\ tail' \in Slots /\ Held \subseteq Turn(head, tail') /\ Held \subseteq Turn(head, Tail0)
      /\ Tail0 \in Slots /\ (Held # {} => RO_DEC(tail') \in Held)
  BY <1>1, <1>2 DEF Sound, HeldIsScanned, Scanned, Retracting, TailOnKey
<1>4. Held = {} => tail' = head
  BY <1>1, <1>3, RingStep DEF Held
<1>5. Retracted(keys, head, Tail0) = tail'
  <2>1. Held = {s \in Slots : keys[s] # NoKey}
    BY DEF Held
  <2>2. \E u \in Slots : /\ u = tail' /\ Held \subseteq Turn(head, u)
                         /\ (Held # {} => RO_DEC(u) \in Held) /\ (Held = {} => u = head)
    BY <1>3, <1>4
  <2> HIDE DEF Held
  <2> QED  BY <1>2, <1>3, <2>1, <2>2, RetractStops
<1>6. KR!DelPresent(code)
  <2>1. /\ Found /\ keys' = [start.keys EXCEPT ![i] = NoKey]
        /\ count' = (start.count - 1) % CountMod /\ head' = (IF count' = 0 THEN 0 ELSE start.head)
        /\ Tail0 = (IF count' = 0 THEN 0 ELSE start.tail) /\ i = RO_DEC(Tail0)
    BY <1>1 DEF Retracting, Tail0
  <2>2. tail' = Retracted(keys', head', Tail0)
    BY <1>1, <1>5
  <2> HIDE DEF Tail0
  <2> QED  BY <1>1, <2>1, <2>2, FoundIsReleased
<1> QED  BY <1>1, <1>6, DelReturns DEF IsAdding

-----------------------------------------------------------------------------
LEMMA ViewStill ==
    ASSUME View' = View
    PROVE  KR!vars' = KR!vars
BY DEF KR!vars

LEMMA CallBegins ==
    ASSUME NEW c \in Codes, CallAdd(c) \/ CallDel(c),
           start' = (IF pc' = "idle" THEN NoCall ELSE Ring)
    PROVE  [KR!Next]_(KR!vars)
<1>1. pc = "idle" /\ View = Ring /\ UNCHANGED <<keys, head, tail, count, clears>>
  BY DEF CallAdd, CallDel, View
<1>2. CASE pc' # "idle"
  BY <1>1, <1>2, ViewStill DEF View
<1>3. CASE pc' = "idle"
  <2>1. CallDel(c) /\ count = 0 /\ down' = down \ {c}
    BY <1>3 DEF CallAdd, CallDel, Goto
  <2>2. /\ View.keys = keys /\ View.head = head /\ View.tail = tail /\ View.count = count
        /\ View.clears = clears /\ View.down = down
    BY <1>1 DEF Ring
  <2>3. KR!DelMissing(c)
    BY <1>1, <1>3, <2>1, <2>2, ReturnView DEF KR!DelMissing, KR!Present
  <2>4. KR!del_key_byte(c)
    BY <1>1, <1>3, <2>1, <2>2, <2>3, ReturnView DEF KR!del_key_byte
  <2> QED  BY <2>4 DEF KR!Next
<1> QED  BY <1>2, <1>3

LEMMA InterruptClears ==
    ASSUME Interrupt
    PROVE  [KR!Next]_(KR!vars)
<1>1. clear_keys /\ UNCHANGED <<pc, start>>
  BY DEF Interrupt, locals
<1>2. CASE pc # "idle"
  BY <1>1, <1>2, ViewStill DEF View
<1>3. CASE pc = "idle"
  <2>1. /\ View.keys = keys /\ View.head = head /\ View.tail = tail /\ View.count = count
        /\ View.clears = clears /\ View.down = down
    BY <1>3 DEF View, Ring
  <2>2. KR!clear_keys
    BY <1>1, <1>3, <2>1, ReturnView, SameRing DEF KR!clear_keys, clear_keys
  <2> QED  BY <2>2 DEF KR!Next
<1> QED  BY <1>2, <1>3

LEMMA AtomicStep ==
    ASSUME FewCuts, StepInv, StepInv', AtomicInv, AtomicInv', [StepNext]_stepVars,
           clears = View.clears
    PROVE  [KR!Next]_(KR!vars)
<1>1. CASE Call /\ start' = (IF pc' = "idle" THEN NoCall ELSE Ring)
  BY <1>1, CallBegins DEF Call
<1>2. CASE Running
  <2>1. pc # "idle" /\ (pc' # "idle" => start' = start)
    BY <1>2 DEF Running, InRing, Put, ScanFound, ScanOther, Hole, Pop, ShiftHole, ShiftKey, Move,
                Leave, SearchOther, SearchFound, Release, Retract
  <2>2. CASE pc' # "idle"
    BY <2>1, <2>2, ViewStill DEF View
  <2>3. CASE pc' = "idle"
    <3>1. Uncut /\ TailInv'
      BY <2>1 DEF View, Uncut, AtomicInv
    <3>2. Put \/ ScanFound \/ SearchOther \/ Release \/ Retract
      BY <1>2, <2>3 DEF Running, InRing, ScanOther, Hole, AfterScan, Pop, ShiftHole, ShiftKey,
                        Move, Leave, AfterShift, SearchFound, Goto
    <3>3. KR!Next
      BY <2>3, <3>1, <3>2, PutAdds, FoundIsPresent, SearchMisses, ReleaseReleases,
         RetractReleases
    <3> QED  BY <3>3
  <2> QED  BY <2>2, <2>3
<1>3. CASE Interrupt
  BY <1>3, InterruptClears
<1>4. CASE UNCHANGED stepVars
  <2>1. View' = View
    BY <1>4 DEF stepVars, vars, locals, View, Ring
  <2> QED  BY <2>1, ViewStill
<1> QED  BY <1>1, <1>2, <1>3, <1>4 DEF StepNext

(* AtomicUnlessCut: what KeyRing takes for one step is one, for any number *)
(* of slots: the loops of add_key_byte and del_key_byte, left alone by the *)
(* interrupt, end with the ring that KeyRing says.                         *)
THEOREM CallsAreAtomic ==
    ASSUME FewCuts
    PROVE  StepSpec => AtomicUnlessCut
<1>1. StepInv /\ AtomicInv /\ [StepNext]_stepVars /\ StepInv' => AtomicInv'
  BY AtomicInvStep
<1>2. StepInv /\ AtomicInv /\ [StepNext]_stepVars /\ StepInv' /\ AtomicInv'
         => (clears = View.clears => [KR!Next]_(KR!vars))
  BY AtomicStep
<1> QED  BY <1>1, <1>2, StepInvariant, AtomicInvInit, PTL DEF StepSpec, AtomicUnlessCut
=============================================================================
