------------------------ MODULE SequenceBufferProofs ------------------------
(* No two seqs of a window share a slot, so that insert() replaces nothing *)
EXTENDS SequenceBuffer, WellFoundedInduction, TLAPS

\* seqs are in the window that begins with base
Within(seqs, base, w) == seqs \subseteq base .. base + w - 1

\* The buffer with seq added to what it holds
With(buffer, seq, value) ==
    [s \in DOMAIN buffer \cup {seq} |-> IF s = seq THEN value ELSE buffer[s]]

\* What dividing by the capacity yields.
LEMMA DivMod ==
    ASSUME NEW s \in Nat, NEW w \in Nat \ {0}
    PROVE  s = w * (s \div w) + (s % w) /\ s % w \in 0 .. w - 1 /\ s \div w \in Nat
    OBVIOUS

\* A positive multiple of the capacity is at least the capacity.
LEMMA Multiple ==
    ASSUME NEW w \in Nat \ {0}, NEW k \in Int, k >= 1
    PROVE  w * k >= w
    OBVIOUS

\* SequenceBuffer::index(): seqs less than a capacity apart have different slots.
LEMMA SlotsDiffer ==
    ASSUME NEW w \in Nat \ {0}, NEW s \in Nat, NEW t \in Nat, s < t, t < s + w
    PROVE  Slot(s, w) # Slot(t, w)
<1>1. SUFFICES ASSUME s % w = t % w PROVE FALSE
  BY DEF Slot
<1>2. s = w * (s \div w) + (s % w) /\ t = w * (t \div w) + (t % w)
  BY DivMod
<1>3. s \div w \in Int /\ t \div w \in Int
  BY DivMod
<1>4. w * (t \div w - s \div w) = w * (t \div w) - w * (s \div w)
  BY <1>3
<1>5. t - s = w * (t \div w - s \div w)
  BY <1>1, <1>2, <1>3, <1>4, DivMod
<1>6. CASE t \div w - s \div w >= 1
  BY <1>5, <1>6, <1>3, Multiple
<1>7. CASE t \div w - s \div w <= 0
  <2>1. w * (t \div w - s \div w) <= 0
    BY <1>7, <1>3
  <2>2. QED
    BY <2>1, <1>5
<1>8. QED
  BY <1>6, <1>7, <1>3

\* SequenceBuffer::insert(): within one window it adds the seq and replaces no other.
LEMMA InsertInWindow ==
    ASSUME NEW buffer, NEW w \in Nat \ {0}, NEW base \in Nat, NEW seq, NEW value,
           Within(DOMAIN buffer, base, w), Within({seq}, base, w)
    PROVE  Insert(buffer, w, seq, value) = With(buffer, seq, value)
<1>1. ASSUME NEW s \in DOMAIN buffer, s # seq PROVE Slot(s, w) # Slot(seq, w)
  <2>1. s \in Nat /\ seq \in Nat /\ s < seq + w /\ seq < s + w
    BY DEF Within
  <2>2. CASE s < seq
    BY <2>1, <2>2, SlotsDiffer
  <2>3. CASE seq < s
    BY <2>1, <2>3, SlotsDiffer
  <2>4. QED
    BY <2>1, <2>2, <2>3, <1>1
<1>2. {t \in DOMAIN buffer : Slot(t, w) # Slot(seq, w)} \cup {seq} = DOMAIN buffer \cup {seq}
  BY <1>1
<1>3. QED
  BY <1>2 DEF Insert, With

\* A non-empty set of naturals has a least element.
LEMMA Least ==
    ASSUME NEW S \in SUBSET Nat, S # {}
    PROVE  \E m \in S : \A s \in S : m <= s
<1>1. PICK m \in S : \A s \in S : ~(<<s, m>> \in OpToRel(<, Nat))
  BY WFMin, NatLessThanWellFounded
<1>2. \A s \in S : ~(s < m)
  BY <1>1 DEF OpToRel
<1>3. QED
  BY <1>2

\* A bounded non-empty set of naturals has a greatest element.
LEMMA Greatest ==
    ASSUME NEW S \in SUBSET Nat, S # {}, NEW b \in Nat, \A s \in S : s <= b
    PROVE  \E m \in S : \A s \in S : s <= m
<1> DEFINE T == {b - s : s \in S}
<1>1. \A s \in S : s \in Nat /\ b - s \in Nat /\ b - s \in T
  OBVIOUS
<1>2. \A t \in T : \E s \in S : t = b - s
  OBVIOUS
<1> HIDE DEF T
<1>3. T \in SUBSET Nat /\ T # {}
  BY <1>1, <1>2
<1>4. PICK t \in T : \A u \in T : t <= u
  BY <1>3, Least
<1>5. PICK m \in S : t = b - m
  BY <1>2
<1>6. ASSUME NEW s \in S PROVE s <= m
  <2>1. t <= b - s /\ s \in Nat /\ m \in Nat
    BY <1>1, <1>4
  <2>2. QED
    BY <2>1, <1>5
<1>7. QED
  BY <1>6
=============================================================================
