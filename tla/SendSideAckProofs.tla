-------------------------- MODULE SendSideAckProofs --------------------------
(***************************************************************************)
(* Acks, the retransmission timer and failure preserve the inductive       *)
(* invariant of the sending half of a ReliableLink.                        *)
(***************************************************************************)
EXTENDS SendSideProofs

\* markLost(): what holds of the packets and their records after the front of mSent was
\* popped, up to the first record of `kept`.
LEMMA MarkLost ==
    ASSUME SendTypeOK, WindowsOK, RecordsOK, NEW buffers, BuffersOK(buffers),
           NEW counts \in [Lanes -> Int], CountsOK(buffers, counts),
           NEW kept \in SUBSET mSent, \A r \in kept : entryOf(r, buffers),
           markLost(buffers, counts, PoppedBefore(kept)),
           mTransmissions' = mTransmissions
    PROVE  /\ DOMAIN inFlight' = Lanes
           /\ \A l \in Lanes :
               /\ DOMAIN inFlight'[l] = DOMAIN buffers[l]
               /\ inFlight'[l] \in [DOMAIN inFlight'[l] -> Entries]
               /\ \A s \in DOMAIN inFlight'[l] :
                   /\ inFlight'[l][s].transmission <= mTransmissions
                   /\ recordOf(l, s, inFlight') \in (IF inFlight'[l][s].lost THEN lost'[l] ELSE mSent')
           /\ lost' \in [Lanes -> SUBSET SentRecords] /\ mSent' \in SUBSET SentRecords
           /\ RecordsOK'
           /\ QueuedBehind
           /\ CountsOK(inFlight, onTheWire)' /\ onTheWire' \in [Lanes -> Nat]
           /\ OldestIsOnTheWire'
           /\ mRecoveryStart' \in Nat /\ mRecoveryStart' <= mTransmissions
<1> DEFINE popped == PoppedBefore(kept)
           gone == newlyLost(buffers, popped)
           hit(l, s) == \E r \in gone : r.lane = l /\ r.seq = s
<1>1. /\ inFlight' = [l \in Lanes |-> [s \in DOMAIN buffers[l] |->
                        [buffers[l][s] EXCEPT !.lost = buffers[l][s].lost \/ hit(l, s)]]]
      /\ lost' = [l \in Lanes |-> lost[l] \cup {r \in gone : r.lane = l}]
      /\ onTheWire' = [l \in Lanes |-> counts[l] - Cardinality({r \in gone : r.lane = l})]
      /\ mSent' = mSent \ popped
      /\ mRecoveryStart' = IF shrinks(gone) THEN mTransmissions ELSE mRecoveryStart
  BY DEF markLost
<1>2. /\ gone = {r \in popped : entryOf(r, buffers)}
      /\ popped = {r \in mSent : \A q \in kept : r.transmission < q.transmission}
  BY DEF newlyLost, PoppedBefore
<1>3. /\ mSent \in SUBSET SentRecords /\ lost \in [Lanes -> SUBSET SentRecords]
      /\ mTransmissions \in Nat /\ mRecoveryStart \in Nat
      /\ mRecoveryStart <= mTransmissions
  BY DEF SendTypeOK, WindowsOK
<1>4. \A r \in SentRecords : r.transmission \in Nat /\ r.lane \in Lanes /\ r.seq \in Nat
                            /\ r = [transmission |-> r.transmission, seq |-> r.seq, lane |-> r.lane]
  BY DEF SentRecords
<1>5. gone \subseteq mSent /\ popped \subseteq mSent
  BY <1>2
<1>6. \A l \in Lanes : \A s \in DOMAIN buffers[l] :
        /\ buffers[l][s] \in Entries
        /\ buffers[l][s].transmission \in Nat /\ buffers[l][s].lost \in BOOLEAN
        /\ buffers[l][s].transmission <= mTransmissions
        /\ recordOf(l, s, buffers) \in (IF buffers[l][s].lost THEN lost[l] ELSE mSent)
  BY DEF BuffersOK, Entries
\* The records that count are those of packets on the wire
<1>7. ASSUME NEW l \in Lanes, NEW s \in DOMAIN buffers[l]
      PROVE  hit(l, s) <=> ~buffers[l][s].lost /\ recordOf(l, s, buffers) \in popped
  <2>1. ASSUME NEW r \in gone, r.lane = l, r.seq = s
        PROVE  ~buffers[l][s].lost /\ r = recordOf(l, s, buffers)
    BY <2>1, <1>2, <1>3, <1>4, <1>5 DEF entryOf, recordOf
  <2>2. ASSUME ~buffers[l][s].lost, recordOf(l, s, buffers) \in popped
        PROVE  recordOf(l, s, buffers) \in gone
    BY <2>2, <1>2 DEF entryOf, recordOf
  <2>3. recordOf(l, s, buffers).lane = l /\ recordOf(l, s, buffers).seq = s
    BY DEF recordOf
  <2>4. QED
    BY <2>1, <2>2, <2>3, <1>2
<1> HIDE DEF popped, gone, hit
<1>8. ASSUME NEW l \in Lanes
      PROVE  /\ DOMAIN inFlight'[l] = DOMAIN buffers[l]
             /\ inFlight'[l] \in [DOMAIN inFlight'[l] -> Entries]
             /\ \A s \in DOMAIN buffers[l] :
                 /\ inFlight'[l][s].transmission = buffers[l][s].transmission
                 /\ inFlight'[l][s].lost = (buffers[l][s].lost \/ hit(l, s))
  <2> DEFINE marked(s) == [buffers[l][s] EXCEPT !.lost = buffers[l][s].lost \/ hit(l, s)]
  <2>1. inFlight'[l] = [s \in DOMAIN buffers[l] |-> marked(s)]
    BY <1>1
  <2>2. ASSUME NEW s \in DOMAIN buffers[l]
        PROVE  /\ marked(s) \in Entries
               /\ marked(s).transmission = buffers[l][s].transmission
               /\ marked(s).lost = (buffers[l][s].lost \/ hit(l, s))
    <3>1. buffers[l][s] \in Entries
      BY <1>6
    <3>2. (buffers[l][s].lost \/ hit(l, s)) \in BOOLEAN
      OBVIOUS
    <3>3. QED
      BY <3>1, <3>2 DEF Entries
  <2> HIDE DEF marked
  <2>3. DOMAIN inFlight'[l] = DOMAIN buffers[l]
        /\ \A s \in DOMAIN buffers[l] : inFlight'[l][s] = marked(s)
    BY <2>1
  <2>4. inFlight'[l] \in [DOMAIN buffers[l] -> Entries]
    BY <2>1, <2>2
  <2>5. QED
    BY <2>2, <2>3, <2>4
<1>9. ASSUME NEW l \in Lanes, NEW s \in DOMAIN inFlight'[l]
      PROVE  /\ inFlight'[l][s].transmission <= mTransmissions
             /\ recordOf(l, s, inFlight') \in (IF inFlight'[l][s].lost THEN lost'[l] ELSE mSent')
  <2>1. s \in DOMAIN buffers[l] /\ recordOf(l, s, inFlight') = recordOf(l, s, buffers)
    BY <1>8 DEF recordOf
  <2>2. CASE buffers[l][s].lost
    BY <2>1, <2>2, <1>1, <1>6, <1>8
  <2>3. CASE ~buffers[l][s].lost /\ hit(l, s)
    <3>1. recordOf(l, s, buffers) \in gone /\ recordOf(l, s, buffers).lane = l
      BY <2>1, <2>3, <1>2, <1>7 DEF entryOf, recordOf
    <3>2. recordOf(l, s, buffers) \in lost'[l]
      BY <3>1, <1>1
    <3>3. inFlight'[l][s].lost /\ inFlight'[l][s].transmission <= mTransmissions
      BY <2>1, <2>3, <1>6, <1>8
    <3>4. QED
      BY <3>2, <3>3, <2>1
  <2>4. CASE ~buffers[l][s].lost /\ ~hit(l, s)
    BY <2>1, <2>4, <1>1, <1>6, <1>7, <1>8
  <2>5. QED
    BY <2>2, <2>3, <2>4
<1>10. lost' \in [Lanes -> SUBSET SentRecords] /\ mSent' \in SUBSET SentRecords
  BY <1>1, <1>3, <1>5
\* Everything popped was sent before everything kept
<1>11. ASSUME NEW r \in popped, NEW q \in mSent' PROVE r.transmission < q.transmission
  <2>1. q \in mSent /\ q \notin popped
    BY <1>1
  <2>2. PICK k \in kept : ~(q.transmission < k.transmission)
    BY <2>1, <1>2
  <2>3. r.transmission < k.transmission /\ k \in mSent /\ r \in mSent
    BY <1>2, <2>2
  <2>4. r.transmission \in Nat /\ q.transmission \in Nat /\ k.transmission \in Nat
    BY <2>1, <2>3, <1>3, <1>4
  <2>5. QED
    BY <2>2, <2>3, <2>4
<1>12. QueuedBehind
  BY <1>1, <1>5 DEF QueuedBehind, RecordsOK
<1>13. RecordsOK'
  <2>1. \A r \in mSent' : r.transmission <= mTransmissions'
    BY <1>1 DEF RecordsOK
  <2>2. \A r, q \in mSent' : r.transmission = q.transmission => r = q
    BY <1>1 DEF RecordsOK
  <2>3. ASSUME NEW l \in Lanes, NEW r \in lost'[l]
        PROVE  /\ r.lane = l /\ r.transmission <= mTransmissions'
               /\ \A q \in mSent' : r.transmission < q.transmission
    <3>1. CASE r \in lost[l]
      BY <3>1, <1>1 DEF RecordsOK
    <3>2. CASE r \in gone /\ r.lane = l
      BY <3>2, <1>2, <1>5, <1>11 DEF RecordsOK
    <3>3. QED
      BY <3>1, <3>2, <1>1
  <2>4. ASSUME NEW l \in Lanes, NEW r \in lost'[l], NEW q \in lost'[l],
               r.transmission = q.transmission
        PROVE  r = q
    <3>1. r \in SentRecords /\ q \in SentRecords
      BY <1>10
    <3>2. r.transmission \in Nat /\ q.transmission \in Nat
      BY <3>1, <1>4
    <3>3. r \in lost[l] \cup gone /\ q \in lost[l] \cup gone
      BY <1>1
    <3>4. QED
      BY <3>2, <3>3, <2>4, <1>5 DEF RecordsOK
  <2>5. QED
    BY <2>1, <2>2, <2>3, <2>4 DEF RecordsOK
<1>14. CountsOK(inFlight, onTheWire)' /\ onTheWire' \in [Lanes -> Nat]
  <2>1. ASSUME NEW l \in Lanes
        PROVE  onTheWire'[l] = Cardinality(Unlost(inFlight'[l])) /\ onTheWire'[l] \in Nat
    <3> DEFINE records == {r \in gone : r.lane = l}
               seqs == {s \in DOMAIN buffers[l] : hit(l, s)}
               f == [s \in seqs |-> recordOf(l, s, buffers)]
    <3>1. seqs \subseteq Unlost(buffers[l]) /\ Unlost(inFlight'[l]) = Unlost(buffers[l]) \ seqs
      BY <1>7, <1>8 DEF Unlost
    <3>2. IsFiniteSet(Unlost(buffers[l]))
      BY UnlostFinite
    <3>3. f \in Bijection(seqs, records)
      <4>1. ASSUME NEW s \in seqs PROVE recordOf(l, s, buffers) \in records
        BY <1>2, <1>7 DEF entryOf, recordOf
      <4>2. f \in [seqs -> records]
        BY <4>1
      <4>3. \A s, u \in seqs : f[s] = f[u] => s = u
        BY DEF recordOf
      <4>4. ASSUME NEW r \in records PROVE \E s \in seqs : f[s] = r
        <5>1. r \in mSent /\ r.lane = l /\ entryOf(r, buffers) /\ r \in gone
          BY <1>2, <1>5
        <5>2. r.seq \in DOMAIN buffers[l] /\ r.transmission = buffers[l][r.seq].transmission
          BY <5>1 DEF entryOf
        <5>3. r.seq \in seqs
          BY <5>1, <5>2 DEF hit
        <5>4. recordOf(l, r.seq, buffers) = r
          BY <5>1, <5>2, <1>3, <1>4 DEF recordOf
        <5>5. QED
          BY <5>3, <5>4
      <4>5. QED
        BY <4>2, <4>3, <4>4 DEF Bijection, Injection, Surjection, IsInjective
    <3>4. IsFiniteSet(seqs)
      BY <3>1, <3>2, FS_Subset
    <3>5. Cardinality(records) = Cardinality(seqs)
      <4>1. ExistsBijection(seqs, records)
        BY <3>3 DEF ExistsBijection
      <4>2. QED
        BY <4>1, <3>4, FS_Bijection
    <3> HIDE DEF seqs, records, f
    <3>6. /\ Cardinality(Unlost(buffers[l]) \ seqs)
               = Cardinality(Unlost(buffers[l])) - Cardinality(Unlost(buffers[l]) \cap seqs)
          /\ IsFiniteSet(Unlost(buffers[l]) \ seqs)
      BY <3>2, FS_Difference
    <3>7. Unlost(buffers[l]) \cap seqs = seqs
      BY <3>1
    <3>8. onTheWire'[l] = counts[l] - Cardinality(records) /\ counts[l] = Cardinality(Unlost(buffers[l]))
      BY <1>1 DEF records, CountsOK
    <3>9. Cardinality(Unlost(buffers[l]) \ seqs) \in Nat
      BY <3>6, FS_CardinalityType
    <3>10. QED
      BY <3>1, <3>5, <3>6, <3>7, <3>8, <3>9
  <2>2. QED
    BY <2>1, <1>1 DEF CountsOK
<1>15. OldestIsOnTheWire'
  <2> SUFFICES ASSUME NEW r \in mSent', \A q \in mSent' : r.transmission <= q.transmission
               PROVE  entryOf(r, inFlight')
    BY DEF OldestIsOnTheWire, entryOf
  <2>1. r \in mSent /\ r \notin popped
    BY <1>1
  <2>2. PICK k \in kept : ~(r.transmission < k.transmission)
    BY <2>1, <1>2
  <2>3. k \in mSent /\ k \notin popped /\ entryOf(k, buffers)
    <3>1. k.transmission \in Nat
      BY <1>3, <1>4
    <3>2. QED
      BY <3>1, <1>2
  <2>4. r = k
    <3>1. k \in mSent'
      BY <2>3, <1>1
    <3>2. r.transmission \in Nat /\ k.transmission \in Nat
      BY <2>1, <2>3, <1>3, <1>4
    <3>3. QED
      BY <3>1, <3>2, <2>1, <2>2, <2>3 DEF RecordsOK
  <2>5. r.lane \in Lanes /\ r.seq \in DOMAIN buffers[r.lane] /\ ~buffers[r.lane][r.seq].lost
        /\ recordOf(r.lane, r.seq, buffers) = r
        /\ buffers[r.lane][r.seq].transmission = r.transmission
    BY <2>3, <2>4, <1>3, <1>4 DEF entryOf, recordOf
  <2>6. ~hit(r.lane, r.seq)
    BY <2>5, <2>1, <1>7
  <2>7. QED
    BY <2>5, <2>6, <1>8 DEF entryOf
<1>16. mRecoveryStart' \in Nat /\ mRecoveryStart' <= mTransmissions
  BY <1>1, <1>3
<1>17. DOMAIN inFlight' = Lanes
  BY <1>1
<1>18. QED
  BY <1>8, <1>9, <1>10, <1>12, <1>13, <1>14, <1>15, <1>16, <1>17

-----------------------------------------------------------------------------
(* The steps *)

\* The congestion window stays positive and below its maximum when it is halved.
LEMMA HalvedWindow ==
    ASSUME SendTypeOK, WindowsOK, FixedCwnd = 0
    PROVE  halvedWindow \in Nat \ {0} /\ halvedWindow <= MaxCwnd * CwndUnit
<1>1. /\ MinCwnd * CwndUnit \in Nat \ {0} /\ MaxCwnd * CwndUnit \in Nat
      /\ MinCwnd * CwndUnit <= MaxCwnd * CwndUnit
  BY SendAssumption, Arithmetic
<1>2. mCongestionWindow \in Nat \ {0} /\ mCongestionWindow <= MaxCwnd * CwndUnit
  BY DEF SendTypeOK, WindowsOK
<1> DEFINE low == MinCwnd * CwndUnit
           high == MaxCwnd * CwndUnit
<1> HIDE DEF low, high
<1>3. halvedWindow = IF mCongestionWindow \div 2 < low THEN low ELSE mCongestionWindow \div 2
  BY DEF halvedWindow, low
<1>4. low \in Nat \ {0} /\ high \in Nat /\ low <= high /\ mCongestionWindow <= high
  BY <1>1, <1>2 DEF low, high
<1>5. halvedWindow \in Nat \ {0} /\ halvedWindow <= high
  BY <1>2, <1>3, <1>4
<1>6. QED
  BY <1>5 DEF high

\* The congestion window stays positive and below its maximum when it grows.
LEMMA GrownWindow ==
    ASSUME SendTypeOK, WindowsOK, FixedCwnd = 0, NEW counted \in Nat
    PROVE  /\ grownWindow(counted) \in Nat \ {0} /\ grownWindow(counted) <= MaxCwnd * CwndUnit
           /\ mCongestionWindow <= grownWindow(counted)
<1> DEFINE high == MaxCwnd * CwndUnit
           more == (counted * CwndUnit * CwndUnit) \div mCongestionWindow
<1>1. MaxCwnd * CwndUnit \in Nat
  BY SendAssumption, Arithmetic
<1>2. mCongestionWindow \in Nat \ {0} /\ mCongestionWindow <= MaxCwnd * CwndUnit
  BY DEF SendTypeOK, WindowsOK
<1>3. counted * CwndUnit * CwndUnit \in Nat
  BY SendAssumption, Arithmetic
<1>4. more \in Nat
  BY <1>2, <1>3, Arithmetic
<1> HIDE DEF high, more
<1>5. grownWindow(counted) = IF mCongestionWindow + more > high THEN high ELSE mCongestionWindow + more
  BY DEF grownWindow, high, more
<1>6. high \in Nat /\ mCongestionWindow <= high
  BY <1>1, <1>2 DEF high
<1>7. /\ grownWindow(counted) \in Nat \ {0} /\ grownWindow(counted) <= high
      /\ mCongestionWindow <= grownWindow(counted)
  BY <1>2, <1>4, <1>5, <1>6
<1>8. QED
  BY <1>7 DEF high

\* A retransmission timeout keeps the invariant.
LEMMA ExpireStep ==
    ASSUME SendInv, NEW overdue \in Nat, Expire(overdue)
    PROVE  SendInv' /\ QueuedBehind /\ NoneReleased
<1> DEFINE kept == {r \in mSent : entryOf(r, inFlight) /\ r.transmission > overdue}
           gone == newlyLost(inFlight, PoppedBefore(kept))
<1>1. SendTypeOK /\ WindowsOK /\ RecordsOK /\ BuffersOK(inFlight)
      /\ CountsOK(inFlight, onTheWire) /\ ProgressClockExact
  BY DEF SendInv
<1>2. /\ markLost(inFlight, onTheWire, PoppedBefore(kept))
      /\ mCongestionWindow' = IF shrinks(gone) THEN halvedWindow ELSE mCongestionWindow
      /\ UNCHANGED <<cursor, nextSendSeq, sendBase, peerPaused, ackSerial, mTransmissions,
                     mLargestAcked, mStalledSince, mFailed>>
  BY DEF Expire
<1>3. kept \in SUBSET mSent /\ (\A r \in kept : entryOf(r, inFlight))
      /\ onTheWire \in [Lanes -> Int] /\ mTransmissions' = mTransmissions
  BY <1>1, <1>2, CounterTypes
<1> HIDE DEF kept, gone
<1>4. /\ DOMAIN inFlight' = Lanes
      /\ \A l \in Lanes :
          /\ DOMAIN inFlight'[l] = DOMAIN inFlight[l]
          /\ inFlight'[l] \in [DOMAIN inFlight'[l] -> Entries]
          /\ \A s \in DOMAIN inFlight'[l] :
              /\ inFlight'[l][s].transmission <= mTransmissions
              /\ recordOf(l, s, inFlight') \in (IF inFlight'[l][s].lost THEN lost'[l] ELSE mSent')
      /\ lost' \in [Lanes -> SUBSET SentRecords] /\ mSent' \in SUBSET SentRecords
      /\ RecordsOK'
      /\ QueuedBehind
      /\ CountsOK(inFlight, onTheWire)' /\ onTheWire' \in [Lanes -> Nat]
      /\ OldestIsOnTheWire'
      /\ mRecoveryStart' \in Nat /\ mRecoveryStart' <= mTransmissions
  BY <1>1, <1>2, <1>3, MarkLost
<1>5. /\ mCongestionWindow' \in Nat \ {0}
      /\ FixedCwnd = 0 => mCongestionWindow' <= MaxCwnd * CwndUnit
  BY <1>1, <1>2, HalvedWindow DEF SendTypeOK, WindowsOK, shrinks
<1>6. SendTypeOK'
  BY <1>1, <1>2, <1>4, <1>5 DEF SendTypeOK
<1>7. WindowsOK'
  BY <1>1, <1>2, <1>4, <1>5 DEF WindowsOK
<1>8. BuffersOK(inFlight)'
  BY <1>1, <1>2, <1>4 DEF BuffersOK, recordOf
<1>9. ProgressClockExact'
  BY <1>1, <1>2, <1>4 DEF ProgressClockExact
<1>10. QED
  BY <1>4, <1>6, <1>7, <1>8, <1>9 DEF SendInv, NoneReleased

\* A failed link starts from nothing again.
LEMMA FailStep ==
    ASSUME Fail
    PROVE  SendInv' /\ QueuedBehind
<1> USE LinkAssumption, SendAssumption DEF Fail
<1>0. DOMAIN EmptyBuffer = {} /\ EmptyBuffer \in [DOMAIN EmptyBuffer -> Entries]
  BY DEF EmptyBuffer
<1>1. SendTypeOK'
  BY <1>0, InitialWindow DEF SendTypeOK, NoCursor, NoSerial
<1>2. WindowsOK'
  BY InitialWindow DEF WindowsOK
<1>3. RecordsOK' /\ OldestIsOnTheWire' /\ QueuedBehind
  BY DEF RecordsOK, OldestIsOnTheWire, QueuedBehind
<1>4. BuffersOK(inFlight)'
  BY <1>0 DEF BuffersOK
<1>5. CountsOK(inFlight, onTheWire)'
  <2>1. Unlost(EmptyBuffer) = {}
    BY <1>0 DEF Unlost
  <2>2. QED
    BY <2>1, FS_EmptySet DEF CountsOK
<1>6. ProgressClockExact'
  BY <1>0 DEF ProgressClockExact
<1>7. QED
  BY <1>1, <1>2, <1>3, <1>4, <1>5, <1>6 DEF SendInv

\* The packets and the counts without those that an Ack names
Remaining(l, gone) == [inFlight EXCEPT ![l] = Without(@, gone)]
StillCounted(l, gone) == [onTheWire EXCEPT ![l] = @ - Cardinality(offTheWire(l, gone))]

\* handleAck(): what is acknowledged leaves the window, and the count of what is on the wire.
LEMMA Release ==
    ASSUME SendInv, NEW l \in Lanes, NEW gone \in SUBSET DOMAIN inFlight[l]
    PROVE  /\ BuffersOK(Remaining(l, gone))
           /\ CountsOK(Remaining(l, gone), StillCounted(l, gone))
           /\ StillCounted(l, gone) \in [Lanes -> Int]
<1> DEFINE buffers == Remaining(l, gone)
           counts == StillCounted(l, gone)
<1>1. SendTypeOK /\ BuffersOK(inFlight) /\ CountsOK(inFlight, onTheWire)
  BY DEF SendInv
<1>2. /\ DOMAIN buffers = Lanes /\ buffers[l] = Without(inFlight[l], gone)
      /\ \A k \in Lanes : k # l => buffers[k] = inFlight[k]
  BY <1>1 DEF BuffersOK, Remaining
<1> HIDE DEF buffers
<1>3. /\ DOMAIN buffers[l] = DOMAIN inFlight[l] \ gone
      /\ \A s \in DOMAIN buffers[l] : buffers[l][s] = inFlight[l][s]
      /\ buffers[l] = [s \in DOMAIN buffers[l] |-> buffers[l][s]]
  BY <1>2 DEF Without
<1>4. \A k \in Lanes : /\ DOMAIN buffers[k] \subseteq DOMAIN inFlight[k]
                      /\ \A s \in DOMAIN buffers[k] : buffers[k][s] = inFlight[k][s]
  BY <1>2, <1>3
<1>5. BuffersOK(buffers)
  <2>1. ASSUME NEW k \in Lanes PROVE buffers[k] \in [DOMAIN buffers[k] -> Entries]
    <3>1. CASE k # l
      BY <3>1, <1>1, <1>2 DEF BuffersOK
    <3>2. \A s \in DOMAIN buffers[l] : buffers[l][s] \in Entries
      BY <1>1, <1>3 DEF BuffersOK
    <3>3. QED
      BY <3>1, <3>2, <1>3
  <2>2. ASSUME NEW k \in Lanes, NEW s \in DOMAIN buffers[k]
        PROVE  /\ buffers[k][s].transmission <= mTransmissions
               /\ recordOf(k, s, buffers) \in (IF buffers[k][s].lost THEN lost[k] ELSE mSent)
    BY <1>1, <1>4 DEF BuffersOK, recordOf
  <2>3. \A k \in Lanes : DOMAIN buffers[k] \subseteq sendBase[k] .. nextSendSeq[k] - 1
    BY <1>1, <1>4 DEF BuffersOK
  <2>4. QED
    BY <2>1, <2>2, <2>3, <1>2 DEF BuffersOK
<1>6. counts[l] = Cardinality(Unlost(buffers[l])) /\ counts[l] \in Int
  <2> DEFINE all == Unlost(inFlight[l])
             off == offTheWire(l, gone)
  <2>1. off \subseteq all /\ Unlost(buffers[l]) = all \ off
    BY <1>3 DEF Unlost, offTheWire
  <2>2. IsFiniteSet(all) /\ onTheWire[l] = Cardinality(all)
    BY <1>1, UnlostFinite DEF CountsOK
  <2>3. counts[l] = onTheWire[l] - Cardinality(off)
    BY <1>1, CounterTypes DEF StillCounted
  <2> HIDE DEF all, off, counts
  <2>4. Cardinality(all \ off) = Cardinality(all) - Cardinality(all \cap off)
    BY <2>2, FS_Difference
  <2>5. all \cap off = off
    BY <2>1
  <2>6. IsFiniteSet(off)
    BY <2>1, <2>2, FS_Subset
  <2>7. Cardinality(all) \in Nat /\ Cardinality(off) \in Nat
    BY <2>2, <2>6, FS_CardinalityType
  <2>8. Cardinality(Unlost(buffers[l])) = Cardinality(all) - Cardinality(off)
    BY <2>1, <2>4, <2>5
  <2>9. counts[l] = Cardinality(all) - Cardinality(off)
    BY <2>2, <2>3
  <2>10. QED
    BY <2>7, <2>8, <2>9
<1>7. counts \in [Lanes -> Int] /\ \A k \in Lanes : k # l => counts[k] = onTheWire[k]
  <2> DEFINE off == onTheWire[l] - Cardinality(offTheWire(l, gone))
  <2>1. onTheWire \in [Lanes -> Nat] /\ counts = [onTheWire EXCEPT ![l] = off]
    BY <1>1 DEF SendTypeOK, StillCounted
  <2> HIDE DEF off, counts
  <2>2. off \in Int
    BY <2>1, <1>6
  <2>3. QED
    BY <2>1, <2>2
<1> HIDE DEF counts
<1>8. CountsOK(buffers, counts)
  BY <1>1, <1>2, <1>6, <1>7 DEF CountsOK
<1>9. QED
  BY <1>5, <1>7, <1>8 DEF buffers, counts

\* handleAck(): the largest acknowledged transmission exists, and never decreases.
LEMMA LargerAcked ==
    ASSUME SendTypeOK, BuffersOK(inFlight), NEW l \in Lanes, NEW gone \in SUBSET DOMAIN inFlight[l]
    PROVE  largerAcked(l, gone) \in Nat /\ mLargestAcked <= largerAcked(l, gone)
<1> DEFINE acked == {inFlight[l][s].transmission : s \in gone} \cup {mLargestAcked}
           bound == mTransmissions + mLargestAcked
<1>1. mTransmissions \in Nat /\ mLargestAcked \in Nat
  BY CounterTypes
<1>2. ASSUME NEW s \in gone
      PROVE  /\ inFlight[l][s].transmission \in Nat
             /\ inFlight[l][s].transmission <= mTransmissions
  <2>1. inFlight[l][s] \in Entries /\ inFlight[l][s].transmission <= mTransmissions
    BY DEF BuffersOK
  <2>2. QED
    BY <2>1 DEF Entries
<1>3. acked \in SUBSET Nat /\ mLargestAcked \in acked /\ bound \in Nat
  BY <1>1, <1>2
<1>4. \A t \in acked : t <= bound
  BY <1>1, <1>2
<1>5. largerAcked(l, gone) = CHOOSE t \in acked : \A u \in acked : u <= t
  BY DEF largerAcked
<1> HIDE DEF acked, bound
<1>6. \E t \in acked : \A u \in acked : u <= t
  <2>1. acked # {}
    BY <1>3
  <2>2. QED
    BY <2>1, <1>3, <1>4, Greatest
<1>7. largerAcked(l, gone) \in acked /\ \A u \in acked : u <= largerAcked(l, gone)
  BY <1>5, <1>6
<1>8. QED
  BY <1>3, <1>7

\* An Ack keeps the invariant, whatever it says and however late it is.
LEMMA HandleAckStep ==
    ASSUME SendInv, NEW ack \in Acks, HandleAck(ack)
    PROVE  SendInv' /\ QueuedBehind /\ ReleasedBy(ack)
<1> DEFINE l       == ack.lane
           gone    == released(l, ack)
           counted == Cardinality({s \in gone : inFlight[l][s].transmission > mRecoveryStart})
           buffers == Remaining(l, gone)
           counts  == StillCounted(l, gone)
           kept    == keptBy(buffers, mLargestAcked')
           losses  == newlyLost(buffers, PoppedBefore(kept))
<1>1. SendTypeOK /\ WindowsOK /\ RecordsOK /\ BuffersOK(inFlight)
  BY DEF SendInv
<1>2. /\ \E serial : ackSerial' = [ackSerial EXCEPT ![l] = serial] /\ serial \in {ack.serial, ackSerial[l]}
      /\ \E p : peerPaused' = [peerPaused EXCEPT ![l] = p] /\ p \in {ack.paused, peerPaused[l]}
      /\ mLargestAcked' = largerAcked(l, gone)
      /\ markLost(buffers, counts, PoppedBefore(kept))
      /\ mCongestionWindow' =
            IF losses # {} THEN IF shrinks(losses) THEN halvedWindow ELSE mCongestionWindow
            ELSE IF sharesCongestionWindow(l) /\ counted > 0 /\ FixedCwnd = 0
                 THEN grownWindow(counted) ELSE mCongestionWindow
      /\ mStalledSince' = waitingForAck(buffers, peerPaused')
      /\ UNCHANGED <<cursor, nextSendSeq, mTransmissions, mFailed>>
  BY DEF HandleAck, Remaining, StillCounted
<1>3. PICK base \in sendBase[l] .. nextSendSeq[l] :
        /\ \A s \in sendBase[l] .. base - 1 : s \notin DOMAIN buffers[l]
        /\ sendBase' = [sendBase EXCEPT ![l] = base]
  BY DEF HandleAck, Remaining
<1>4. l \in Lanes /\ ack.serial \in 0 .. SerialSpan - 1 /\ ack.paused \in BOOLEAN
  BY DEF Acks
<1>5. gone \in SUBSET DOMAIN inFlight[l]
  BY DEF released
<1>6. kept \in SUBSET mSent /\ \A r \in kept : entryOf(r, buffers)
  BY DEF keptBy
<1>7. counted \in Nat
  <2>1. IsFiniteSet(sendBase[l] .. nextSendSeq[l] - 1)
    <3>1. sendBase[l] \in Int /\ nextSendSeq[l] - 1 \in Int
      BY <1>1, <1>4, CounterTypes
    <3>2. QED
      BY <3>1, FS_Interval
  <2>2. {s \in gone : inFlight[l][s].transmission > mRecoveryStart}
          \in SUBSET (sendBase[l] .. nextSendSeq[l] - 1)
    BY <1>1, <1>4, <1>5 DEF BuffersOK
  <2>3. QED
    BY <2>1, <2>2, FS_Subset, FS_CardinalityType
<1>8. mLargestAcked' \in Nat
  BY <1>1, <1>2, <1>4, <1>5, LargerAcked
<1>9. /\ BuffersOK(buffers)
      /\ CountsOK(buffers, counts) /\ counts \in [Lanes -> Int]
      /\ \A k \in Lanes : \A s \in DOMAIN inFlight[k] \ DOMAIN buffers[k] : k = l /\ s \in gone
  <2>1. DOMAIN inFlight = Lanes
    BY <1>1 DEF SendTypeOK
  <2>2. \A k \in Lanes : \A s \in DOMAIN inFlight[k] \ DOMAIN buffers[k] : k = l /\ s \in gone
    BY <2>1, <1>4 DEF Remaining, Without
  <2>3. QED
    BY <2>2, <1>4, <1>5, Release
<1> HIDE DEF l, gone, counted, buffers, counts, kept, losses
<1>10. /\ DOMAIN inFlight' = Lanes
       /\ \A k \in Lanes :
           /\ DOMAIN inFlight'[k] = DOMAIN buffers[k]
           /\ inFlight'[k] \in [DOMAIN inFlight'[k] -> Entries]
           /\ \A s \in DOMAIN inFlight'[k] :
               /\ inFlight'[k][s].transmission <= mTransmissions
               /\ recordOf(k, s, inFlight') \in (IF inFlight'[k][s].lost THEN lost'[k] ELSE mSent')
       /\ lost' \in [Lanes -> SUBSET SentRecords] /\ mSent' \in SUBSET SentRecords
       /\ RecordsOK'
       /\ QueuedBehind
       /\ CountsOK(inFlight, onTheWire)' /\ onTheWire' \in [Lanes -> Nat]
       /\ OldestIsOnTheWire'
       /\ mRecoveryStart' \in Nat /\ mRecoveryStart' <= mTransmissions
  <2>1. mTransmissions' = mTransmissions /\ markLost(buffers, counts, PoppedBefore(kept))
    BY <1>2
  <2>2. QED
    BY <2>1, <1>1, <1>6, <1>9, MarkLost
<1>11. /\ mCongestionWindow' \in Nat \ {0}
       /\ FixedCwnd = 0 => mCongestionWindow' <= MaxCwnd * CwndUnit
  BY <1>1, <1>2, <1>7, HalvedWindow, GrownWindow DEF SendTypeOK, WindowsOK, shrinks
<1>12. /\ sendBase \in [Lanes -> Nat] /\ nextSendSeq \in [Lanes -> Nat]
       /\ sendBase[l] \in Nat /\ nextSendSeq[l] \in Nat /\ base \in Nat
       /\ sendBase' \in [Lanes -> Nat] /\ sendBase'[l] = base
       /\ \A k \in Lanes : k # l => sendBase'[k] = sendBase[k]
       /\ nextSendSeq' = nextSendSeq
  <2>1. sendBase \in [Lanes -> Nat] /\ nextSendSeq \in [Lanes -> Nat]
    BY <1>1, CounterTypes
  <2>2. sendBase[l] \in Nat /\ nextSendSeq[l] \in Nat
    BY <2>1, <1>4
  <2>3. base \in Nat
    BY <2>2, <1>3
  <2>4. QED
    BY <2>1, <2>2, <2>3, <1>2, <1>3, <1>4
<1>13. WindowsOK'
  <2>1. ASSUME NEW k \in Lanes
        PROVE  1 <= sendBase'[k] /\ sendBase'[k] <= nextSendSeq'[k]
               /\ nextSendSeq'[k] <= sendBase'[k] + Window[k]
    <3>1. /\ 1 <= sendBase[k] /\ sendBase[k] <= nextSendSeq[k]
          /\ nextSendSeq[k] <= sendBase[k] + Window[k]
          /\ Window[k] \in Nat /\ sendBase[k] \in Nat /\ nextSendSeq[k] \in Nat
      BY <1>1, <1>12, LinkAssumption DEF WindowsOK
    <3>2. CASE k = l
      BY <3>1, <3>2, <1>3, <1>12
    <3>3. CASE k # l
      BY <3>1, <3>3, <1>12
    <3>4. QED
      BY <3>2, <3>3
  <2>2. QED
    BY <2>1, <1>2, <1>10, <1>11 DEF WindowsOK
<1>14. ASSUME NEW k \in Lanes
       PROVE  DOMAIN inFlight'[k] \subseteq sendBase'[k] .. nextSendSeq'[k] - 1
  <2>1. DOMAIN buffers[k] \subseteq sendBase[k] .. nextSendSeq[k] - 1
    BY <1>9 DEF BuffersOK
  <2>2. CASE k = l
    <3>1. sendBase'[k] = base /\ nextSendSeq'[k] = nextSendSeq[l]
          /\ DOMAIN inFlight'[k] = DOMAIN buffers[l]
      BY <2>2, <1>10, <1>12
    <3>2. ASSUME NEW s \in DOMAIN buffers[l]
          PROVE  s \in base .. nextSendSeq[l] - 1
      <4>1. s \in sendBase[l] .. nextSendSeq[l] - 1 /\ s \notin sendBase[l] .. base - 1
        BY <2>1, <2>2, <3>2, <1>3
      <4>2. QED
        BY <4>1, <1>12
    <3>3. QED
      BY <3>1, <3>2
  <2>3. CASE k # l
    BY <2>1, <2>3, <1>10, <1>12
  <2>4. QED
    BY <2>2, <2>3
<1>15. BuffersOK(inFlight)'
  BY <1>2, <1>10, <1>14 DEF BuffersOK, recordOf
<1>16. peerPaused' \in [Lanes -> BOOLEAN] /\ ackSerial' \in [Lanes -> 0 .. SerialSpan - 1 \cup {NoSerial}]
  BY <1>1, <1>2, <1>4 DEF SendTypeOK
<1>17. mStalledSince' \in BOOLEAN /\ ProgressClockExact'
  BY <1>2, <1>10 DEF ProgressClockExact, waitingForAck
<1>18. SendTypeOK'
  <2>1. \A k \in Lanes : DOMAIN inFlight'[k] \subseteq Nat
    BY <1>12, <1>14
  <2>2. cursor' = cursor /\ mTransmissions' = mTransmissions /\ mFailed' = mFailed
    BY <1>2
  <2>3. QED
    BY <2>1, <2>2, <1>1, <1>8, <1>10, <1>11, <1>12, <1>16, <1>17 DEF SendTypeOK
<1>19. ReleasedBy(ack)
  BY <1>9, <1>10 DEF ReleasedBy, released, gone, l
<1>20. QED
  BY <1>10, <1>13, <1>15, <1>17, <1>18, <1>19 DEF SendInv

-----------------------------------------------------------------------------
(* What the invariant and the steps imply *)

\* The invariant implies that no packet is forgotten and that the counts are exact.
LEMMA SendConsequences == SendInv => NothingForgotten /\ OnTheWireExact
<1> SUFFICES ASSUME SendInv PROVE NothingForgotten /\ OnTheWireExact
  OBVIOUS
<1>1. NothingForgotten
  <2> SUFFICES ASSUME NEW l \in Lanes, NEW s \in DOMAIN inFlight[l]
               PROVE  IF inFlight[l][s].lost THEN \E q \in lost[l] : q.seq = s
                      ELSE recordOf(l, s, inFlight) \in mSent
    BY DEF NothingForgotten, recordOf
  <2>1. recordOf(l, s, inFlight) \in (IF inFlight[l][s].lost THEN lost[l] ELSE mSent)
    BY DEF SendInv, BuffersOK
  <2>2. recordOf(l, s, inFlight).seq = s
    BY DEF recordOf
  <2>3. QED
    BY <2>1, <2>2
<1>2. OnTheWireExact
  BY DEF SendInv, CountsOK, Unlost, OnTheWireExact
<1>3. QED
  BY <1>1, <1>2

\* The congestion window is reduced for a packet that was sent after the last reduction
BeginsRound ==
    mCongestionWindow' < mCongestionWindow /\ ~mFailed' =>
        /\ \E l \in Lanes : \E r \in lost'[l] \ lost[l] :
              sharesCongestionWindow(l) /\ r.transmission > mRecoveryStart
        /\ mRecoveryStart' = mTransmissions

\* markLost() queues the packet a reduction is due to, which was not queued before.
LEMMA Reduction ==
    ASSUME SendTypeOK, RecordsOK, NEW buffers, NEW counts, NEW popped \in SUBSET mSent,
           markLost(buffers, counts, popped), shrinks(newlyLost(buffers, popped))
    PROVE  BeginsRound
<1>1. PICK r \in newlyLost(buffers, popped) :
        sharesCongestionWindow(r.lane) /\ r.transmission > mRecoveryStart
  BY DEF shrinks
<1>2. r \in mSent
  BY DEF newlyLost
<1>3. r.lane \in Lanes /\ r.transmission \in Nat
  BY <1>2 DEF SendTypeOK, SentRecords
<1>4. r \notin lost[r.lane]
  <2>1. ~(r.transmission < r.transmission)
    BY <1>3
  <2>2. QED
    BY <2>1, <1>2, <1>3 DEF RecordsOK
<1>5. lost' = [l \in Lanes |-> lost[l] \cup {q \in newlyLost(buffers, popped) : q.lane = l}]
      /\ mRecoveryStart' = mTransmissions
  BY DEF markLost
<1>6. r \in lost'[r.lane]
  BY <1>1, <1>3, <1>5
<1>7. QED
  BY <1>1, <1>3, <1>4, <1>5, <1>6 DEF BeginsRound

\* A timeout reduces the congestion window at most once per round.
LEMMA ExpireReduces ==
    ASSUME SendInv, NEW overdue \in Nat, Expire(overdue)
    PROVE  BeginsRound
<1> SUFFICES ASSUME mCongestionWindow' < mCongestionWindow
             PROVE  BeginsRound
  BY DEF BeginsRound
<1> DEFINE popped == PoppedBefore({r \in mSent : entryOf(r, inFlight) /\ r.transmission > overdue})
<1>1. SendTypeOK /\ RecordsOK /\ popped \in SUBSET mSent
  BY DEF SendInv, PoppedBefore
<1>2. markLost(inFlight, onTheWire, popped)
      /\ mCongestionWindow' = IF shrinks(newlyLost(inFlight, popped)) THEN halvedWindow
                              ELSE mCongestionWindow
  BY DEF Expire
<1> HIDE DEF popped
<1>3. shrinks(newlyLost(inFlight, popped))
  <2>1. mCongestionWindow \in Nat
    BY <1>1, CounterTypes
  <2>2. QED
    BY <2>1, <1>2
<1>4. QED
  BY <1>1, <1>2, <1>3, Reduction

\* An Ack reduces the congestion window at most once per round.
LEMMA HandleAckReduces ==
    ASSUME SendInv, NEW ack \in Acks, HandleAck(ack)
    PROVE  BeginsRound
<1> SUFFICES ASSUME mCongestionWindow' < mCongestionWindow
             PROVE  BeginsRound
  BY DEF BeginsRound
<1> DEFINE l       == ack.lane
           gone    == released(l, ack)
           counted == Cardinality({s \in gone : inFlight[l][s].transmission > mRecoveryStart})
           buffers == Remaining(l, gone)
           counts  == StillCounted(l, gone)
           popped  == PoppedBefore(keptBy(buffers, mLargestAcked'))
           losses  == newlyLost(buffers, popped)
<1>1. SendTypeOK /\ RecordsOK /\ WindowsOK /\ BuffersOK(inFlight) /\ popped \in SUBSET mSent
  BY DEF SendInv, PoppedBefore
<1>2. /\ markLost(buffers, counts, popped)
      /\ mCongestionWindow' =
            IF losses # {} THEN IF shrinks(losses) THEN halvedWindow ELSE mCongestionWindow
            ELSE IF sharesCongestionWindow(l) /\ counted > 0 /\ FixedCwnd = 0
                 THEN grownWindow(counted) ELSE mCongestionWindow
  BY DEF HandleAck, Remaining, StillCounted
<1>3. counted \in Nat
  <2>1. l \in Lanes
    BY DEF Acks
  <2>2. IsFiniteSet(sendBase[l] .. nextSendSeq[l] - 1)
    <3>1. sendBase[l] \in Int /\ nextSendSeq[l] - 1 \in Int
      BY <1>1, <2>1, CounterTypes
    <3>2. QED
      BY <3>1, FS_Interval
  <2>3. {s \in gone : inFlight[l][s].transmission > mRecoveryStart}
          \in SUBSET (sendBase[l] .. nextSendSeq[l] - 1)
    BY <1>1, <2>1 DEF BuffersOK, released
  <2>4. QED
    BY <2>2, <2>3, FS_Subset, FS_CardinalityType
<1> HIDE DEF l, gone, counted, buffers, counts, popped
<1>4. mCongestionWindow \in Nat
  BY <1>1 DEF SendTypeOK
<1>5. CASE shrinks(losses)
  BY <1>1, <1>2, <1>5, Reduction
<1>6. CASE ~shrinks(losses)
  <2> HIDE DEF losses
  <2>1. CASE FixedCwnd = 0
    <3>1. grownWindow(counted) \in Nat /\ mCongestionWindow <= grownWindow(counted)
      BY <2>1, <1>1, <1>3, GrownWindow
    <3>2. QED
      BY <3>1, <1>2, <1>4, <1>6
  <2>2. CASE FixedCwnd # 0
    BY <2>2, <1>2, <1>4, <1>6
  <2>3. QED
    BY <2>1, <2>2
<1>7. QED
  BY <1>5, <1>6
=============================================================================
