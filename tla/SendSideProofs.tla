--------------------------- MODULE SendSideProofs ---------------------------
(***************************************************************************)
(* The inductive invariant of the sending half of a ReliableLink, and that *)
(* sending a packet, for the first time or again, preserves it.            *)
(***************************************************************************)
EXTENDS SendSide, SequenceBufferProofs, FiniteSetTheorems, TLAPS

Unlost(buffer) == {s \in DOMAIN buffer : ~buffer[s].lost}

recordOf(l, s, buffers) ==
    [transmission |-> buffers[l][s].transmission, seq |-> s, lane |-> l]

\* The packets in flight are within the window, and were sent
BuffersOK(buffers) ==
    /\ DOMAIN buffers = Lanes
    /\ \A l \in Lanes :
        /\ buffers[l] \in [DOMAIN buffers[l] -> Entries]
        /\ DOMAIN buffers[l] \subseteq sendBase[l] .. nextSendSeq[l] - 1
        /\ \A s \in DOMAIN buffers[l] :
            /\ buffers[l][s].transmission <= mTransmissions
            /\ recordOf(l, s, buffers) \in (IF buffers[l][s].lost THEN lost[l] ELSE mSent)

\* The two deques: one transmission has one record, and everything in lost was sent before
\* everything in mSent
RecordsOK ==
    /\ \A r \in mSent : r.transmission <= mTransmissions
    /\ \A r, q \in mSent : r.transmission = q.transmission => r = q
    /\ \A l \in Lanes :
        /\ \A r \in lost[l] : r.lane = l /\ r.transmission <= mTransmissions
        /\ \A r \in lost[l], q \in mSent : r.transmission < q.transmission
        /\ \A r, q \in lost[l] : r.transmission = q.transmission => r = q

\* A window is never overdrawn
WindowsOK ==
    /\ \A l \in Lanes : 1 <= sendBase[l] /\ sendBase[l] <= nextSendSeq[l]
                        /\ nextSendSeq[l] <= sendBase[l] + Window[l]
    /\ mRecoveryStart <= mTransmissions
    /\ FixedCwnd = 0 => mCongestionWindow <= MaxCwnd * CwndUnit

CountsOK(buffers, wire) == \A l \in Lanes : wire[l] = Cardinality(Unlost(buffers[l]))

SendInv ==
    /\ SendTypeOK
    /\ WindowsOK
    /\ RecordsOK
    /\ BuffersOK(inFlight)
    /\ CountsOK(inFlight, onTheWire)
    /\ OldestIsOnTheWire
    /\ ProgressClockExact

-----------------------------------------------------------------------------
(* Lemmas *)

\* The types of the counters, without what SendTypeOK says of the buffers.
LEMMA CounterTypes ==
    ASSUME SendTypeOK
    PROVE  /\ nextSendSeq \in [Lanes -> Nat] /\ sendBase \in [Lanes -> Nat]
           /\ onTheWire \in [Lanes -> Nat]
           /\ mTransmissions \in Nat /\ mLargestAcked \in Nat /\ mRecoveryStart \in Nat
           /\ mCongestionWindow \in Nat \ {0}
BY DEF SendTypeOK

\* The congestion window stays positive: products and quotients of its parts.
LEMMA Arithmetic ==
    /\ \A a, b \in Nat \ {0} : a * b \in Nat \ {0}
    /\ \A a, b \in Nat : a * b \in Nat
    /\ \A a \in Nat, b \in Nat \ {0} : a \div b \in Nat
    /\ \A a, b, c \in Nat : a <= b => a * c <= b * c
<1>1. \A a, b \in Nat \ {0} : a * b \in Nat \ {0}
  OBVIOUS
<1>2. \A a, b \in Nat : a * b \in Nat
  OBVIOUS
<1>3. \A a \in Nat, b \in Nat \ {0} : a \div b \in Nat
  OBVIOUS
<1>4. \A a, b, c \in Nat : a <= b => a * c <= b * c
  OBVIOUS
<1>5. QED
  BY <1>1, <1>2, <1>3, <1>4

\* initialWindow(): positive, and at most the maximum unless it is fixed.
LEMMA InitialWindow ==
    initialWindow \in Nat \ {0} /\ (FixedCwnd = 0 => initialWindow <= MaxCwnd * CwndUnit)
<1> DEFINE packets == IF FixedCwnd > 0 THEN FixedCwnd
                      ELSE IF InitialCwnd < MinCwnd THEN MinCwnd
                      ELSE IF InitialCwnd > MaxCwnd THEN MaxCwnd ELSE InitialCwnd
<1>1. packets \in Nat \ {0} /\ CwndUnit \in Nat \ {0} /\ MaxCwnd \in Nat
      /\ (FixedCwnd = 0 => packets <= MaxCwnd)
  BY SendAssumption
<1>2. initialWindow = CwndUnit * packets
  BY DEF initialWindow
<1> HIDE DEF packets
<1>3. CwndUnit * packets \in Nat \ {0}
  BY <1>1, Arithmetic
<1>4. FixedCwnd = 0 => packets * CwndUnit <= MaxCwnd * CwndUnit
  BY <1>1, Arithmetic
<1>5. CwndUnit * packets = packets * CwndUnit
  BY <1>1
<1>6. QED
  BY <1>2, <1>3, <1>4, <1>5

\* The initial state of a link.
LEMMA SendInitial == SendInit => SendInv
<1> SUFFICES ASSUME SendInit PROVE SendInv
  OBVIOUS
<1> USE LinkAssumption, SendAssumption DEF SendInit
<1>0. DOMAIN EmptyBuffer = {} /\ EmptyBuffer \in [DOMAIN EmptyBuffer -> Entries]
  BY DEF EmptyBuffer
<1>1. SendTypeOK
  BY <1>0, InitialWindow DEF SendTypeOK, NoCursor, NoSerial
<1>2. WindowsOK
  BY InitialWindow DEF WindowsOK
<1>3. RecordsOK /\ OldestIsOnTheWire
  BY DEF RecordsOK, OldestIsOnTheWire
<1>4. BuffersOK(inFlight)
  BY <1>0 DEF BuffersOK
<1>5. CountsOK(inFlight, onTheWire)
  <2>1. Unlost(EmptyBuffer) = {}
    BY <1>0 DEF Unlost
  <2>2. QED
    BY <2>1, FS_EmptySet DEF CountsOK
<1>6. ProgressClockExact
  BY <1>0 DEF ProgressClockExact
<1>7. QED
  BY <1>1, <1>2, <1>3, <1>4, <1>5, <1>6 DEF SendInv

\* The packets of a lane that are on the wire are finitely many.
LEMMA UnlostFinite ==
    ASSUME NEW buffers, NEW l \in Lanes, SendTypeOK, BuffersOK(buffers)
    PROVE  IsFiniteSet(Unlost(buffers[l]))
<1>1. sendBase[l] \in Int /\ nextSendSeq[l] - 1 \in Int
  BY DEF SendTypeOK
<1>2. IsFiniteSet(sendBase[l] .. nextSendSeq[l] - 1)
  BY <1>1, FS_Interval
<1>3. Unlost(buffers[l]) \in SUBSET (sendBase[l] .. nextSendSeq[l] - 1)
  BY DEF BuffersOK, Unlost
<1>4. QED
  BY <1>2, <1>3, FS_Subset

\* The seq is used, be it a new one or not
Uses(l, seq) ==
    nextSendSeq' = [nextSendSeq EXCEPT ![l] = IF seq = @ THEN @ + 1 ELSE @]

\* No lost packet but this one leaves the queue
OthersStayQueued(l, seq) ==
    \A k \in Lanes : \A s \in DOMAIN inFlight[k] :
        inFlight[k][s].lost /\ (k # l \/ s # seq) => recordOf(k, s, inFlight) \in lost'[k]

\* Nothing that is in flight is taken for acknowledged
NoneReleased == \A l \in Lanes : DOMAIN inFlight[l] \subseteq DOMAIN inFlight'[l]

\* ... but what the Ack names
ReleasedBy(ack) ==
    \A l \in Lanes : \A s \in DOMAIN inFlight[l] \ DOMAIN inFlight'[l] :
        l = ack.lane /\ (s <= ack.seq \/ s \in ack.ranges)

\* transmit(): what holds of the packets and their records after one more packet went out,
\* be it new or lost.
LEMMA Transmit ==
    ASSUME SendInv, NEW l \in Lanes, NEW seq \in sendBase[l] .. nextSendSeq[l],
           seq < sendBase[l] + Window[l],
           NEW frag \in Fragments,
           seq \in DOMAIN inFlight[l] => inFlight[l][seq].lost,
           transmit(l, seq, frag),
           UNCHANGED <<sendBase, peerPaused>>,
           Uses(l, seq),
           lost' \in [Lanes -> SUBSET SentRecords],
           \A k \in Lanes : lost'[k] \subseteq lost[k],
           OthersStayQueued(l, seq)
    PROVE  /\ BuffersOK(inFlight)'
           /\ RecordsOK'
           /\ CountsOK(inFlight, onTheWire)'
           /\ OldestIsOnTheWire'
           /\ ProgressClockExact'
           /\ onTheWire' \in [Lanes -> Nat]
           /\ mSent' \in SUBSET SentRecords
           /\ mTransmissions' = mTransmissions + 1 /\ mTransmissions \in Nat
           /\ mStalledSince' \in BOOLEAN
           /\ NoneReleased /\ seq \in DOMAIN inFlight'[l]
<1> DEFINE t == mTransmissions + 1
           entry == [frag |-> frag, lost |-> FALSE, transmission |-> t]
           record == [transmission |-> t, seq |-> seq, lane |-> l]
<1>1. SendTypeOK /\ WindowsOK /\ RecordsOK /\ BuffersOK(inFlight)
      /\ CountsOK(inFlight, onTheWire) /\ OldestIsOnTheWire
  BY DEF SendInv
<1>2. /\ inFlight' = [inFlight EXCEPT ![l] = Insert(inFlight[l], Window[l], seq, entry)]
      /\ mTransmissions' = t
      /\ onTheWire' = [onTheWire EXCEPT ![l] = onTheWire[l] + 1]
      /\ mSent' = mSent \cup {record}
      /\ mStalledSince' = waitingForAck(inFlight', peerPaused)
  BY DEF transmit
<1>3. /\ sendBase[l] \in Nat /\ nextSendSeq[l] \in Nat /\ seq \in Nat /\ mTransmissions \in Nat
      /\ t \in Nat /\ entry \in Entries /\ record \in SentRecords
      /\ Window[l] \in Nat \ {0} /\ nextSendSeq[l] <= sendBase[l] + Window[l]
      /\ DOMAIN inFlight = Lanes
  BY <1>1, LinkAssumption DEF SendTypeOK, WindowsOK, Entries, SentRecords
<1>4. Within(DOMAIN inFlight[l], sendBase[l], Window[l]) /\ Within({seq}, sendBase[l], Window[l])
  BY <1>1, <1>3 DEF BuffersOK, Within
<1>5. /\ DOMAIN inFlight'[l] = DOMAIN inFlight[l] \cup {seq}
      /\ inFlight'[l][seq] = entry
      /\ \A s \in DOMAIN inFlight[l] : s # seq => inFlight'[l][s] = inFlight[l][s]
      /\ \A k \in Lanes : k # l => inFlight'[k] = inFlight[k]
      /\ DOMAIN inFlight' = Lanes
      /\ inFlight'[l] = Insert(inFlight[l], Window[l], seq, entry)
  <2> HIDE DEF entry
  <2>0. sendBase[l] \in Nat /\ Window[l] \in Nat \ {0}
    BY <1>3
  <2>1. Insert(inFlight[l], Window[l], seq, entry) = With(inFlight[l], seq, entry)
    BY <2>0, <1>4, InsertInWindow
  <2>2. /\ inFlight'[l] = Insert(inFlight[l], Window[l], seq, entry)
        /\ \A k \in Lanes : k # l => inFlight'[k] = inFlight[k]
        /\ DOMAIN inFlight' = Lanes
    BY <1>2, <1>3
  <2>3. QED
    BY <2>1, <2>2 DEF With
<1> HIDE DEF t, entry, record
<1>6. BuffersOK(inFlight)'
  <2>1. ASSUME NEW k \in Lanes
        PROVE  inFlight'[k] \in [DOMAIN inFlight'[k] -> Entries]
    <3>1. CASE k = l
      <4>1. \A s \in DOMAIN inFlight'[l] : inFlight'[l][s] \in Entries
        BY <1>1, <1>3, <1>5 DEF BuffersOK
      <4>2. inFlight'[l] = [s \in DOMAIN inFlight'[l] |-> inFlight'[l][s]]
        BY <1>5 DEF Insert
      <4>3. QED
        BY <4>1, <4>2, <3>1
    <3>2. CASE k # l
      BY <3>2, <1>1, <1>5 DEF BuffersOK
    <3>3. QED
      BY <3>1, <3>2
  <2>2. ASSUME NEW k \in Lanes
        PROVE  DOMAIN inFlight'[k] \subseteq sendBase'[k] .. nextSendSeq'[k] - 1
    <3>1. CASE k = l
      <4>1. nextSendSeq'[l] = IF seq = nextSendSeq[l] THEN nextSendSeq[l] + 1 ELSE nextSendSeq[l]
        BY <1>1 DEF SendTypeOK, Uses
      <4>2. seq \in sendBase[l] .. nextSendSeq'[l] - 1
        BY <4>1, <1>3
      <4>3. DOMAIN inFlight[l] \subseteq sendBase[l] .. nextSendSeq'[l] - 1
        BY <4>1, <1>1, <1>3 DEF BuffersOK
      <4>4. QED
        BY <4>2, <4>3, <1>5, <3>1
    <3>2. CASE k # l
      <4>1. nextSendSeq'[k] = nextSendSeq[k]
        BY <3>2, <1>1 DEF SendTypeOK, Uses
      <4>2. QED
        BY <4>1, <3>2, <1>1, <1>5 DEF BuffersOK
    <3>3. QED
      BY <3>1, <3>2
  <2>3. ASSUME NEW k \in Lanes, NEW s \in DOMAIN inFlight'[k]
        PROVE  /\ inFlight'[k][s].transmission <= mTransmissions'
               /\ recordOf(k, s, inFlight') \in (IF inFlight'[k][s].lost THEN lost'[k] ELSE mSent')
    <3>1. CASE k = l /\ s = seq
      <4>1. inFlight'[k][s] = entry
        BY <3>1, <1>5
      <4>2. entry.transmission = t /\ entry.lost = FALSE
        BY DEF entry
      <4>3. recordOf(k, s, inFlight') = record
        BY <4>1, <4>2, <3>1 DEF recordOf, record
      <4>4. QED
        BY <4>1, <4>2, <4>3, <1>2, <1>3
    <3>2. CASE k # l \/ s # seq
      <4>1. s \in DOMAIN inFlight[k] /\ inFlight'[k][s] = inFlight[k][s]
        BY <3>2, <1>5
      <4>2. /\ inFlight[k][s].transmission <= mTransmissions
            /\ recordOf(k, s, inFlight) \in (IF inFlight[k][s].lost THEN lost[k] ELSE mSent)
            /\ inFlight[k][s] \in Entries
        BY <4>1, <1>1 DEF BuffersOK
      <4>3. inFlight[k][s].transmission \in Nat
        BY <4>2 DEF Entries
      <4>4. recordOf(k, s, inFlight') = recordOf(k, s, inFlight)
        BY <4>1 DEF recordOf
      <4>5. QED
        BY <4>1, <4>2, <4>3, <4>4, <3>2, <1>2, <1>3 DEF t, OthersStayQueued
    <3>3. QED
      BY <3>1, <3>2
  <2>4. QED
    BY <2>1, <2>2, <2>3, <1>5 DEF BuffersOK, recordOf
<1>7. RecordsOK'
  <2>1. mSent \in SUBSET SentRecords /\ \A k \in Lanes : lost[k] \in SUBSET SentRecords
    BY <1>1 DEF SendTypeOK
  <2>2. \A r \in SentRecords : r.transmission \in Nat
    BY DEF SentRecords
  <2>3. record.transmission = mTransmissions + 1
    BY DEF record, t
  <2>4. ASSUME NEW r \in mSent'
        PROVE  r.transmission <= mTransmissions'
    BY <2>1, <2>2, <2>3, <1>1, <1>2, <1>3 DEF RecordsOK, t
  <2>5. ASSUME NEW r \in mSent', NEW q \in mSent', r.transmission = q.transmission
        PROVE  r = q
    BY <2>1, <2>2, <2>3, <2>5, <1>1, <1>2, <1>3 DEF RecordsOK
  <2>6. ASSUME NEW k \in Lanes
        PROVE  /\ \A r \in lost'[k] : r.lane = k /\ r.transmission <= mTransmissions'
               /\ \A r \in lost'[k], q \in mSent' : r.transmission < q.transmission
               /\ \A r, q \in lost'[k] : r.transmission = q.transmission => r = q
    BY <2>1, <2>2, <2>3, <1>1, <1>2, <1>3 DEF RecordsOK, t
  <2>7. QED
    BY <2>4, <2>5, <2>6 DEF RecordsOK
<1>8. CountsOK(inFlight, onTheWire)' /\ onTheWire' \in [Lanes -> Nat]
  <2>1. Unlost(inFlight'[l]) = Unlost(inFlight[l]) \cup {seq} /\ seq \notin Unlost(inFlight[l])
    <3>1. ~entry.lost
      BY DEF entry
    <3>2. QED
      BY <3>1, <1>5 DEF Unlost
  <2>2. Cardinality(Unlost(inFlight'[l])) = Cardinality(Unlost(inFlight[l])) + 1
    BY <2>1, <1>1, UnlostFinite, FS_AddElement
  <2>3. onTheWire \in [Lanes -> Nat]
    BY <1>1 DEF SendTypeOK
  <2>4. QED
    BY <2>2, <2>3, <1>1, <1>2, <1>5 DEF CountsOK
<1>9. OldestIsOnTheWire'
  <2> SUFFICES ASSUME NEW r \in mSent', \A q \in mSent' : r.transmission <= q.transmission
               PROVE  entryOf(r, inFlight')
    BY DEF OldestIsOnTheWire, entryOf
  <2>1. CASE r = record
    BY <2>1, <1>5 DEF entryOf, record, entry
  <2>2. CASE r \in mSent
    <3>1. entryOf(r, inFlight)
      BY <2>2, <1>1, <1>2 DEF OldestIsOnTheWire
    <3>2. r.lane \in Lanes
      BY <2>2, <1>1 DEF SendTypeOK, SentRecords
    <3>3. r.lane = l => r.seq # seq
      BY <3>1 DEF entryOf
    <3>4. QED
      BY <3>1, <3>2, <3>3, <1>5 DEF entryOf
  <2>3. QED
    BY <2>1, <2>2, <1>2
<1>10. ProgressClockExact' /\ mStalledSince' \in BOOLEAN
  BY <1>2 DEF ProgressClockExact, waitingForAck
<1>11. mSent' \in SUBSET SentRecords /\ mTransmissions' = mTransmissions + 1
  BY <1>1, <1>2, <1>3 DEF t, SendTypeOK
<1>12. NoneReleased /\ seq \in DOMAIN inFlight'[l]
  BY <1>5 DEF NoneReleased
<1>13. QED
  BY <1>3, <1>6, <1>7, <1>8, <1>9, <1>10, <1>11, <1>12

\* A record queued for retransmission is younger than what is queued already
QueuedBehind ==
    \A l \in Lanes : \A r \in lost'[l] \ lost[l] : \A q \in lost[l] :
        q.transmission < r.transmission

-----------------------------------------------------------------------------
(* The steps *)

\* Sending a lost packet again keeps the invariant.
LEMMA RetransmitStep ==
    ASSUME SendInv, NEW l \in Lanes, NEW r \in lost[l], Retransmit(l, r)
    PROVE  SendInv' /\ QueuedBehind /\ NoneReleased
<1>1. SendTypeOK /\ WindowsOK /\ RecordsOK /\ BuffersOK(inFlight)
  BY DEF SendInv
<1>2. /\ nextLost(l, r)
      /\ lost' = [lost EXCEPT ![l] = {q \in lost[l] : q.transmission > r.transmission}]
      /\ transmit(l, r.seq, inFlight[l][r.seq].frag)
      /\ UNCHANGED <<cursor, nextSendSeq, sendBase, peerPaused, ackSerial, mLargestAcked,
                     mRecoveryStart, mCongestionWindow, mFailed>>
  BY DEF Retransmit
<1>3. r.lane = l /\ r.seq \in DOMAIN inFlight[l] /\ inFlight[l][r.seq].lost
  BY <1>1, <1>2 DEF nextLost, awaitsRetransmission, RecordsOK
<1>4. lost \in [Lanes -> SUBSET SentRecords] /\ nextSendSeq \in [Lanes -> Nat]
      /\ sendBase \in [Lanes -> Nat] /\ \A q \in SentRecords : q.transmission \in Nat
  BY <1>1 DEF SendTypeOK, SentRecords
<1>5. inFlight[l][r.seq].frag \in Fragments
  <2>1. inFlight[l][r.seq] \in Entries
    BY <1>1, <1>3 DEF BuffersOK
  <2>2. QED
    BY <2>1 DEF Entries
<1>6. /\ r.seq \in sendBase[l] .. nextSendSeq[l] - 1
      /\ r.seq \in sendBase[l] .. nextSendSeq[l]
      /\ r.seq < sendBase[l] + Window[l] /\ r.seq # nextSendSeq[l]
  <2>1. Window[l] \in Nat /\ nextSendSeq[l] <= sendBase[l] + Window[l]
    BY <1>1, LinkAssumption DEF WindowsOK
  <2>2. r.seq \in sendBase[l] .. nextSendSeq[l] - 1
    BY <1>1, <1>3 DEF BuffersOK
  <2>3. sendBase[l] \in Nat /\ nextSendSeq[l] \in Nat
    BY <1>4
  <2>4. QED
    BY <2>1, <2>2, <2>3
<1>7. nextSendSeq' = [nextSendSeq EXCEPT ![l] = IF r.seq = @ THEN @ + 1 ELSE @]
  BY <1>2, <1>4, <1>6
<1>8. lost' \in [Lanes -> SUBSET SentRecords] /\ \A k \in Lanes : lost'[k] \subseteq lost[k]
  BY <1>2, <1>4
<1>9. ASSUME NEW k \in Lanes, NEW s \in DOMAIN inFlight[k],
             inFlight[k][s].lost, k # l \/ s # r.seq
      PROVE  recordOf(k, s, inFlight) \in lost'[k]
  <2> DEFINE q == recordOf(k, s, inFlight)
  <2>1. q \in lost[k] /\ q.lane = k /\ q.seq = s
    BY <1>1, <1>9 DEF BuffersOK, recordOf
  <2>2. CASE k # l
    BY <2>1, <2>2, <1>2, <1>4
  <2>3. CASE k = l
    <3>1. awaitsRetransmission(q)
      BY <2>1, <1>9 DEF awaitsRetransmission
    <3>2. r.transmission <= q.transmission /\ q # r
      BY <3>1, <2>1, <2>3, <1>2, <1>9 DEF nextLost
    <3>3. r.transmission # q.transmission
      BY <3>2, <2>1, <2>3, <1>1 DEF RecordsOK
    <3>4. r.transmission \in Nat /\ q.transmission \in Nat
      BY <2>1, <2>3, <1>4
    <3>5. r.transmission < q.transmission
      BY <3>2, <3>3, <3>4
    <3>6. lost'[l] = {p \in lost[l] : p.transmission > r.transmission}
      BY <1>2, <1>4
    <3>7. QED
      BY <3>4, <3>5, <3>6, <2>1, <2>3
  <2>4. QED
    BY <2>2, <2>3
<1>10. /\ BuffersOK(inFlight)' /\ RecordsOK' /\ CountsOK(inFlight, onTheWire)'
       /\ OldestIsOnTheWire' /\ ProgressClockExact'
       /\ onTheWire' \in [Lanes -> Nat] /\ mSent' \in SUBSET SentRecords
       /\ mTransmissions' = mTransmissions + 1 /\ mTransmissions \in Nat
       /\ mStalledSince' \in BOOLEAN /\ NoneReleased
  <2> DEFINE seq == r.seq
             frag == inFlight[l][seq].frag
  <2>1. /\ seq \in sendBase[l] .. nextSendSeq[l] /\ seq < sendBase[l] + Window[l]
        /\ frag \in Fragments /\ seq \in DOMAIN inFlight[l] /\ inFlight[l][seq].lost
        /\ transmit(l, seq, frag) /\ UNCHANGED <<sendBase, peerPaused>>
    BY <1>2, <1>3, <1>5, <1>6
  <2>2. Uses(l, seq)
    BY <1>7 DEF Uses
  <2>3. OthersStayQueued(l, seq)
    BY <1>9 DEF OthersStayQueued
  <2> HIDE DEF seq, frag
  <2>4. QED
    BY <2>1, <2>2, <2>3, <1>8, Transmit
<1>11. SendTypeOK'
  <2>1. DOMAIN inFlight' = Lanes /\ \A k \in Lanes :
          /\ inFlight'[k] \in [DOMAIN inFlight'[k] -> Entries]
          /\ DOMAIN inFlight'[k] \subseteq sendBase[k] .. nextSendSeq[k] - 1
    BY <1>2, <1>10 DEF BuffersOK
  <2>2. ASSUME NEW k \in Lanes
        PROVE  DOMAIN inFlight'[k] \subseteq Nat
    <3>1. sendBase[k] \in Nat /\ nextSendSeq[k] \in Nat
      BY <1>4
    <3>2. sendBase[k] .. nextSendSeq[k] - 1 \subseteq Nat
      BY <3>1
    <3>3. QED
      BY <2>1, <3>2
  <2>3. /\ cursor' = cursor /\ nextSendSeq' = nextSendSeq /\ sendBase' = sendBase
        /\ peerPaused' = peerPaused /\ ackSerial' = ackSerial
        /\ mLargestAcked' = mLargestAcked /\ mRecoveryStart' = mRecoveryStart
        /\ mCongestionWindow' = mCongestionWindow /\ mFailed' = mFailed
    BY <1>2
  <2>4. mTransmissions' \in Nat
    BY <1>10
  <2>5. QED
    BY <2>1, <2>2, <2>3, <2>4, <1>1, <1>8, <1>10 DEF SendTypeOK
<1>12. WindowsOK'
  <2>1. mRecoveryStart <= mTransmissions'
    <3>1. mRecoveryStart \in Nat /\ mRecoveryStart <= mTransmissions
      BY <1>1, CounterTypes DEF WindowsOK
    <3>2. mTransmissions \in Nat /\ mTransmissions' = mTransmissions + 1
      BY <1>10
    <3>3. QED
      BY <3>1, <3>2
  <2>2. nextSendSeq' = nextSendSeq /\ sendBase' = sendBase /\ mRecoveryStart' = mRecoveryStart
        /\ mCongestionWindow' = mCongestionWindow
    BY <1>2
  <2>3. QED
    BY <2>1, <2>2, <1>1 DEF WindowsOK
<1>13. QueuedBehind
  BY <1>8 DEF QueuedBehind
<1>14. QED
  BY <1>10, <1>11, <1>12, <1>13 DEF SendInv

\* Sending the next fragment of a message keeps the invariant.
LEMMA SendNextStep ==
    ASSUME SendInv, NEW l \in Lanes, NEW count \in Nat, SendNext(l, count)
    PROVE  SendInv' /\ QueuedBehind /\ NoneReleased /\ nextSendSeq[l] \in DOMAIN inFlight'[l]
<1> DEFINE c == takeMessage(l, count)
           frag == [msg |-> c.msg, index |-> c.next, count |-> c.count]
<1>1. SendTypeOK /\ WindowsOK /\ RecordsOK /\ BuffersOK(inFlight)
  BY DEF SendInv
<1>2. /\ nothingLost(l) /\ windowOpen(l)
      /\ cursor' = [cursor EXCEPT ![l] = [c EXCEPT !.next = c.next + 1]]
      /\ transmit(l, nextSendSeq[l], frag)
      /\ lost' = [lost EXCEPT ![l] = {}]
      /\ nextSendSeq' = [nextSendSeq EXCEPT ![l] = nextSendSeq[l] + 1]
      /\ UNCHANGED <<sendBase, peerPaused, ackSerial, mLargestAcked, mRecoveryStart,
                     mCongestionWindow, mFailed>>
  BY DEF SendNext
<1>3. c \in [msg : Nat, count : Nat, next : Nat]
  BY <1>1 DEF SendTypeOK, takeMessage
<1>4. frag \in Fragments /\ [c EXCEPT !.next = c.next + 1] \in [msg : Nat, count : Nat, next : Nat]
  BY <1>3 DEF Fragments
<1> HIDE DEF c, frag
<1>5. lost \in [Lanes -> SUBSET SentRecords] /\ nextSendSeq \in [Lanes -> Nat]
      /\ sendBase \in [Lanes -> Nat] /\ cursor \in [Lanes -> [msg : Nat, count : Nat, next : Nat]]
  BY <1>1 DEF SendTypeOK
<1>6. Window[l] \in Nat /\ sendBase[l] \in Nat /\ nextSendSeq[l] \in Nat
      /\ sendBase[l] <= nextSendSeq[l]
  BY <1>1, <1>5, LinkAssumption DEF WindowsOK
<1>7. /\ nextSendSeq[l] \in sendBase[l] .. nextSendSeq[l]
      /\ nextSendSeq[l] < sendBase[l] + Window[l]
  BY <1>2, <1>6 DEF windowOpen
<1>8. nextSendSeq[l] \notin DOMAIN inFlight[l]
  BY <1>1, <1>6 DEF BuffersOK
<1>9. nextSendSeq' = [nextSendSeq EXCEPT ![l] = IF nextSendSeq[l] = @ THEN @ + 1 ELSE @]
  BY <1>2, <1>5
<1>10. lost' \in [Lanes -> SUBSET SentRecords] /\ \A k \in Lanes : lost'[k] \subseteq lost[k]
  BY <1>2, <1>5
<1>11. ASSUME NEW k \in Lanes, NEW s \in DOMAIN inFlight[k], inFlight[k][s].lost
       PROVE  recordOf(k, s, inFlight) \in lost'[k]
  <2>1. recordOf(k, s, inFlight) \in lost[k]
    BY <1>1, <1>11 DEF BuffersOK
  <2>2. k # l
    BY <2>1, <1>2, <1>11 DEF nothingLost, awaitsRetransmission, recordOf
  <2>3. QED
    BY <2>1, <2>2, <1>2, <1>5
<1>12. /\ BuffersOK(inFlight)' /\ RecordsOK' /\ CountsOK(inFlight, onTheWire)'
       /\ OldestIsOnTheWire' /\ ProgressClockExact'
       /\ onTheWire' \in [Lanes -> Nat] /\ mSent' \in SUBSET SentRecords
       /\ mTransmissions' = mTransmissions + 1 /\ mTransmissions \in Nat
       /\ mStalledSince' \in BOOLEAN
       /\ NoneReleased /\ nextSendSeq[l] \in DOMAIN inFlight'[l]
  BY <1>2, <1>4, <1>7, <1>8, <1>9, <1>10, <1>11, Transmit DEF Uses, OthersStayQueued
<1>13. SendTypeOK'
  <2>1. DOMAIN inFlight' = Lanes /\ \A k \in Lanes :
          /\ inFlight'[k] \in [DOMAIN inFlight'[k] -> Entries]
          /\ DOMAIN inFlight'[k] \subseteq sendBase'[k] .. nextSendSeq'[k] - 1
    BY <1>12 DEF BuffersOK
  <2>2. nextSendSeq' \in [Lanes -> Nat] /\ sendBase' \in [Lanes -> Nat]
    BY <1>2, <1>5, <1>6
  <2>3. \A k \in Lanes : DOMAIN inFlight'[k] \subseteq Nat
    BY <2>1, <2>2
  <2>4. cursor' \in [Lanes -> [msg : Nat, count : Nat, next : Nat]]
    BY <1>2, <1>4, <1>5
  <2>5. QED
    BY <2>1, <2>2, <2>3, <2>4, <1>1, <1>2, <1>10, <1>12 DEF SendTypeOK
<1>14. WindowsOK'
  <2>1. \A k \in Lanes : nextSendSeq'[k] = IF k = l THEN nextSendSeq[l] + 1 ELSE nextSendSeq[k]
    BY <1>2, <1>5
  <2>2. QED
    BY <2>1, <1>1, <1>2, <1>5, <1>6, <1>7, <1>12 DEF WindowsOK, SendTypeOK
<1>15. QueuedBehind
  BY <1>10 DEF QueuedBehind
<1>16. QED
  BY <1>12, <1>13, <1>14, <1>15 DEF SendInv

\* Dropping acknowledged records from the front of lost keeps the invariant.
LEMMA PeekOnlyStep ==
    ASSUME SendInv, NEW l \in Lanes, PeekOnly(l)
    PROVE  SendInv' /\ QueuedBehind
<1> DEFINE stale == {r \in lost[l] : \A q \in lost[l] :
                        awaitsRetransmission(q) => r.transmission < q.transmission}
<1>1. SendTypeOK /\ WindowsOK /\ RecordsOK /\ BuffersOK(inFlight)
      /\ CountsOK(inFlight, onTheWire) /\ OldestIsOnTheWire /\ ProgressClockExact
  BY DEF SendInv
<1>2. /\ lost' = [lost EXCEPT ![l] = lost[l] \ stale]
      /\ UNCHANGED <<cursor, inFlight, nextSendSeq, sendBase, onTheWire, peerPaused, ackSerial,
                     mSent, mTransmissions, mLargestAcked, mRecoveryStart, mCongestionWindow,
                     mStalledSince, mFailed>>
  BY DEF PeekOnly
<1>3. \A r \in stale : r \in SentRecords /\ r.transmission \in Nat /\ ~awaitsRetransmission(r)
  BY <1>1 DEF SendTypeOK, SentRecords
<1> HIDE DEF stale
<1>4. lost' \in [Lanes -> SUBSET SentRecords] /\ \A k \in Lanes : lost'[k] \subseteq lost[k]
  BY <1>1, <1>2 DEF SendTypeOK
<1>5. ASSUME NEW k \in Lanes, NEW s \in DOMAIN inFlight[k], inFlight[k][s].lost
      PROVE  recordOf(k, s, inFlight) \in lost'[k]
  <2>1. recordOf(k, s, inFlight) \in lost[k]
    BY <1>1, <1>5 DEF BuffersOK
  <2>2. awaitsRetransmission(recordOf(k, s, inFlight))
    BY <1>5 DEF awaitsRetransmission, recordOf
  <2>3. lost'[k] = IF k = l THEN lost[l] \ stale ELSE lost[k]
    BY <1>1, <1>2 DEF SendTypeOK
  <2>4. QED
    BY <2>1, <2>2, <2>3, <1>3
<1>6. BuffersOK(inFlight)'
  BY <1>1, <1>2, <1>5 DEF BuffersOK, recordOf
<1>7. RecordsOK'
  BY <1>1, <1>2, <1>4 DEF RecordsOK
<1>8. SendTypeOK' /\ WindowsOK' /\ CountsOK(inFlight, onTheWire)' /\ OldestIsOnTheWire'
      /\ ProgressClockExact'
  BY <1>1, <1>2, <1>4 DEF SendTypeOK, WindowsOK, CountsOK, OldestIsOnTheWire, ProgressClockExact,
                         entryOf
<1>9. QueuedBehind
  BY <1>4 DEF QueuedBehind
<1>10. QED
  BY <1>6, <1>7, <1>8, <1>9 DEF SendInv

=============================================================================
