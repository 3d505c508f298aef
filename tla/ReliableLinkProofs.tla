------------------------- MODULE ReliableLinkProofs -------------------------
(***************************************************************************)
(* What a lane guarantees for every window, every number of lanes and      *)
(* messages, and a network that loses, duplicates and reorders as much as  *)
(* it likes: none of the bounds of ReliableLink is used.                   *)
(***************************************************************************)
EXTENDS ReliableLink, SendSideAckProofs, ReceiveSideProofs

\* While its link lives, no Ack in the network names a packet the receiver lacks
AcksTruthful ==
    ~receiverFailed => \A a \in acks : \A s \in Nat :
        Names(a, s) => s < nextExpected[a.lane] \/ s \in DOMAIN reorder[a.lane]

LinkInv ==
    /\ SendInv
    /\ ReceiveInv
    /\ wire \subseteq Packets /\ acks \subseteq Acks /\ pings \subseteq Lanes
    /\ AcksTruthful
    /\ AckedIsHeld

-----------------------------------------------------------------------------
(* Steps of one side *)

\* A step that leaves the sender alone keeps its invariant.
LEMMA SendUnchanged ==
    ASSUME SendInv, UNCHANGED sendVars
    PROVE  SendInv' /\ QueuedBehind /\ NoneReleased /\ BeginsRound
<1> USE DEF sendVars
<1>1. SendTypeOK' /\ WindowsOK'
  BY DEF SendInv, SendTypeOK, WindowsOK
<1>2. RecordsOK' /\ BuffersOK(inFlight)' /\ CountsOK(inFlight, onTheWire)'
  BY DEF SendInv, RecordsOK, BuffersOK, CountsOK, recordOf
<1>3. OldestIsOnTheWire' /\ ProgressClockExact'
  BY DEF SendInv, OldestIsOnTheWire, ProgressClockExact, entryOf
<1>4. QueuedBehind /\ NoneReleased
  BY DEF QueuedBehind, NoneReleased
<1>5. BeginsRound
  <2>1. mCongestionWindow \in Nat
    BY DEF SendInv, SendTypeOK
  <2>2. QED
    BY <2>1 DEF BeginsRound
<1>6. QED
  BY <1>1, <1>2, <1>3, <1>4, <1>5 DEF SendInv

\* A step that leaves the receiver alone keeps its invariant.
LEMMA ReceiveUnchanged ==
    ASSUME ReceiveInv, UNCHANGED receiveVars
    PROVE  ReceiveInv' /\ HeldStaysHeld
<1>1. UNCHANGED <<nextExpected, reorder, budgetPaused, refusedLength, mAckSerial>>
      /\ UNCHANGED <<streams, mAckDue, mPaused, receiverFailed>>
  BY DEF receiveVars
<1>2. streams' \in SUBSET Lanes /\ mAckDue' \in SUBSET Lanes /\ mPaused' \in BOOLEAN
  BY <1>1 DEF ReceiveInv, ReceiveTypeOK
<1>3. QED
  BY <1>1, <1>2, LanesUntouched

\* The receiver keeps what it acknowledged, so that the Acks in the network stay true.
LEMMA StaysTruthful ==
    ASSUME AcksTruthful, HeldStaysHeld, acks \subseteq Acks, acks' \subseteq acks
    PROVE  AcksTruthful'
<1>1. \A a \in acks : a.lane \in Lanes
  BY DEF Acks
<1>2. QED
  BY <1>1 DEF AcksTruthful, HeldStaysHeld, Names

\* ... and so does what the sender forgot.
LEMMA StaysHeld ==
    ASSUME SendInv, AckedIsHeld, HeldStaysHeld, NoneReleased,
           UNCHANGED nextSendSeq, mFailed' = mFailed
    PROVE  AckedIsHeld'
<1> SUFFICES ASSUME ~mFailed', ~receiverFailed', NEW l \in Lanes, NEW s \in 1 .. nextSendSeq'[l] - 1
             PROVE  s \in DOMAIN inFlight'[l] \/ s < nextExpected'[l] \/ s \in DOMAIN reorder'[l]
  BY DEF AckedIsHeld
<1>1. s \in 1 .. nextSendSeq[l] - 1 /\ s \in Nat
  BY DEF SendInv, SendTypeOK
<1>2. s \in DOMAIN inFlight[l] \/ s < nextExpected[l] \/ s \in DOMAIN reorder[l]
  BY <1>1 DEF AckedIsHeld, HeldStaysHeld
<1>3. QED
  BY <1>1, <1>2 DEF HeldStaysHeld, NoneReleased

-----------------------------------------------------------------------------
(* The actions *)

\* The sender sends the next fragment of a message.
LEMMA SendPreserves ==
    ASSUME LinkInv, NEW l \in Lanes, Send(l)
    PROVE  LinkInv' /\ QueuedBehind /\ BeginsRound
<1>1. PICK count \in FragCounts : SendNext(l, count)
  BY DEF Send
<1>2. UNCHANGED receiveVars /\ UNCHANGED <<acks, pings>>
      /\ wire' = wire \cup {[lane |-> l, seq |-> nextSendSeq[l],
                             frag |-> inFlight'[l][nextSendSeq[l]].frag]}
  BY DEF Send
<1>3. count \in Nat
  BY CompositionAssumption
<1>4. SendInv' /\ QueuedBehind /\ NoneReleased /\ nextSendSeq[l] \in DOMAIN inFlight'[l]
  BY <1>1, <1>3, SendNextStep DEF LinkInv
<1>5. ReceiveInv' /\ HeldStaysHeld
  BY <1>2, ReceiveUnchanged DEF LinkInv
<1>6. wire' \subseteq Packets
  <2>1. inFlight'[l][nextSendSeq[l]] \in Entries
    BY <1>4 DEF SendInv, SendTypeOK
  <2>2. nextSendSeq[l] \in Nat
    BY DEF LinkInv, SendInv, SendTypeOK
  <2>3. [lane |-> l, seq |-> nextSendSeq[l], frag |-> inFlight'[l][nextSendSeq[l]].frag] \in Packets
    BY <2>1, <2>2 DEF Packets, Entries
  <2>4. QED
    BY <2>3, <1>2 DEF LinkInv
<1>7. AcksTruthful'
  BY <1>2, <1>5, StaysTruthful DEF LinkInv
<1>8. AckedIsHeld'
  <2> SUFFICES ASSUME ~mFailed', ~receiverFailed', NEW k \in Lanes, NEW s \in 1 .. nextSendSeq'[k] - 1
               PROVE  s \in DOMAIN inFlight'[k] \/ s < nextExpected'[k] \/ s \in DOMAIN reorder'[k]
    BY DEF AckedIsHeld
  <2>1. nextSendSeq' = [nextSendSeq EXCEPT ![l] = nextSendSeq[l] + 1] /\ mFailed' = mFailed
    BY <1>1 DEF SendNext
  <2>2. nextSendSeq \in [Lanes -> Nat]
    BY DEF LinkInv, SendInv, SendTypeOK
  <2>3. CASE k = l /\ s = nextSendSeq[l]
    BY <2>3, <1>4
  <2>4. CASE s \in 1 .. nextSendSeq[k] - 1
    BY <2>1, <2>4, <1>4, <1>5 DEF LinkInv, AckedIsHeld, HeldStaysHeld, NoneReleased
  <2>5. QED
    BY <2>1, <2>2, <2>3, <2>4
<1>9. BeginsRound
  <2>1. mCongestionWindow' = mCongestionWindow /\ mCongestionWindow \in Nat
    BY <1>1 DEF SendNext, LinkInv, SendInv, SendTypeOK
  <2>2. QED
    BY <2>1 DEF BeginsRound
<1>10. QED
  BY <1>2, <1>4, <1>5, <1>6, <1>7, <1>8, <1>9 DEF LinkInv

\* The sender sends a lost packet again.
LEMMA SendAgainPreserves ==
    ASSUME LinkInv, NEW l \in Lanes, SendAgain(l)
    PROVE  LinkInv' /\ QueuedBehind /\ BeginsRound
<1>1. PICK r \in lost[l] :
        /\ Retransmit(l, r)
        /\ wire' = wire \cup {[lane |-> l, seq |-> r.seq, frag |-> inFlight[l][r.seq].frag]}
  BY DEF SendAgain
<1>2. UNCHANGED receiveVars /\ UNCHANGED <<acks, pings>>
  BY DEF SendAgain
<1>3. SendInv' /\ QueuedBehind /\ NoneReleased
  BY <1>1, RetransmitStep DEF LinkInv
<1>4. ReceiveInv' /\ HeldStaysHeld
  BY <1>2, ReceiveUnchanged DEF LinkInv
<1>5. wire' \subseteq Packets
  <2>1. r.lane = l /\ r.seq \in Nat /\ r.seq \in DOMAIN inFlight[l]
    BY <1>1 DEF Retransmit, nextLost, awaitsRetransmission, LinkInv, SendInv, RecordsOK,
                SendTypeOK, SentRecords
  <2>2. inFlight[l][r.seq] \in Entries
    BY <2>1 DEF LinkInv, SendInv, SendTypeOK
  <2>3. [lane |-> l, seq |-> r.seq, frag |-> inFlight[l][r.seq].frag] \in Packets
    BY <2>1, <2>2 DEF Packets, Entries
  <2>4. QED
    BY <2>3, <1>1 DEF LinkInv
<1>6. AcksTruthful'
  BY <1>2, <1>4, StaysTruthful DEF LinkInv
<1>7. AckedIsHeld'
  <2>1. UNCHANGED nextSendSeq /\ mFailed' = mFailed
    BY <1>1 DEF Retransmit
  <2>2. QED
    BY <2>1, <1>3, <1>4, StaysHeld DEF LinkInv
<1>8. BeginsRound
  <2>1. mCongestionWindow' = mCongestionWindow /\ mCongestionWindow \in Nat
    BY <1>1 DEF Retransmit, LinkInv, SendInv, SendTypeOK
  <2>2. QED
    BY <2>1 DEF BeginsRound
<1>9. QED
  BY <1>2, <1>3, <1>4, <1>5, <1>6, <1>7, <1>8 DEF LinkInv

\* The sender looks for something to send.
LEMMA PeekPreserves ==
    ASSUME LinkInv, NEW l \in Lanes, Peek(l)
    PROVE  LinkInv' /\ QueuedBehind /\ BeginsRound
<1>1. PeekOnly(l) /\ UNCHANGED receiveVars /\ UNCHANGED <<wire, acks, pings>>
  BY DEF Peek, netVars
<1>2. SendInv' /\ QueuedBehind
  BY <1>1, PeekOnlyStep DEF LinkInv
<1>3. UNCHANGED <<nextSendSeq, inFlight, mFailed, mCongestionWindow>> /\ NoneReleased
  BY <1>1 DEF PeekOnly, NoneReleased
<1>4. ReceiveInv' /\ HeldStaysHeld
  BY <1>1, ReceiveUnchanged DEF LinkInv
<1>5. AcksTruthful' /\ AckedIsHeld'
  BY <1>1, <1>3, <1>4, StaysTruthful, StaysHeld DEF LinkInv
<1>6. BeginsRound
  <2>1. mCongestionWindow' = mCongestionWindow /\ mCongestionWindow \in Nat
    BY <1>3 DEF LinkInv, SendInv, SendTypeOK
  <2>2. QED
    BY <2>1 DEF BeginsRound
<1>7. QED
  BY <1>1, <1>2, <1>4, <1>5, <1>6 DEF LinkInv

\* An Ack arrives: what it releases, the receiver holds.
LEMMA ReceiveAckPreserves ==
    ASSUME LinkInv, NEW l \in Lanes, ReceiveAck(l)
    PROVE  LinkInv' /\ QueuedBehind /\ BeginsRound
<1>1. PICK a \in acks : HandleAck(a) /\ acks' = stillInTransit(acks, a)
  BY DEF ReceiveAck
<1>2. UNCHANGED receiveVars /\ UNCHANGED <<wire, pings>>
  BY DEF ReceiveAck
<1>3. a \in Acks
  BY DEF LinkInv
<1>4. SendInv' /\ QueuedBehind /\ ReleasedBy(a)
  BY <1>1, <1>3, HandleAckStep DEF LinkInv
<1>5. ReceiveInv' /\ HeldStaysHeld
  BY <1>2, ReceiveUnchanged DEF LinkInv
<1>6. acks' \subseteq acks /\ acks' \subseteq Acks
  BY <1>1 DEF stillInTransit, LinkInv
<1>7. AcksTruthful'
  BY <1>5, <1>6, StaysTruthful DEF LinkInv
<1>8. AckedIsHeld'
  <2> SUFFICES ASSUME ~mFailed', ~receiverFailed', NEW k \in Lanes, NEW s \in 1 .. nextSendSeq'[k] - 1
               PROVE  s \in DOMAIN inFlight'[k] \/ s < nextExpected'[k] \/ s \in DOMAIN reorder'[k]
    BY DEF AckedIsHeld
  <2>1. nextSendSeq' = nextSendSeq /\ mFailed' = mFailed
    BY <1>1 DEF HandleAck
  <2>2. s \in Nat /\ s \in 1 .. nextSendSeq[k] - 1
    <3>1. nextSendSeq[k] \in Nat
      BY DEF LinkInv, SendInv, SendTypeOK
    <3>2. QED
      BY <2>1, <3>1
  <2>3. ~receiverFailed /\ ~mFailed
    BY <2>1, <1>5 DEF HeldStaysHeld
  <2>4. s \in DOMAIN inFlight[k] \/ s < nextExpected[k] \/ s \in DOMAIN reorder[k]
    BY <2>3, <2>2 DEF LinkInv, AckedIsHeld
  <2>5. CASE s \in DOMAIN inFlight[k] \ DOMAIN inFlight'[k]
    <3>1. k = a.lane /\ Names(a, s)
      BY <2>5, <1>4 DEF ReleasedBy, Names
    <3>2. s < nextExpected[k] \/ s \in DOMAIN reorder[k]
      BY <3>1, <2>3, <2>2 DEF LinkInv, AcksTruthful
    <3>3. QED
      BY <3>2, <2>2, <1>5 DEF HeldStaysHeld
  <2>6. QED
    BY <2>2, <2>4, <2>5, <1>5 DEF HeldStaysHeld
<1>9. BeginsRound
  BY <1>1, <1>3, HandleAckReduces DEF LinkInv
<1>10. QED
  BY <1>2, <1>4, <1>5, <1>6, <1>7, <1>8, <1>9 DEF LinkInv

\* Packets time out.
LEMMA TimeoutPreserves ==
    ASSUME LinkInv, RetransmissionTimeout
    PROVE  LinkInv' /\ QueuedBehind /\ BeginsRound
<1>1. PICK r \in mSent : Expire(r.transmission) /\ UNCHANGED receiveVars /\ UNCHANGED netVars
  BY DEF RetransmissionTimeout
<1>2. UNCHANGED <<wire, acks, pings>>
  BY <1>1 DEF netVars
<1>3. r.transmission \in Nat
  BY DEF LinkInv, SendInv, SendTypeOK, SentRecords
<1>4. SendInv' /\ QueuedBehind /\ NoneReleased
  BY <1>1, <1>3, ExpireStep DEF LinkInv
<1>5. ReceiveInv' /\ HeldStaysHeld
  BY <1>1, ReceiveUnchanged DEF LinkInv
<1>6. UNCHANGED nextSendSeq /\ mFailed' = mFailed
  BY <1>1 DEF Expire
<1>7. AcksTruthful' /\ AckedIsHeld'
  BY <1>2, <1>4, <1>5, <1>6, StaysTruthful, StaysHeld DEF LinkInv
<1>8. BeginsRound
  BY <1>1, <1>3, ExpireReduces DEF LinkInv
<1>9. QED
  BY <1>2, <1>4, <1>5, <1>7, <1>8 DEF LinkInv

\* The sender gives up.
LEMMA PeerTimeoutPreserves ==
    ASSUME LinkInv, PeerTimeout
    PROVE  LinkInv' /\ QueuedBehind /\ BeginsRound
<1>1. Fail /\ UNCHANGED receiveVars /\ UNCHANGED <<wire, acks, pings>>
  BY DEF PeerTimeout, netVars
<1>2. SendInv' /\ QueuedBehind
  BY <1>1, FailStep
<1>3. ReceiveInv' /\ HeldStaysHeld
  BY <1>1, ReceiveUnchanged DEF LinkInv
<1>4. mFailed' = TRUE
  BY <1>1 DEF Fail
<1>5. AcksTruthful'
  BY <1>1, <1>3, StaysTruthful DEF LinkInv
<1>6. AckedIsHeld' /\ BeginsRound
  BY <1>4 DEF AckedIsHeld, BeginsRound
<1>7. QED
  BY <1>1, <1>2, <1>3, <1>5, <1>6 DEF LinkInv

\* The receiver sends the Acks that are due.
LEMMA AcknowledgePreserves ==
    ASSUME LinkInv, Acknowledge
    PROVE  LinkInv' /\ QueuedBehind /\ BeginsRound
<1>1. SendAcks /\ acks' = acks \cup dueAcks.acks /\ UNCHANGED sendVars /\ UNCHANGED <<wire, pings>>
  BY DEF Acknowledge
<1>2. /\ ReceiveInv' /\ HeldStaysHeld
      /\ dueAcks.acks \subseteq Acks
      /\ \A a \in dueAcks.acks : \A s \in Nat :
            Names(a, s) => s < nextExpected'[a.lane] \/ s \in DOMAIN reorder'[a.lane]
  BY <1>1, SendAcksStep DEF LinkInv
<1>3. SendInv' /\ QueuedBehind /\ NoneReleased /\ BeginsRound
  BY <1>1, SendUnchanged DEF LinkInv
<1>4. UNCHANGED nextSendSeq /\ mFailed' = mFailed
  BY <1>1 DEF sendVars
<1>5. AckedIsHeld'
  BY <1>2, <1>3, <1>4, StaysHeld DEF LinkInv
<1>6. AcksTruthful'
  <2>1. ASSUME NEW a \in acks, NEW s \in Nat, Names(a, s)
        PROVE  s < nextExpected'[a.lane] \/ s \in DOMAIN reorder'[a.lane]
    <3>1. a.lane \in Lanes
      BY DEF LinkInv, Acks
    <3>2. ~receiverFailed /\ ~receiverFailed'
      BY <1>1 DEF SendAcks
    <3>3. s < nextExpected[a.lane] \/ s \in DOMAIN reorder[a.lane]
      BY <3>2, <2>1 DEF LinkInv, AcksTruthful
    <3>4. QED
      BY <3>1, <3>2, <3>3, <1>2 DEF HeldStaysHeld
  <2>2. QED
    BY <2>1, <1>1, <1>2 DEF AcksTruthful, Names
<1>7. acks' \subseteq Acks
  BY <1>1, <1>2 DEF LinkInv
<1>8. QED
  BY <1>1, <1>2, <1>3, <1>5, <1>6, <1>7 DEF LinkInv

\* A step of the receiver or the network that sends no Ack.
LEMMA OthersPreserve ==
    ASSUME LinkInv, UNCHANGED sendVars, ReceiveInv', HeldStaysHeld,
           wire' \subseteq wire, acks' \subseteq acks, pings' \subseteq Lanes
    PROVE  LinkInv' /\ QueuedBehind /\ BeginsRound
<1>1. SendInv' /\ QueuedBehind /\ NoneReleased /\ BeginsRound
  BY SendUnchanged DEF LinkInv
<1>2. UNCHANGED nextSendSeq /\ mFailed' = mFailed
  BY DEF sendVars
<1>3. AckedIsHeld' /\ AcksTruthful'
  BY <1>1, <1>2, StaysHeld, StaysTruthful DEF LinkInv
<1>4. QED
  BY <1>1, <1>3 DEF LinkInv

\* Every step keeps the invariant.
LEMMA LinkStep ==
    ASSUME LinkInv, [Next]_vars
    PROVE  LinkInv' /\ QueuedBehind /\ BeginsRound
<1>1. CASE UNCHANGED vars
  <2>1. UNCHANGED sendVars /\ UNCHANGED receiveVars /\ UNCHANGED <<wire, acks, pings>>
    BY <1>1 DEF vars, netVars
  <2>2. ReceiveInv' /\ HeldStaysHeld
    BY <2>1, ReceiveUnchanged DEF LinkInv
  <2>3. QED
    BY <2>1, <2>2, OthersPreserve DEF LinkInv
<1>2. ASSUME NEW l \in Lanes, Probe(l)
      PROVE  LinkInv' /\ QueuedBehind /\ BeginsRound
  <2>1. UNCHANGED sendVars /\ UNCHANGED receiveVars /\ UNCHANGED <<wire, acks>>
        /\ pings' = pings \cup {l}
    BY <1>2 DEF Probe
  <2>2. ReceiveInv' /\ HeldStaysHeld
    BY <2>1, ReceiveUnchanged DEF LinkInv
  <2>3. QED
    BY <2>1, <2>2, OthersPreserve DEF LinkInv
<1>3. ASSUME NEW l \in Lanes, ReceiveData(l)
      PROVE  LinkInv' /\ QueuedBehind /\ BeginsRound
  <2>1. PICK p \in wire : HandleData(p) /\ wire' = stillInTransit(wire, p)
    BY <1>3 DEF ReceiveData
  <2>2. UNCHANGED sendVars /\ UNCHANGED <<acks, pings>> /\ wire' \subseteq wire
    BY <1>3, <2>1 DEF ReceiveData, stillInTransit
  <2>3. ReceiveInv' /\ HeldStaysHeld
    BY <2>1, HandleDataStep DEF LinkInv
  <2>4. QED
    BY <2>2, <2>3, OthersPreserve DEF LinkInv
<1>4. ASSUME NEW l \in Lanes, ReceivePing(l)
      PROVE  LinkInv' /\ QueuedBehind /\ BeginsRound
  <2>1. UNCHANGED sendVars /\ UNCHANGED <<wire, acks>> /\ pings' = pings \ {l} /\ HandlePing(l)
    BY <1>4 DEF ReceivePing
  <2>2. ReceiveInv' /\ HeldStaysHeld
    BY <2>1, LanesUntouched DEF HandlePing, LinkInv, ReceiveInv, ReceiveTypeOK
  <2>3. QED
    BY <2>1, <2>2, OthersPreserve DEF LinkInv
<1>5. ASSUME Pause \/ Resume \/ BudgetTaken \/ BudgetReturned
      PROVE  LinkInv' /\ QueuedBehind /\ BeginsRound
  <2>1. UNCHANGED sendVars /\ UNCHANGED <<wire, acks, pings>>
    BY <1>5 DEF Pause, Resume, BudgetTaken, BudgetReturned, netVars
  <2>2. CASE Pause \/ Resume
    <3>1. PICK paused \in BOOLEAN : SetPaused(paused)
      BY <2>2 DEF Pause, Resume
    <3>2. ReceiveInv' /\ HeldStaysHeld
      BY <3>1, LanesUntouched DEF SetPaused, LinkInv, ReceiveInv, ReceiveTypeOK
    <3>3. QED
      BY <2>1, <3>2, OthersPreserve DEF LinkInv
  <2>3. CASE BudgetTaken \/ BudgetReturned
    <3>1. UNCHANGED <<nextExpected, reorder, budgetPaused, refusedLength, mAckSerial>>
          /\ UNCHANGED <<streams, mAckDue, mPaused, receiverFailed>>
      BY <2>3 DEF BudgetTaken, BudgetReturned, OthersReserve, OthersRelease
    <3>2. ReceiveInv' /\ HeldStaysHeld
      BY <3>1, LanesUntouched DEF LinkInv, ReceiveInv, ReceiveTypeOK
    <3>3. QED
      BY <2>1, <3>2, OthersPreserve DEF LinkInv
  <2>4. QED
    BY <1>5, <2>2, <2>3
<1>6. ASSUME LoseData \/ LoseAck
      PROVE  LinkInv' /\ QueuedBehind /\ BeginsRound
  <2>1. UNCHANGED sendVars /\ UNCHANGED receiveVars /\ UNCHANGED pings
        /\ wire' \subseteq wire /\ acks' \subseteq acks
    BY <1>6 DEF LoseData, LoseAck
  <2>2. ReceiveInv' /\ HeldStaysHeld
    BY <2>1, ReceiveUnchanged DEF LinkInv
  <2>3. QED
    BY <2>1, <2>2, OthersPreserve DEF LinkInv
<1>7. ASSUME ReceiverTimeout
      PROVE  LinkInv' /\ QueuedBehind /\ BeginsRound
  <2>1. FailReceiver /\ UNCHANGED sendVars /\ UNCHANGED <<wire, acks, pings>>
    BY <1>7 DEF ReceiverTimeout, netVars
  <2>2. ReceiveInv' /\ HeldStaysHeld
    BY <2>1, FailReceiverStep DEF LinkInv
  <2>3. QED
    BY <2>1, <2>2, OthersPreserve DEF LinkInv
<1>8. QED
  BY <1>1, <1>2, <1>3, <1>4, <1>5, <1>6, <1>7, SendPreserves, SendAgainPreserves, PeekPreserves,
     ReceiveAckPreserves, TimeoutPreserves, PeerTimeoutPreserves, AcknowledgePreserves DEF Next

\* The initial state of a link and the network.
LEMMA LinkInitial == Init => LinkInv
<1> SUFFICES ASSUME Init PROVE LinkInv
  OBVIOUS
<1>1. SendInv /\ ReceiveInv
  BY SendInitial, ReceiveInitial DEF Init
<1>2. wire = {} /\ acks = {} /\ pings = {} /\ nextSendSeq = [l \in Lanes |-> 1]
  BY DEF Init, SendInit
<1>3. AcksTruthful /\ AckedIsHeld
  BY <1>2 DEF AcksTruthful, AckedIsHeld
<1>4. QED
  BY <1>1, <1>2, <1>3 DEF LinkInv

-----------------------------------------------------------------------------
(* Theorems *)

\* The invariant holds in every behaviour.
THEOREM Invariant == Spec => []LinkInv
<1>1. Init => LinkInv
  BY LinkInitial
<1>2. LinkInv /\ [Next]_vars => LinkInv'
  BY LinkStep
<1>3. QED
  BY <1>1, <1>2, PTL DEF Spec

\* Every variable of the two halves and of the network keeps its type; in particular the
\* unsigned counters of packets on the wire never underflow.
THEOREM TypeCorrect == Spec => []TypeOK
<1>1. LinkInv => TypeOK
  BY DEF LinkInv, SendInv, ReceiveInv, TypeOK
<1>2. QED
  BY <1>1, Invariant, PTL

\* Every packet that is not acknowledged is in mSent or queued in lost: the loss detection
\* forgets none, and the retransmission timer runs for the oldest one.
THEOREM NeverForgotten == Spec => [](NothingForgotten /\ OldestIsOnTheWire)
<1>1. LinkInv => NothingForgotten /\ OldestIsOnTheWire
  BY SendConsequences DEF LinkInv, SendInv
<1>2. QED
  BY <1>1, Invariant, PTL

\* The counters that open the congestion window are exact.
THEOREM CountersExact == Spec => []OnTheWireExact
<1>1. LinkInv => OnTheWireExact
  BY SendConsequences DEF LinkInv
<1>2. QED
  BY <1>1, Invariant, PTL

\* The clock that fails a link runs exactly while an Ack is missing.
THEOREM ClockExact == Spec => []ProgressClockExact
<1>1. LinkInv => ProgressClockExact
  BY DEF LinkInv, SendInv
<1>2. QED
  BY <1>1, Invariant, PTL

\* What the sender forgets as acknowledged, the receiver has, whatever the network does, until
\* one of the links fails.
THEOREM AcknowledgedIsHeld == Spec => []AckedIsHeld
<1>1. LinkInv => AckedIsHeld
  BY DEF LinkInv
<1>2. QED
  BY <1>1, Invariant, PTL

\* The next packet in order never waits in the reorder buffer for anything but the budget.
THEOREM NeverStuckInReorder == Spec => []WaitsOnlyForBudget
<1>1. LinkInv => WaitsOnlyForBudget
  BY DEF LinkInv, ReceiveInv
<1>2. QED
  BY <1>1, Invariant, PTL

\* Retransmissions are queued in the order of the transmissions they replace.
THEOREM LostInOrder == Spec => LostIsFifo
<1>1. LinkInv /\ [Next]_vars =>
        [\A l \in Lanes : \A r \in lost'[l] \ lost[l] : \A q \in lost[l] :
            q.transmission < r.transmission]_lost
  BY LinkStep DEF QueuedBehind
<1>2. QED
  BY <1>1, Invariant, PTL DEF Spec, LostIsFifo

\* The congestion window is reduced only for a packet sent after the last reduction: the losses
\* of one round reduce it once.
THEOREM ReducedOncePerRound == Spec => OneReductionPerRound
<1>1. LinkInv /\ [Next]_vars => [BeginsRound]_sendVars
  BY LinkStep
<1>2. QED
  BY <1>1, Invariant, PTL DEF Spec, OneReductionPerRound, BeginsRound
=============================================================================
