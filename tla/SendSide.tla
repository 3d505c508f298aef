------------------------------ MODULE SendSide ------------------------------
(***************************************************************************)
(* The sending half of ReliableLink: windows, loss detection, congestion   *)
(* window, pause and failure of the acknowledged lanes of one link.        *)
(*                                                                         *)
(* Time is left out: onTimer may find any prefix of what was sent overdue, *)
(* and any probe due.  The two deques mSent and lost are sets of           *)
(* SentRecords ordered by their transmission number.  mSent is pushed with *)
(* a fresh, larger number each time, and lost receives what is popped from *)
(* the front of mSent, so this is the order of the deques (LostIsFifo).    *)
(***************************************************************************)
EXTENDS LinkParameters, FiniteSets

CONSTANTS
    FastRetransmitThreshold,  \* transmissions a packet may be overtaken by
    InitialCwnd, MinCwnd, MaxCwnd,
    FixedCwnd,                \* LinkTimings::fixedCwnd, 0: the window adapts
    CwndUnit,                 \* the congestion window counts 1/CwndUnit packets
    Supervised                \* supervise() was called: silence alone fails the link

ASSUME SendAssumption ==
    /\ FastRetransmitThreshold \in Nat
    /\ InitialCwnd \in Nat /\ MinCwnd \in Nat \ {0} /\ MaxCwnd \in Nat /\ MinCwnd <= MaxCwnd
    /\ FixedCwnd \in Nat /\ CwndUnit \in Nat \ {0}
    /\ Supervised \in BOOLEAN

VARIABLES
    cursor,       \* message being cut: [msg, count, next], next = count: none
    inFlight,     \* SequenceBuffer of [frag, lost, transmission]
    lost,         \* records waiting for their retransmission
    nextSendSeq, sendBase, onTheWire,
    peerPaused, ackSerial,
    mSent, mTransmissions, mLargestAcked, mRecoveryStart,
    mCongestionWindow,
    mStalledSince,  \* BOOLEAN: the progress clock is running
    mFailed

sendVars == <<cursor, inFlight, lost, nextSendSeq, sendBase, onTheWire, peerPaused,
              ackSerial, mSent, mTransmissions, mLargestAcked, mRecoveryStart,
              mCongestionWindow, mStalledSince, mFailed>>

-----------------------------------------------------------------------------
(* Data *)

Entries == [frag : Fragments, lost : BOOLEAN, transmission : Nat]
SentRecords == [transmission : Nat, seq : Nat, lane : Lanes]

NoSerial == -1  \* no Ack seen yet

NoCursor == [msg |-> 0, count |-> 0, next |-> 0]

sharesCongestionWindow(l) == l # "Control"

initialWindow ==
    CwndUnit * (IF FixedCwnd > 0 THEN FixedCwnd
                ELSE IF InitialCwnd < MinCwnd THEN MinCwnd
                ELSE IF InitialCwnd > MaxCwnd THEN MaxCwnd ELSE InitialCwnd)

\* entryOf(): the record still stands for the latest transmission of a packet on the wire
entryOf(r, buffers) ==
    LET buf == buffers[r.lane]
    IN  r.seq \in DOMAIN buf /\ ~buf[r.seq].lost /\ buf[r.seq].transmission = r.transmission

\* The loss loops pop the front until they meet a record of `kept`
PoppedBefore(kept) ==
    {r \in mSent : \A q \in kept : r.transmission < q.transmission}

-----------------------------------------------------------------------------
(* Sending *)

\* A record nextLost() returns when it reaches the front; it drops the others
awaitsRetransmission(r) ==
    LET buf == inFlight[r.lane] IN r.seq \in DOMAIN buf /\ buf[r.seq].lost

\* nextLost() finds r: everything before it was acknowledged while it waited
nextLost(l, r) ==
    /\ r \in lost[l]
    /\ awaitsRetransmission(r)
    /\ \A q \in lost[l] : awaitsRetransmission(q) => r.transmission <= q.transmission

nothingLost(l) == \A r \in lost[l] : ~awaitsRetransmission(r)

wireOf(l) == IF l \in Lanes THEN onTheWire[l] ELSE 0

congestionWindowOpen(l) ==
    sharesCongestionWindow(l) =>
        wireOf("Reliable") + wireOf("Bulk") < mCongestionWindow \div CwndUnit

\* Mutant: the progress clock runs for paused lanes too
waitingEvenWhilePaused(buffers, paused) == \E l \in Lanes : DOMAIN buffers[l] # {}

\* updateProgressClock(): data on a lane the remote paused is not waited for
waitingForAck(buffers, paused) ==
    \E l \in Lanes : ~paused[l] /\ DOMAIN buffers[l] # {}

\* Mutant: a packet sent again is still marked lost
transmitLeavesLost(l, seq, frag) ==
    LET t == mTransmissions + 1
        entry == [frag |-> frag, lost |-> seq \in DOMAIN inFlight[l], transmission |-> t]
    IN  /\ inFlight' = [inFlight EXCEPT ![l] = Insert(@, Window[l], seq, entry)]
        /\ mTransmissions' = t
        /\ onTheWire' = [onTheWire EXCEPT ![l] = @ + 1]
        /\ mSent' = mSent \cup {[transmission |-> t, seq |-> seq, lane |-> l]}
        /\ mStalledSince' = waitingForAck(inFlight', peerPaused)

\* Mutant: a packet sent again keeps the number of its first transmission
transmitUnderOldNumber(l, seq, frag) ==
    LET again == seq \in DOMAIN inFlight[l]
        t == IF again THEN inFlight[l][seq].transmission ELSE mTransmissions + 1
        entry == [frag |-> frag, lost |-> FALSE, transmission |-> t]
    IN  /\ inFlight' = [inFlight EXCEPT ![l] = Insert(@, Window[l], seq, entry)]
        /\ mTransmissions' = mTransmissions + 1
        /\ onTheWire' = [onTheWire EXCEPT ![l] = @ + 1]
        /\ mSent' = mSent \cup {[transmission |-> t, seq |-> seq, lane |-> l]}
        /\ mStalledSince' = waitingForAck(inFlight', peerPaused)

\* transmit(): the packet goes out for the first time or again
transmit(l, seq, frag) ==
    LET t == mTransmissions + 1
        entry == [frag |-> frag, lost |-> FALSE, transmission |-> t]
    IN  /\ inFlight' = [inFlight EXCEPT ![l] = Insert(@, Window[l], seq, entry)]
        /\ mTransmissions' = t
        /\ onTheWire' = [onTheWire EXCEPT ![l] = @ + 1]
        /\ mSent' = mSent \cup {[transmission |-> t, seq |-> seq, lane |-> l]}
        /\ mStalledSince' = waitingForAck(inFlight', peerPaused)

\* peek() and commit(), which follow each other directly: a lost packet goes first
Retransmit(l, r) ==
    /\ ~mFailed
    /\ nextLost(l, r)
    /\ ~peerPaused[l]
    /\ congestionWindowOpen(l)
    /\ lost' = [lost EXCEPT ![l] = {q \in @ : q.transmission > r.transmission}]
    /\ transmit(l, r.seq, inFlight[l][r.seq].frag)
    /\ UNCHANGED <<cursor, nextSendSeq, sendBase, peerPaused, ackSerial, mLargestAcked,
                   mRecoveryStart, mCongestionWindow, mFailed>>

\* Mutant: one packet more than there are slots
windowOpenForOneMore(l) == nextSendSeq[l] - sendBase[l] <= Window[l]

\* All unacknowledged seqs stay within one window
windowOpen(l) == nextSendSeq[l] - sendBase[l] < Window[l]

\* The message the next fragment is cut from: the one in progress, or the next one of the
\* source (its size chosen by the application)
takeMessage(l, count) ==
    IF cursor[l].next < cursor[l].count THEN cursor[l]
    ELSE [msg |-> cursor[l].msg + 1, count |-> count, next |-> 0]

SendNext(l, count) ==
    /\ ~mFailed
    /\ nothingLost(l)
    /\ windowOpen(l)
    /\ ~peerPaused[l]
    /\ congestionWindowOpen(l)
    /\ LET c == takeMessage(l, count)
       IN  /\ cursor' = [cursor EXCEPT ![l] = [c EXCEPT !.next = @ + 1]]
           /\ transmit(l, nextSendSeq[l], [msg |-> c.msg, index |-> c.next, count |-> c.count])
    /\ lost' = [lost EXCEPT ![l] = {}]
    /\ nextSendSeq' = [nextSendSeq EXCEPT ![l] = @ + 1]
    /\ UNCHANGED <<sendBase, peerPaused, ackSerial, mLargestAcked, mRecoveryStart,
                   mCongestionWindow, mFailed>>

\* peek() without a commit(), for lack of a message, of room in a window or of room in the
\* socket: it still drops what was acknowledged from the front of lost
PeekOnly(l) ==
    /\ ~mFailed
    /\ LET stale == {r \in lost[l] : \A q \in lost[l] :
                        awaitsRetransmission(q) => r.transmission < q.transmission}
       IN  /\ stale # {}
           /\ lost' = [lost EXCEPT ![l] = @ \ stale]
    /\ UNCHANGED <<cursor, inFlight, nextSendSeq, sendBase, onTheWire, peerPaused, ackSerial,
                   mSent, mTransmissions, mLargestAcked, mRecoveryStart, mCongestionWindow,
                   mStalledSince, mFailed>>

-----------------------------------------------------------------------------
(* Loss and congestion *)

\* markLost() for every popped record that still counts. The first loss of a round sets
\* mRecoveryStart to mTransmissions, so the window shrinks once however many are lost.
newlyLost(buffers, popped) == {r \in popped : entryOf(r, buffers)}

\* Mutant: every loss reduces the window
shrinksEachTime(gone) == FixedCwnd = 0 /\ \E r \in gone : sharesCongestionWindow(r.lane)

shrinks(gone) ==
    /\ FixedCwnd = 0
    /\ \E r \in gone : sharesCongestionWindow(r.lane) /\ r.transmission > mRecoveryStart

halvedWindow ==
    IF mCongestionWindow \div 2 < MinCwnd * CwndUnit THEN MinCwnd * CwndUnit
    ELSE mCongestionWindow \div 2

grownWindow(counted) ==
    LET w == mCongestionWindow + (counted * CwndUnit * CwndUnit) \div mCongestionWindow
    IN  IF w > MaxCwnd * CwndUnit THEN MaxCwnd * CwndUnit ELSE w

markLost(buffers, wire, popped) ==
    LET gone == newlyLost(buffers, popped)
    IN  /\ inFlight' = [l \in Lanes |-> [s \in DOMAIN buffers[l] |->
                          [buffers[l][s] EXCEPT
                             !.lost = @ \/ \E r \in gone : r.lane = l /\ r.seq = s]]]
        /\ lost' = [l \in Lanes |-> lost[l] \cup {r \in gone : r.lane = l}]
        /\ onTheWire' = [l \in Lanes |-> wire[l] - Cardinality({r \in gone : r.lane = l})]
        /\ mSent' = mSent \ popped
        /\ mRecoveryStart' = IF shrinks(gone) THEN mTransmissions ELSE mRecoveryStart

-----------------------------------------------------------------------------
(* Acknowledgements *)

\* The packets an Ack names: up to the seq of its header, and those of its ranges
released(l, ack) ==
    {s \in DOMAIN inFlight[l] :
        /\ sendBase[l] <= s /\ s < nextSendSeq[l]
        /\ s <= ack.seq \/ s \in ack.ranges}

\* Mutant: packets that were declared lost are taken off the wire twice
offTheWireTwice(l, gone) == gone

\* Mutant: what is acknowledged stays counted
neverOffTheWire(l, gone) == {}

\* ... of which these still counted as on the wire
offTheWire(l, gone) == {s \in gone : ~inFlight[l][s].lost}

largerAcked(l, gone) ==
    LET acked == {inFlight[l][s].transmission : s \in gone} \cup {mLargestAcked}
    IN  CHOOSE t \in acked : \A u \in acked : u <= t

\* Mutant: the loop also stops at a record that is of no use anymore
keptWithoutEntry(buffers, largest) ==
    {r \in mSent : r.transmission + FastRetransmitThreshold > largest}

\* detectLosses(): a packet that still counts and was not overtaken far enough ends the loop
keptBy(buffers, largest) ==
    {r \in mSent : entryOf(r, buffers) /\ r.transmission + FastRetransmitThreshold > largest}

\* handleAck(). Acks of a lane nothing was sent on are dropped by onPacket.
HandleAck(ack) ==
    LET l       == ack.lane
        newer   == ackSerial[l] = NoSerial \/ SerialAfter(ack.serial, ackSerial[l])
        gone    == released(l, ack)
        counted == Cardinality({s \in gone : inFlight[l][s].transmission > mRecoveryStart})
        buffers == [inFlight EXCEPT ![l] = Without(@, gone)]
        wire    == [onTheWire EXCEPT ![l] = @ - Cardinality(offTheWire(l, gone))]
        popped  == PoppedBefore(keptBy(buffers, mLargestAcked'))
        losses  == newlyLost(buffers, popped)
    IN  /\ ~mFailed
        /\ nextSendSeq[l] > 1
        /\ ackSerial' = [ackSerial EXCEPT ![l] = IF newer THEN ack.serial ELSE @]
        /\ peerPaused' = [peerPaused EXCEPT ![l] = IF newer THEN ack.paused ELSE @]
        /\ mLargestAcked' = largerAcked(l, gone)
        /\ \E base \in sendBase[l] .. nextSendSeq[l] :
            /\ \A s \in sendBase[l] .. base - 1 : s \notin DOMAIN buffers[l]
            /\ base = nextSendSeq[l] \/ base \in DOMAIN buffers[l]
            /\ sendBase' = [sendBase EXCEPT ![l] = base]
        /\ markLost(buffers, wire, popped)
        /\ mCongestionWindow' =
            IF losses # {} THEN IF shrinks(losses) THEN halvedWindow ELSE mCongestionWindow
            ELSE IF sharesCongestionWindow(l) /\ counted > 0 /\ FixedCwnd = 0
                 THEN grownWindow(counted) ELSE mCongestionWindow
        /\ mStalledSince' = waitingForAck(buffers, peerPaused')
        /\ UNCHANGED <<cursor, nextSendSeq, mTransmissions, mFailed>>

-----------------------------------------------------------------------------
(* Timers *)

\* nextDeadline(): the retransmission timer runs for the oldest record alone, and only
\* while that record's seq is in flight
retransmissionDeadline ==
    \E r \in mSent : /\ \A q \in mSent : r.transmission <= q.transmission
                     /\ r.seq \in DOMAIN inFlight[r.lane]

\* onTimer(): everything sent up to `overdue` has timed out
Expire(overdue) ==
    LET popped == PoppedBefore({r \in mSent : entryOf(r, inFlight) /\ r.transmission > overdue})
        gone   == newlyLost(inFlight, popped)
    IN  /\ ~mFailed
        /\ retransmissionDeadline
        /\ markLost(inFlight, onTheWire, popped)
        /\ mCongestionWindow' = IF shrinks(gone) THEN halvedWindow ELSE mCongestionWindow
        /\ UNCHANGED <<cursor, nextSendSeq, sendBase, peerPaused, ackSerial, mTransmissions,
                       mLargestAcked, mStalledSince, mFailed>>

\* fail() and resetStreams(): the remote did not answer for peerTimeout
Fail ==
    /\ ~mFailed
    /\ mStalledSince \/ Supervised
    /\ cursor' = [l \in Lanes |-> NoCursor]
    /\ inFlight' = [l \in Lanes |-> EmptyBuffer]
    /\ lost' = [l \in Lanes |-> {}]
    /\ nextSendSeq' = [l \in Lanes |-> 1]
    /\ sendBase' = [l \in Lanes |-> 1]
    /\ onTheWire' = [l \in Lanes |-> 0]
    /\ peerPaused' = [l \in Lanes |-> FALSE]
    /\ ackSerial' = [l \in Lanes |-> NoSerial]
    /\ mSent' = {}
    /\ mTransmissions' = 0 /\ mLargestAcked' = 0 /\ mRecoveryStart' = 0
    /\ mCongestionWindow' = initialWindow
    /\ mStalledSince' = FALSE
    /\ mFailed' = TRUE

-----------------------------------------------------------------------------

SendInit ==
    /\ cursor = [l \in Lanes |-> NoCursor]
    /\ inFlight = [l \in Lanes |-> EmptyBuffer]
    /\ lost = [l \in Lanes |-> {}]
    /\ nextSendSeq = [l \in Lanes |-> 1]
    /\ sendBase = [l \in Lanes |-> 1]
    /\ onTheWire = [l \in Lanes |-> 0]
    /\ peerPaused = [l \in Lanes |-> FALSE]
    /\ ackSerial = [l \in Lanes |-> NoSerial]
    /\ mSent = {}
    /\ mTransmissions = 0 /\ mLargestAcked = 0 /\ mRecoveryStart = 0
    /\ mCongestionWindow = initialWindow
    /\ mStalledSince = FALSE
    /\ mFailed = FALSE

-----------------------------------------------------------------------------
(* Properties *)

SendTypeOK ==
    /\ cursor \in [Lanes -> [msg : Nat, count : Nat, next : Nat]]
    /\ DOMAIN inFlight = Lanes
    /\ \A l \in Lanes : inFlight[l] \in [DOMAIN inFlight[l] -> Entries]
    /\ \A l \in Lanes : DOMAIN inFlight[l] \subseteq Nat
    /\ lost \in [Lanes -> SUBSET SentRecords]
    /\ nextSendSeq \in [Lanes -> Nat] /\ sendBase \in [Lanes -> Nat]
    /\ onTheWire \in [Lanes -> Nat]
    /\ peerPaused \in [Lanes -> BOOLEAN]
    /\ ackSerial \in [Lanes -> 0 .. SerialSpan - 1 \cup {NoSerial}]
    /\ mSent \in SUBSET SentRecords
    /\ mTransmissions \in Nat /\ mLargestAcked \in Nat /\ mRecoveryStart \in Nat
    /\ mCongestionWindow \in Nat \ {0}
    /\ mStalledSince \in BOOLEAN /\ mFailed \in BOOLEAN

\* A packet that is not acknowledged is either on the wire with its latest transmission in
\* mSent, or lost and queued for its retransmission. Otherwise it is never sent again.
NothingForgotten ==
    \A l \in Lanes : \A s \in DOMAIN inFlight[l] :
        LET e == inFlight[l][s]
            r == [transmission |-> e.transmission, seq |-> s, lane |-> l]
        IN  IF e.lost THEN \E q \in lost[l] : q.seq = s ELSE r \in mSent

\* nextDeadline() only looks at the front of mSent: that record is of a packet on the wire,
\* or the retransmission timer would not run for the ones behind it.
OldestIsOnTheWire ==
    \A r \in mSent : (\A q \in mSent : r.transmission <= q.transmission) => entryOf(r, inFlight)

\* onTheWire counts the packets that are neither acknowledged nor lost. It is unsigned and
\* only ever incremented and decremented: one miscount and the congestion window stays shut.
OnTheWireExact ==
    \A l \in Lanes :
        onTheWire[l] = Cardinality({s \in DOMAIN inFlight[l] : ~inFlight[l][s].lost})

\* The progress clock runs while a lane that is not paused has unacknowledged data, and only then.
ProgressClockExact ==
    mStalledSince <=> \E l \in Lanes : ~peerPaused[l] /\ DOMAIN inFlight[l] # {}

\* What is queued for retransmission is queued behind what is there: the transmission numbers
\* are the order of the deque.
LostIsFifo ==
    [][\A l \in Lanes : \A r \in lost'[l] \ lost[l] : \A q \in lost[l] :
        q.transmission < r.transmission]_lost

\* A reduction of the congestion window is due to the loss of a packet sent after the last
\* reduction, and ends the round of everything sent so far: losses of packets that were under
\* way together reduce it once, also when newer packets were sent between two of them.
OneReductionPerRound ==
    [][mCongestionWindow' < mCongestionWindow /\ ~mFailed' =>
        /\ \E l \in Lanes : \E r \in lost'[l] \ lost[l] :
              sharesCongestionWindow(l) /\ r.transmission > mRecoveryStart
        /\ mRecoveryStart' = mTransmissions]_sendVars

=============================================================================
