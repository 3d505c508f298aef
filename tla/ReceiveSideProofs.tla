-------------------------- MODULE ReceiveSideProofs --------------------------
(***************************************************************************)
(* The inductive invariant of the receiving half of a ReliableLink: the    *)
(* reorder buffer stays within its window, and what is held stays held.    *)
(* What the assembler does with the fragments is of no importance here.    *)
(***************************************************************************)
EXTENDS ReceiveSide, SequenceBufferProofs, TLAPS

\* rx is a record with the fields of a lane
IsLane(rx) ==
    rx = [nextExpected |-> rx.nextExpected, reorder |-> rx.reorder,
          budgetPaused |-> rx.budgetPaused, refusedLength |-> rx.refusedLength, st |-> rx.st]

\* ... whose reorder buffer is within the window
LaneOK(rx, window) ==
    /\ IsLane(rx)
    /\ rx.nextExpected \in Nat \ {0}
    /\ rx.reorder \in [DOMAIN rx.reorder -> Fragments]
    /\ Within(DOMAIN rx.reorder, rx.nextExpected, window)
    /\ rx.budgetPaused \in BOOLEAN
    /\ rx.refusedLength \in Nat

\* ... and that waits for nothing but room in the budget
Settled(rx) == rx.nextExpected \in DOMAIN rx.reorder => rx.budgetPaused

\* The packet was taken or is buffered
Holds(rx, s) == s < rx.nextExpected \/ s \in DOMAIN rx.reorder

\* Everything the lane held is still held
Keeps(rx, next) ==
    /\ rx.nextExpected <= next.nextExpected
    /\ \A s \in Nat : Holds(rx, s) => Holds(next, s)

\* Keeping is transitive.
LEMMA KeepsTransitive ==
    ASSUME NEW a, NEW b, NEW c, a.nextExpected \in Nat, b.nextExpected \in Nat,
           c.nextExpected \in Nat, Keeps(a, b), Keeps(b, c)
    PROVE  Keeps(a, c)
    BY DEF Keeps

-----------------------------------------------------------------------------
(* One lane *)

\* The loop of drainReorderBuffer() ends within the window.
LEMMA DrainEnds ==
    ASSUME NEW rx, NEW w \in Nat \ {0}, LaneOK(rx, w)
    PROVE  /\ drainEnd(rx, w) \in rx.nextExpected .. rx.nextExpected + w
           /\ ~takes(rx, drainEnd(rx, w))
           /\ \A k \in rx.nextExpected .. drainEnd(rx, w) - 1 : takes(rx, k)
<1> DEFINE first == rx.nextExpected
           stops == {s \in first .. first + w : ~takes(rx, s)}
<1>1. first \in Nat
  BY DEF LaneOK
<1>2. stops \in SUBSET Nat
  BY <1>1
<1>3. first + w \in stops
  <2>1. first + w \notin DOMAIN rx.reorder
    BY <1>1 DEF LaneOK, Within
  <2>2. ~takes(rx, first + w)
    BY <2>1 DEF takes
  <2>3. QED
    BY <2>2, <1>1
<1>4. PICK m \in stops : \A s \in stops : m <= s
  <2> HIDE DEF stops
  <2>1. stops # {}
    BY <1>3
  <2>2. QED
    BY <2>1, <1>2, Least
<1>5. m \in first .. first + w /\ ~takes(rx, m)
  OBVIOUS
<1>6. \A k \in first .. m - 1 : takes(rx, k)
  BY <1>1, <1>4, <1>5
<1>7. \E s \in first .. first + w : ~takes(rx, s) /\ \A k \in first .. s - 1 : takes(rx, k)
  BY <1>5, <1>6
<1>8. drainEnd(rx, w) = CHOOSE s \in first .. first + w :
                            ~takes(rx, s) /\ \A k \in first .. s - 1 : takes(rx, k)
  BY DEF drainEnd
<1> HIDE DEF first, stops
<1>9. /\ drainEnd(rx, w) \in first .. first + w
      /\ ~takes(rx, drainEnd(rx, w))
      /\ \A k \in first .. drainEnd(rx, w) - 1 : takes(rx, k)
  BY <1>7, <1>8
<1>10. QED
  BY <1>9 DEF first

\* drainReorderBuffer() loses nothing, and leaves nothing but what was refused.
LEMMA Drain ==
    ASSUME NEW rx, NEW w \in Nat \ {0}, LaneOK(rx, w)
    PROVE  /\ LaneOK(drainReorderBuffer(rx, w), w)
           /\ Settled(drainReorderBuffer(rx, w))
           /\ Keeps(rx, drainReorderBuffer(rx, w))
<1> DEFINE end == drainEnd(rx, w)
           refused == end \in DOMAIN rx.reorder
           next == drainReorderBuffer(rx, w)
           rest == Without(rx.reorder, rx.nextExpected .. end - 1)
<1>1. /\ next = [nextExpected |-> end, reorder |-> rest,
                 budgetPaused |-> rx.budgetPaused \/ refused,
                 refusedLength |-> IF refused THEN rx.reorder[end].count ELSE rx.refusedLength,
                 st |-> stateBefore(rx)[end]]
  BY DEF drainReorderBuffer
<1>2. /\ end \in rx.nextExpected .. rx.nextExpected + w
      /\ \A k \in rx.nextExpected .. end - 1 : takes(rx, k)
  BY DrainEnds
<1>3. rx.nextExpected \in Nat \ {0} /\ end \in Nat \ {0} /\ rx.nextExpected <= end
  BY <1>2 DEF LaneOK
<1>4. /\ DOMAIN rest = DOMAIN rx.reorder \ (rx.nextExpected .. end - 1)
      /\ rest = [s \in DOMAIN rest |-> rest[s]]
      /\ \A s \in DOMAIN rest : rest[s] = rx.reorder[s]
  BY DEF Without
<1> HIDE DEF end, next, rest
<1>5. \A s \in DOMAIN rx.reorder : /\ rx.reorder[s] \in Fragments
                                  /\ s \in rx.nextExpected .. rx.nextExpected + w - 1
                                  /\ rx.reorder[s].count \in Nat
  BY DEF LaneOK, Within, Fragments
<1>6. /\ next.nextExpected = end /\ next.reorder = rest
      /\ next.budgetPaused = (rx.budgetPaused \/ refused)
      /\ next.refusedLength = IF refused THEN rx.reorder[end].count ELSE rx.refusedLength
  BY <1>1
<1>7. LaneOK(next, w)
  <2>1. IsLane(next)
    BY <1>1 DEF IsLane
  <2>2. next.reorder \in [DOMAIN next.reorder -> Fragments]
    BY <1>4, <1>5, <1>6
  <2>3. Within(DOMAIN next.reorder, next.nextExpected, w)
    BY <1>3, <1>4, <1>5, <1>6 DEF Within
  <2>4. next.budgetPaused \in BOOLEAN
    BY <1>6
  <2>5. next.refusedLength \in Nat
    BY <1>5, <1>6 DEF LaneOK
  <2>6. QED
    BY <2>1, <2>2, <2>3, <2>4, <2>5, <1>3, <1>6 DEF LaneOK
<1>8. Settled(next)
  BY <1>3, <1>4, <1>6 DEF Settled
<1>9. Keeps(rx, next)
  BY <1>3, <1>4, <1>6 DEF Keeps, Holds
<1>10. QED
  BY <1>7, <1>8, <1>9 DEF next

\* retryRefused() loses nothing, and leaves nothing but what was refused.
LEMMA Retry ==
    ASSUME NEW rx, NEW w \in Nat \ {0}, LaneOK(rx, w), Settled(rx)
    PROVE  /\ LaneOK(retryRefused(rx, w), w)
           /\ Settled(retryRefused(rx, w))
           /\ Keeps(rx, retryRefused(rx, w))
<1> DEFINE open == [rx EXCEPT !.budgetPaused = FALSE]
<1>1. CASE ~retries(rx)
  BY <1>1 DEF retryRefused, Keeps, LaneOK
<1>2. CASE retries(rx)
  <2>1. /\ open.nextExpected = rx.nextExpected /\ open.reorder = rx.reorder
        /\ open.budgetPaused = FALSE /\ open.refusedLength = rx.refusedLength
        /\ IsLane(open)
    <3>1. PICK n, b, p, r, st : rx = [nextExpected |-> n, reorder |-> b, budgetPaused |-> p,
                                      refusedLength |-> r, st |-> st]
      BY DEF LaneOK, IsLane
    <3> DEFINE no == FALSE
    <3> HIDE DEF no
    <3>2. open = [rx EXCEPT !.budgetPaused = no]
      BY DEF no
    <3> HIDE DEF open
    <3>3. open = [nextExpected |-> n, reorder |-> b, budgetPaused |-> no,
                  refusedLength |-> r, st |-> st]
      BY <3>1, <3>2
    <3>4. IsLane(open) /\ open.budgetPaused = no
      BY <3>3 DEF IsLane
    <3>5. QED
      BY <3>1, <3>3, <3>4 DEF no
  <2>2. retryRefused(rx, w) = drainReorderBuffer(open, w)
    BY <1>2 DEF retryRefused
  <2> HIDE DEF open
  <2>3. LaneOK(open, w)
    BY <2>1 DEF LaneOK
  <2>4. LaneOK(drainReorderBuffer(open, w), w) /\ Settled(drainReorderBuffer(open, w))
        /\ Keeps(open, drainReorderBuffer(open, w))
    BY <2>3, Drain
  <2>5. QED
    BY <2>1, <2>2, <2>4 DEF Keeps, Holds
<1>3. QED
  BY <1>1, <1>2

\* handleData(): a packet within the window is buffered, refused or taken, and nothing is lost.
LEMMA TakeData ==
    ASSUME NEW rx, NEW w \in Nat \ {0}, LaneOK(rx, w), Settled(rx),
           NEW seq \in Nat, NEW frag \in Fragments, ~outOfWindow(rx, seq, w)
    PROVE  /\ LaneOK(takeData(rx, seq, frag, w), w)
           /\ Settled(takeData(rx, seq, frag, w))
           /\ Keeps(rx, takeData(rx, seq, frag, w))
<1> DEFINE next == takeData(rx, seq, frag, w)
<1>0. rx.nextExpected \in Nat \ {0} /\ seq < rx.nextExpected + w
  BY DEF LaneOK, outOfWindow
<1>1. CASE seq < rx.nextExpected \/ seq \in DOMAIN rx.reorder
  BY <1>0, <1>1 DEF takeData, Keeps
<1>2. CASE /\ seq >= rx.nextExpected /\ seq \notin DOMAIN rx.reorder /\ seq # rx.nextExpected
  <2> DEFINE more == Insert(rx.reorder, w, seq, frag)
  <2>1. next = [rx EXCEPT !.reorder = more]
    BY <1>0, <1>2 DEF takeData
  <2>2. Within(DOMAIN rx.reorder, rx.nextExpected, w) /\ Within({seq}, rx.nextExpected, w)
    BY <1>0, <1>2 DEF LaneOK, Within
  <2>3. more = With(rx.reorder, seq, frag)
    BY <2>2, <1>0, InsertInWindow
  <2> HIDE DEF more, next
  <2>4. /\ DOMAIN more = DOMAIN rx.reorder \cup {seq}
        /\ \A s \in DOMAIN more : more[s] \in Fragments
        /\ more = [s \in DOMAIN more |-> more[s]]
    BY <2>3 DEF With, LaneOK
  <2>5. /\ next.nextExpected = rx.nextExpected /\ next.reorder = more
        /\ next.budgetPaused = rx.budgetPaused /\ next.refusedLength = rx.refusedLength
        /\ IsLane(next)
    BY <2>1 DEF LaneOK, IsLane
  <2>6. Within(DOMAIN more, rx.nextExpected, w)
    BY <2>2, <2>4 DEF Within
  <2>7. more \in [DOMAIN more -> Fragments]
    BY <2>4
  <2>8. LaneOK(next, w)
    BY <2>5, <2>6, <2>7 DEF LaneOK
  <2>9. Settled(next)
    BY <2>4, <2>5, <1>2 DEF Settled
  <2>10. Keeps(rx, next)
    BY <2>4, <2>5, <1>0 DEF Keeps, Holds
  <2>11. QED
    BY <2>8, <2>9, <2>10 DEF next
<1>3. CASE seq \notin DOMAIN rx.reorder /\ seq = rx.nextExpected /\ ~hasRoomFor(rx.st.used, frag)
  <2>1. next = [rx EXCEPT !.budgetPaused = TRUE, !.refusedLength = frag.count]
    BY <1>0, <1>3 DEF takeData
  <2> HIDE DEF next
  <2>2. /\ next.nextExpected = rx.nextExpected /\ next.reorder = rx.reorder
        /\ next.budgetPaused = TRUE /\ next.refusedLength = frag.count
        /\ IsLane(next)
    BY <2>1 DEF LaneOK, IsLane
  <2>3. frag.count \in Nat
    BY DEF Fragments
  <2>4. LaneOK(next, w)
    BY <2>2, <2>3 DEF LaneOK
  <2>5. Settled(next) /\ Keeps(rx, next)
    BY <2>2, <1>0 DEF Settled, Keeps, Holds
  <2>6. QED
    BY <2>4, <2>5 DEF next
<1>4. CASE seq \notin DOMAIN rx.reorder /\ seq = rx.nextExpected /\ hasRoomFor(rx.st.used, frag)
  <2> DEFINE mid == [rx EXCEPT !.st = accept(rx.st, frag), !.nextExpected = rx.nextExpected + 1]
  <2>1. next = drainReorderBuffer(mid, w)
    BY <1>0, <1>4 DEF takeData
  <2>2. /\ mid.nextExpected = rx.nextExpected + 1 /\ mid.reorder = rx.reorder
        /\ mid.budgetPaused = rx.budgetPaused /\ mid.refusedLength = rx.refusedLength
        /\ IsLane(mid)
    <3> DEFINE after == accept(rx.st, frag)
    <3>1. PICK n, b, p, r, st : rx = [nextExpected |-> n, reorder |-> b, budgetPaused |-> p,
                                      refusedLength |-> r, st |-> st]
      BY DEF LaneOK, IsLane
    <3> HIDE DEF after
    <3>2. mid = [rx EXCEPT !.st = after, !.nextExpected = rx.nextExpected + 1]
      BY DEF after
    <3> HIDE DEF mid
    <3>3. mid = [nextExpected |-> n + 1, reorder |-> b, budgetPaused |-> p,
                 refusedLength |-> r, st |-> after]
      BY <3>1, <3>2
    <3>4. QED
      BY <3>1, <3>3 DEF IsLane
  <2> HIDE DEF mid, next
  <2>3. Within(DOMAIN mid.reorder, mid.nextExpected, w)
    BY <2>2, <1>0, <1>4 DEF LaneOK, Within
  <2>4. LaneOK(mid, w)
    BY <2>2, <2>3, <1>0 DEF LaneOK
  <2>5. Keeps(rx, mid)
    BY <2>2, <1>0 DEF Keeps, Holds
  <2>6. LaneOK(next, w) /\ Settled(next) /\ Keeps(mid, next)
    BY <2>1, <2>4, Drain
  <2>7. rx.nextExpected \in Nat /\ mid.nextExpected \in Nat /\ next.nextExpected \in Nat
    BY <2>4, <2>6, <1>0 DEF LaneOK
  <2>8. Keeps(rx, next)
    BY <2>5, <2>6, <2>7, KeepsTransitive
  <2>9. QED
    BY <2>6, <2>8 DEF next
<1>5. QED
  BY <1>0, <1>1, <1>2, <1>3, <1>4

-----------------------------------------------------------------------------
(* All lanes *)

\* The reorder buffers never hold more than their rings have slots for
ReorderWithinWindow ==
    \A l \in Lanes : Within(DOMAIN reorder[l], nextExpected[l], Window[l])

ReceiveInv == ReceiveTypeOK /\ ReorderWithinWindow /\ WaitsOnlyForBudget

\* While its link lives, the receiver never goes back on a packet it has
HeldStaysHeld ==
    ~receiverFailed' =>
        /\ ~receiverFailed
        /\ \A l \in Lanes :
            /\ nextExpected[l] <= nextExpected'[l]
            /\ \A s \in Nat : s < nextExpected[l] \/ s \in DOMAIN reorder[l]
                             => s < nextExpected'[l] \/ s \in DOMAIN reorder'[l]

\* The Ack acknowledges the packet
Names(a, s) == s <= a.seq \/ s \in a.ranges

\* The initial state of a link.
LEMMA ReceiveInitial == ReceiveInit => ReceiveInv
<1> SUFFICES ASSUME ReceiveInit PROVE ReceiveInv
  OBVIOUS
<1> USE LinkAssumption DEF ReceiveInit
<1>0. DOMAIN EmptyBuffer = {} /\ EmptyBuffer \in [DOMAIN EmptyBuffer -> Fragments]
  BY DEF EmptyBuffer
<1>1. ReceiveTypeOK
  <2>1. 0 \in 0 .. SerialSpan - 1
    OBVIOUS
  <2>2. /\ streams = {} /\ mAckDue = {} /\ nextExpected = [l \in Lanes |-> 1]
        /\ reorder = [l \in Lanes |-> EmptyBuffer] /\ budgetPaused = [l \in Lanes |-> FALSE]
        /\ refusedLength = [l \in Lanes |-> 0] /\ mPaused = FALSE /\ mAckSerial = 0
        /\ receiverFailed = FALSE
    OBVIOUS
  <2> HIDE DEF ReceiveInit
  <2>3. budgetPaused \in [Lanes -> BOOLEAN] /\ mPaused \in BOOLEAN
        /\ receiverFailed \in BOOLEAN
    BY <2>2
  <2>4. DOMAIN reorder = Lanes /\ \A l \in Lanes : reorder[l] = EmptyBuffer
    BY <2>2
  <2>5. QED
    BY <2>1, <2>2, <2>3, <2>4, <1>0 DEF ReceiveTypeOK
<1>2. ReorderWithinWindow /\ WaitsOnlyForBudget
  BY <1>0 DEF ReorderWithinWindow, WaitsOnlyForBudget, Within
<1>3. QED
  BY <1>1, <1>2 DEF ReceiveInv

\* A link that fails is left with streams as it began with.
LEMMA FailReceiverStep ==
    ASSUME ReceiveInv, FailReceiver
    PROVE  ReceiveInv' /\ HeldStaysHeld
<1>1. /\ nextExpected' = [l \in Lanes |-> 1] /\ reorder' = [l \in Lanes |-> EmptyBuffer]
      /\ budgetPaused' = [l \in Lanes |-> FALSE] /\ refusedLength' = [l \in Lanes |-> 0]
      /\ streams' = {} /\ mAckDue' = {} /\ receiverFailed' = TRUE
      /\ mPaused' = mPaused /\ mAckSerial' = mAckSerial
  BY DEF FailReceiver
<1>2. DOMAIN EmptyBuffer = {} /\ EmptyBuffer \in [DOMAIN EmptyBuffer -> Fragments]
  BY DEF EmptyBuffer
<1>3. ReceiveTypeOK'
  <2>1. streams' \in SUBSET Lanes /\ mAckDue' \in SUBSET Lanes
    BY <1>1
  <2>2. nextExpected' \in [Lanes -> Nat \ {0}] /\ refusedLength' \in [Lanes -> Nat]
    BY <1>1
  <2>3. DOMAIN reorder' = Lanes /\ \A l \in Lanes : reorder'[l] = EmptyBuffer
    BY <1>1
  <2>4. budgetPaused' \in [Lanes -> BOOLEAN]
    BY <1>1
  <2>5. receiverFailed' \in BOOLEAN
    BY <1>1
  <2>6. mPaused' \in BOOLEAN /\ mAckSerial' \in 0 .. SerialSpan - 1
    BY <1>1 DEF ReceiveInv, ReceiveTypeOK
  <2>7. \A l \in Lanes : reorder'[l] \in [DOMAIN reorder'[l] -> Fragments]
                         /\ DOMAIN reorder'[l] \subseteq Nat
    BY <2>3, <1>2
  <2>8. QED
    BY <2>1, <2>2, <2>3, <2>4, <2>5, <2>6, <2>7 DEF ReceiveTypeOK
<1>4. ReorderWithinWindow' /\ WaitsOnlyForBudget'
  BY <1>1, <1>2 DEF ReorderWithinWindow, WaitsOnlyForBudget, Within
<1>5. QED
  BY <1>1, <1>3, <1>4 DEF ReceiveInv, HeldStaysHeld

\* The invariant, as a statement about the record of one lane.
LEMMA LaneRecord ==
    ASSUME ReceiveInv, NEW l \in Lanes
    PROVE  LaneOK(lane(l), Window[l]) /\ Settled(lane(l))
<1>1. /\ IsLane(lane(l))
      /\ lane(l).nextExpected = nextExpected[l] /\ lane(l).reorder = reorder[l]
      /\ lane(l).budgetPaused = budgetPaused[l] /\ lane(l).refusedLength = refusedLength[l]
  BY DEF lane, IsLane
<1>2. /\ nextExpected[l] \in Nat \ {0} /\ reorder[l] \in [DOMAIN reorder[l] -> Fragments]
      /\ budgetPaused[l] \in BOOLEAN /\ refusedLength[l] \in Nat
      /\ Within(DOMAIN reorder[l], nextExpected[l], Window[l])
      /\ nextExpected[l] \in DOMAIN reorder[l] => budgetPaused[l]
  BY DEF ReceiveInv, ReceiveTypeOK, ReorderWithinWindow, WaitsOnlyForBudget
<1>3. QED
  BY <1>1, <1>2 DEF LaneOK, Settled

\* A lane is within its window again after a step that leaves it so
LanesOK(f) ==
    \A l \in Lanes : LaneOK(f[l], Window[l]) /\ Settled(f[l]) /\ Keeps(lane(l), f[l])

\* The invariant, from the records of the lanes.
LEMMA FromLanes ==
    ASSUME ReceiveInv, NEW f, LanesOK(f),
           nextExpected' = [l \in Lanes |-> f[l].nextExpected],
           reorder' = [l \in Lanes |-> f[l].reorder],
           budgetPaused' = [l \in Lanes |-> f[l].budgetPaused],
           refusedLength' = [l \in Lanes |-> f[l].refusedLength],
           streams' \in SUBSET Lanes, mAckDue' \in SUBSET Lanes, mPaused' \in BOOLEAN,
           mAckSerial' \in 0 .. SerialSpan - 1, receiverFailed' = receiverFailed
    PROVE  ReceiveInv' /\ HeldStaysHeld
<1>1. ASSUME NEW l \in Lanes
      PROVE  /\ nextExpected'[l] \in Nat \ {0}
             /\ reorder'[l] \in [DOMAIN reorder'[l] -> Fragments]
             /\ budgetPaused'[l] \in BOOLEAN /\ refusedLength'[l] \in Nat
             /\ Within(DOMAIN reorder'[l], nextExpected'[l], Window[l])
             /\ nextExpected'[l] \in DOMAIN reorder'[l] => budgetPaused'[l]
  BY DEF LanesOK, LaneOK, Settled
<1>2. \A l \in Lanes : DOMAIN reorder'[l] \subseteq Nat
  BY <1>1, LinkAssumption DEF Within
<1>3. ReceiveTypeOK'
  <2>1. receiverFailed' \in BOOLEAN
    BY DEF ReceiveInv, ReceiveTypeOK
  <2>2. QED
    BY <1>1, <1>2, <2>1 DEF ReceiveTypeOK
<1>4. ReorderWithinWindow' /\ WaitsOnlyForBudget'
  BY <1>1 DEF ReorderWithinWindow, WaitsOnlyForBudget
<1>5. HeldStaysHeld
  <2> SUFFICES ASSUME NEW l \in Lanes
               PROVE  /\ nextExpected[l] <= nextExpected'[l]
                      /\ \A s \in Nat : s < nextExpected[l] \/ s \in DOMAIN reorder[l]
                                       => s < nextExpected'[l] \/ s \in DOMAIN reorder'[l]
    BY DEF HeldStaysHeld
  <2>1. Keeps(lane(l), f[l]) /\ nextExpected'[l] = f[l].nextExpected /\ reorder'[l] = f[l].reorder
    BY DEF LanesOK
  <2>2. lane(l).nextExpected = nextExpected[l] /\ lane(l).reorder = reorder[l]
    BY DEF lane
  <2>3. QED
    BY <2>1, <2>2 DEF Keeps, Holds
<1>6. QED
  BY <1>3, <1>4, <1>5 DEF ReceiveInv

\* A Data packet keeps the invariant, and everything that was held.
LEMMA HandleDataStep ==
    ASSUME ReceiveInv, NEW packet \in Packets, HandleData(packet)
    PROVE  ReceiveInv' /\ HeldStaysHeld
<1> DEFINE l == packet.lane
           retried == retryRefused(lane(l), Window[l])
           outside == outOfWindow(retried, packet.seq, Window[l])
           rx == IF outside THEN retried ELSE takeData(retried, packet.seq, packet.frag, Window[l])
           f == [k \in Lanes |-> IF k = l THEN rx ELSE lane(k)]
<1>1. l \in Lanes /\ packet.seq \in Nat /\ packet.frag \in Fragments /\ Window[l] \in Nat \ {0}
  BY LinkAssumption DEF Packets
<1>2. setLane(l, rx) /\ streams' = streams \cup {l}
      /\ UNCHANGED <<mPaused, mAckSerial, receiverFailed>>
      /\ mAckDue' \subseteq mAckDue \cup {l}
  BY DEF HandleData
<1>3. LaneOK(lane(l), Window[l]) /\ Settled(lane(l))
  BY <1>1, LaneRecord
<1> HIDE DEF l
<1>4. LaneOK(retried, Window[l]) /\ Settled(retried) /\ Keeps(lane(l), retried)
  BY <1>1, <1>3, Retry
<1>5. LaneOK(rx, Window[l]) /\ Settled(rx) /\ Keeps(lane(l), rx)
  <2> HIDE DEF retried
  <2>1. CASE outside
    BY <2>1, <1>4
  <2>2. CASE ~outside
    <3> DEFINE next == takeData(retried, packet.seq, packet.frag, Window[l])
    <3>1. LaneOK(next, Window[l]) /\ Settled(next) /\ Keeps(retried, next)
      BY <2>2, <1>1, <1>4, TakeData
    <3> HIDE DEF next
    <3>2. lane(l).nextExpected \in Nat /\ retried.nextExpected \in Nat /\ next.nextExpected \in Nat
      BY <3>1, <1>3, <1>4 DEF LaneOK
    <3>3. Keeps(lane(l), next)
      BY <3>1, <3>2, <1>4, KeepsTransitive
    <3>4. QED
      BY <3>1, <3>3, <2>2 DEF next
  <2>3. QED
    BY <2>1, <2>2
<1> HIDE DEF rx
<1>6. LanesOK(f)
  <2>1. ASSUME NEW k \in Lanes, k # l
        PROVE  LaneOK(f[k], Window[k]) /\ Settled(f[k]) /\ Keeps(lane(k), f[k])
    <3>1. f[k] = lane(k) /\ LaneOK(lane(k), Window[k]) /\ Settled(lane(k))
      BY <2>1, LaneRecord
    <3>2. Keeps(lane(k), lane(k))
      BY <3>1 DEF Keeps, LaneOK
    <3>3. QED
      BY <3>1, <3>2
  <2>2. f[l] = rx
    BY <1>1
  <2> HIDE DEF f
  <2>3. QED
    BY <2>1, <2>2, <1>5 DEF LanesOK
<1>7. /\ nextExpected' = [k \in Lanes |-> f[k].nextExpected]
      /\ reorder' = [k \in Lanes |-> f[k].reorder]
      /\ budgetPaused' = [k \in Lanes |-> f[k].budgetPaused]
      /\ refusedLength' = [k \in Lanes |-> f[k].refusedLength]
  <2>1. /\ nextExpected \in [Lanes -> Nat \ {0}] /\ DOMAIN reorder = Lanes
        /\ budgetPaused \in [Lanes -> BOOLEAN] /\ refusedLength \in [Lanes -> Nat]
    BY DEF ReceiveInv, ReceiveTypeOK
  <2>2. /\ nextExpected' = [nextExpected EXCEPT ![l] = rx.nextExpected]
        /\ reorder' = [reorder EXCEPT ![l] = rx.reorder]
        /\ budgetPaused' = [budgetPaused EXCEPT ![l] = rx.budgetPaused]
        /\ refusedLength' = [refusedLength EXCEPT ![l] = rx.refusedLength]
    BY <1>2 DEF setLane
  <2>3. \A k \in Lanes :
          /\ f[k].nextExpected = IF k = l THEN rx.nextExpected ELSE nextExpected[k]
          /\ f[k].reorder = IF k = l THEN rx.reorder ELSE reorder[k]
          /\ f[k].budgetPaused = IF k = l THEN rx.budgetPaused ELSE budgetPaused[k]
          /\ f[k].refusedLength = IF k = l THEN rx.refusedLength ELSE refusedLength[k]
    BY DEF lane
  <2> HIDE DEF f
  <2>4. QED
    BY <2>1, <2>2, <2>3
<1>8. streams' \in SUBSET Lanes /\ mAckDue' \in SUBSET Lanes /\ mPaused' \in BOOLEAN
      /\ mAckSerial' \in 0 .. SerialSpan - 1
  BY <1>1, <1>2 DEF ReceiveInv, ReceiveTypeOK
<1> HIDE DEF f
<1>9. QED
  BY <1>2, <1>6, <1>7, <1>8, FromLanes

\* Steps that do not touch the lanes: a Ping, the application, the other links.
LEMMA LanesUntouched ==
    ASSUME ReceiveInv,
           UNCHANGED <<nextExpected, reorder, budgetPaused, refusedLength, mAckSerial,
                       receiverFailed>>,
           streams' \in SUBSET Lanes, mAckDue' \in SUBSET Lanes, mPaused' \in BOOLEAN
    PROVE  ReceiveInv' /\ HeldStaysHeld
<1>1. ReceiveTypeOK'
  BY DEF ReceiveInv, ReceiveTypeOK
<1>2. ReorderWithinWindow' /\ WaitsOnlyForBudget'
  BY DEF ReceiveInv, ReorderWithinWindow, WaitsOnlyForBudget
<1>3. \A l \in Lanes : nextExpected[l] \in Nat
  BY DEF ReceiveInv, ReceiveTypeOK
<1>4. HeldStaysHeld
  BY <1>3 DEF HeldStaysHeld
<1>5. QED
  BY <1>1, <1>2, <1>4 DEF ReceiveInv

-----------------------------------------------------------------------------
(* Acks *)

\* The lanes and the Acks that peekAck() made so far: an Ack names nothing its lane lacks
AcksOK(rs) ==
    /\ rs = [rx |-> rs.rx, used |-> rs.used, serial |-> rs.serial, acks |-> rs.acks]
    /\ rs.rx = [l \in Lanes |-> rs.rx[l]]
    /\ LanesOK(rs.rx)
    /\ rs.serial \in 0 .. SerialSpan - 1
    /\ rs.acks \in SUBSET Acks
    /\ \A a \in rs.acks : \A s \in Nat : Names(a, s) => Holds(rs.rx[a.lane], s)

\* makeAck(): the Ack names nothing its lane lacks.
LEMMA MakeAck ==
    ASSUME ReceiveInv, NEW rs, AcksOK(rs), NEW l \in Lanes
    PROVE  AcksOK(makeAck(rs, l))
<1> DEFINE base == [rs.rx[l] EXCEPT !.st.used = rs.used]
           rx == retryRefused(base, Window[l])
           serial == (rs.serial + 1) % SerialSpan
           ack == [lane |-> l, serial |-> serial, seq |-> rx.nextExpected - 1,
                   ranges |-> ackRanges(DOMAIN rx.reorder), paused |-> ackPaused(l, rx)]
           f == [rs.rx EXCEPT ![l] = rx]
           next == makeAck(rs, l)
<1>1. next = [rx |-> f, used |-> rx.st.used, serial |-> serial, acks |-> rs.acks \cup {ack}]
  BY DEF makeAck
<1>2. LaneOK(rs.rx[l], Window[l]) /\ Settled(rs.rx[l]) /\ Keeps(lane(l), rs.rx[l])
      /\ Window[l] \in Nat \ {0}
  BY LinkAssumption DEF AcksOK, LanesOK
<1>3. /\ base.nextExpected = rs.rx[l].nextExpected /\ base.reorder = rs.rx[l].reorder
      /\ base.budgetPaused = rs.rx[l].budgetPaused /\ base.refusedLength = rs.rx[l].refusedLength
      /\ IsLane(base)
  <2>1. PICK n, b, p, r, st : rs.rx[l] = [nextExpected |-> n, reorder |-> b, budgetPaused |-> p,
                                          refusedLength |-> r, st |-> st]
    BY <1>2 DEF LaneOK, IsLane
  <2> DEFINE after == [st EXCEPT !.used = rs.used]
  <2>2. base = [rs.rx[l] EXCEPT !.st = after]
    BY <2>1
  <2> HIDE DEF after, base
  <2>3. base = [nextExpected |-> n, reorder |-> b, budgetPaused |-> p,
                refusedLength |-> r, st |-> after]
    BY <2>1, <2>2
  <2>4. QED
    BY <2>1, <2>3 DEF IsLane
<1> HIDE DEF base
<1>4. LaneOK(base, Window[l]) /\ Settled(base)
  BY <1>2, <1>3 DEF LaneOK, Settled
<1>5. LaneOK(rx, Window[l]) /\ Settled(rx) /\ Keeps(base, rx)
  BY <1>2, <1>4, Retry
<1>6. Keeps(rs.rx[l], rx)
  BY <1>3, <1>5 DEF Keeps, Holds
<1> HIDE DEF rx
<1>7. Keeps(lane(l), rx)
  <2>1. lane(l).nextExpected \in Nat /\ rs.rx[l].nextExpected \in Nat /\ rx.nextExpected \in Nat
    BY <1>2, <1>5, LaneRecord DEF LaneOK
  <2>2. QED
    BY <2>1, <1>2, <1>6, KeepsTransitive
<1>8. DOMAIN f = Lanes /\ f = [k \in Lanes |-> f[k]] /\ f[l] = rx
      /\ \A k \in Lanes : k # l => f[k] = rs.rx[k]
  BY DEF AcksOK
<1> HIDE DEF f
<1>9. LanesOK(f)
  BY <1>5, <1>7, <1>8 DEF LanesOK, AcksOK
<1>10. serial \in 0 .. SerialSpan - 1
  BY LinkAssumption DEF AcksOK
<1> HIDE DEF serial
<1>11. ackRanges(DOMAIN rx.reorder) \subseteq DOMAIN rx.reorder
  BY DEF ackRanges
<1>12. DOMAIN rx.reorder \subseteq Nat /\ rx.nextExpected \in Nat \ {0} /\ rx.budgetPaused \in BOOLEAN
  BY <1>2, <1>5 DEF LaneOK, Within
<1>13. ack \in Acks
  <2>1. ackPaused(l, rx) \in BOOLEAN
    BY <1>12 DEF ackPaused
  <2>2. rx.nextExpected - 1 \in Nat /\ ackRanges(DOMAIN rx.reorder) \in SUBSET Nat
    BY <1>11, <1>12
  <2>3. QED
    BY <2>1, <2>2, <1>10 DEF Acks
<1>14. \A s \in Nat : Names(ack, s) => Holds(rx, s)
  BY <1>11, <1>12 DEF Names, Holds
<1>15. ack.lane = l
  OBVIOUS
<1> HIDE DEF ack
<1>16. ASSUME NEW a \in rs.acks \cup {ack}, NEW s \in Nat, Names(a, s)
       PROVE  Holds(f[a.lane], s)
  <2>1. CASE a = ack
    BY <2>1, <1>8, <1>14, <1>15, <1>16
  <2>2. CASE a \in rs.acks
    <3>1. a.lane \in Lanes /\ Holds(rs.rx[a.lane], s)
      BY <2>2, <1>16 DEF AcksOK, Acks
    <3>2. CASE a.lane = l
      BY <3>1, <3>2, <1>6, <1>8 DEF Keeps
    <3>3. CASE a.lane # l
      BY <3>1, <3>3, <1>8
    <3>4. QED
      BY <3>2, <3>3
  <2>3. QED
    BY <2>1, <2>2
<1> HIDE DEF next
<1>17. next.rx = f /\ next.serial = serial /\ next.acks = rs.acks \cup {ack}
       /\ next = [rx |-> next.rx, used |-> next.used, serial |-> next.serial, acks |-> next.acks]
  BY <1>1
<1>18. rs.acks \cup {ack} \in SUBSET Acks
  BY <1>13 DEF AcksOK
<1>19. AcksOK(next)
  BY <1>8, <1>9, <1>10, <1>16, <1>17, <1>18 DEF AcksOK
<1>20. QED
  BY <1>19 DEF next

\* peekAck(): no Ack names what its lane lacks.
LEMMA DueAcks == ReceiveInv => AcksOK(dueAcks)
<1> SUFFICES ASSUME ReceiveInv PROVE AcksOK(dueAcks)
  OBVIOUS
<1> DEFINE rs == [rx |-> [l \in Lanes |-> lane(l)], used |-> mUsed, serial |-> mAckSerial, acks |-> {}]
<1>1. ASSUME NEW l \in Lanes PROVE Keeps(lane(l), lane(l))
  BY LaneRecord DEF Keeps, LaneOK
<1>2. AcksOK(rs)
  <2>1. LanesOK(rs.rx)
    BY <1>1, LaneRecord DEF LanesOK
  <2>2. rs.serial \in 0 .. SerialSpan - 1
    BY DEF ReceiveInv, ReceiveTypeOK
  <2>3. QED
    BY <2>1, <2>2 DEF AcksOK
<1> HIDE DEF rs
<1>3. ASSUME NEW q, AcksOK(q), NEW l PROVE AcksOK(ackIfDue(q, l))
  BY <1>3, MakeAck DEF ackIfDue, ReceiveInv, ReceiveTypeOK
<1>4. dueAcks = ackIfDue(ackIfDue(ackIfDue(rs, "Control"), "Reliable"), "Bulk")
  BY DEF dueAcks, rs
<1>5. QED
  BY <1>2, <1>3, <1>4

\* Sending the Acks that are due keeps the invariant and everything that was held, and the
\* Acks name nothing that is not held.
LEMMA SendAcksStep ==
    ASSUME ReceiveInv, SendAcks
    PROVE  /\ ReceiveInv' /\ HeldStaysHeld
           /\ dueAcks.acks \subseteq Acks
           /\ \A a \in dueAcks.acks : \A s \in Nat :
                Names(a, s) => s < nextExpected'[a.lane] \/ s \in DOMAIN reorder'[a.lane]
<1> DEFINE f == dueAcks.rx
<1>1. AcksOK(dueAcks)
  BY DueAcks
<1>2. /\ nextExpected' = [l \in Lanes |-> f[l].nextExpected]
      /\ reorder' = [l \in Lanes |-> f[l].reorder]
      /\ budgetPaused' = [l \in Lanes |-> f[l].budgetPaused]
      /\ refusedLength' = [l \in Lanes |-> f[l].refusedLength]
      /\ mAckSerial' = dueAcks.serial /\ mAckDue' = {}
      /\ UNCHANGED <<streams, mPaused, receiverFailed>>
  BY DEF SendAcks
<1>3. LanesOK(f) /\ mAckSerial' \in 0 .. SerialSpan - 1
  BY <1>1, <1>2 DEF AcksOK
<1>4. streams' \in SUBSET Lanes /\ mAckDue' \in SUBSET Lanes /\ mPaused' \in BOOLEAN
  BY <1>2 DEF ReceiveInv, ReceiveTypeOK
<1> HIDE DEF f
<1>5. ReceiveInv' /\ HeldStaysHeld
  BY <1>2, <1>3, <1>4, FromLanes
<1>6. ASSUME NEW a \in dueAcks.acks, NEW s \in Nat, Names(a, s)
      PROVE  s < nextExpected'[a.lane] \/ s \in DOMAIN reorder'[a.lane]
  <2>1. a.lane \in Lanes /\ Holds(f[a.lane], s)
    BY <1>1, <1>6 DEF AcksOK, Acks, f
  <2>2. QED
    BY <2>1, <1>2 DEF Holds
<1>7. QED
  BY <1>1, <1>5, <1>6 DEF AcksOK
=============================================================================
