---------------------------- MODULE ReceiveSide -----------------------------
(***************************************************************************)
(* The receiving half of ReliableLink: reordering, putting messages        *)
(* together within a shared memory budget, and the acknowledgements that   *)
(* tell the sender what arrived and whether to pause.  The size of a       *)
(* message is its number of fragments, and so is the unit of the budget.   *)
(***************************************************************************)
EXTENDS LinkParameters, Sequences, FiniteSets, FiniteSetsExt

CONSTANTS
    BudgetLimit,    \* AssemblyBudget::mLimit, shared by every link of the engine
    MaxAckRanges    \* ranges that fit into one Ack

ASSUME ReceiveAssumption ==
    /\ BudgetLimit \in Nat /\ MaxAckRanges \in Nat

VARIABLES
    streams,        \* lanes whose Stream exists
    nextExpected, reorder, budgetPaused, refusedLength,
    assembler,      \* message in progress: [fragCount, nextIndex, body]
    mUsed,          \* AssemblyBudget::mUsed
    elsewhere,      \* ... of it: held by the streams of other links
    mPaused, mAckDue, mAckSerial,
    receiverFailed, \* mFailed of this link
    delivered       \* history: the messages handed over, each the sequence of its fragments

receiveVars == <<streams, nextExpected, reorder, budgetPaused, refusedLength, assembler,
                 mUsed, elsewhere, mPaused, mAckDue, mAckSerial, receiverFailed, delivered>>

-----------------------------------------------------------------------------
(* MessageAssembler and AssemblyBudget, on st = [assembler, used, delivered] *)

NoMessage == [fragCount |-> 0, nextIndex |-> 0, body |-> <<>>]

fits(used, length) == length <= BudgetLimit - used

hasRoomFor(used, frag) ==
    frag.index = 0 /\ frag.count > 1 => fits(used, frag.count)

\* Mutant: a dropped message keeps its reservation
resetWithoutRelease(st) == [st EXCEPT !.assembler = NoMessage]

\* reset(): what the message in progress had reserved goes back
resetAssembler(st) ==
    [st EXCEPT !.assembler = NoMessage, !.used = @ - st.assembler.fragCount]

\* The first fragment reserves the whole message
begin(st, frag) ==
    [resetAssembler(st) EXCEPT !.assembler.fragCount = frag.count, !.used = @ + frag.count]

\* A fragment of a message in several parts: it continues the message in progress or drops it
append(st, frag) ==
    LET body == Append(st.assembler.body, frag)
    IN  IF st.assembler.fragCount # frag.count \/ st.assembler.nextIndex # frag.index
        THEN resetAssembler(st)
        ELSE IF frag.index + 1 < frag.count
        THEN [st EXCEPT !.assembler.body = body, !.assembler.nextIndex = @ + 1]
        ELSE [resetAssembler(st) EXCEPT !.delivered = Append(@, body)]

\* accept(). hasRoomFor() was asked before, so that reserve() succeeds.
accept(st, frag) ==
    IF frag.count = 1
    THEN [resetAssembler(st) EXCEPT !.delivered = Append(@, <<frag>>)]
    ELSE append(IF frag.index = 0 THEN begin(st, frag) ELSE st, frag)

-----------------------------------------------------------------------------
(* One lane: rx = [nextExpected, reorder, budgetPaused, refusedLength, st] *)

\* The assembler before the packet s, everything from nextExpected up to it being taken
stateBefore(rx) ==
    LET before[s \in Nat] ==
            IF s <= rx.nextExpected THEN rx.st ELSE accept(before[s - 1], rx.reorder[s - 1])
    IN  before

takes(rx, s) ==
    s \in DOMAIN rx.reorder /\ hasRoomFor(stateBefore(rx)[s].used, rx.reorder[s])

\* Where the loop ends: at the next gap, or at the first message there is no room for
drainEnd(rx, window) ==
    CHOOSE s \in rx.nextExpected .. rx.nextExpected + window :
        ~takes(rx, s) /\ \A k \in rx.nextExpected .. s - 1 : takes(rx, k)

\* drainReorderBuffer(): takes what waits behind the closed gap
drainReorderBuffer(rx, window) ==
    LET end == drainEnd(rx, window)
        refused == end \in DOMAIN rx.reorder
    IN  [nextExpected  |-> end,
         reorder       |-> Without(rx.reorder, rx.nextExpected .. end - 1),
         budgetPaused  |-> rx.budgetPaused \/ refused,
         refusedLength |-> IF refused THEN rx.reorder[end].count ELSE rx.refusedLength,
         st            |-> stateBefore(rx)[end]]

retries(rx) == rx.budgetPaused /\ fits(rx.st.used, rx.refusedLength)

\* Mutant: the pause is lifted, but what was refused stays in the buffer
retryWithoutDrain(rx, window) == IF retries(rx) THEN [rx EXCEPT !.budgetPaused = FALSE] ELSE rx

\* retryRefused(): there is room now for what was refused
retryRefused(rx, window) ==
    IF retries(rx) THEN drainReorderBuffer([rx EXCEPT !.budgetPaused = FALSE], window) ELSE rx

outOfWindow(rx, seq, window) == seq >= rx.nextExpected + window

\* Mutant: a packet that was taken before is taken again
takeDataAgain(rx, seq, frag, window) ==
    IF seq \in DOMAIN rx.reorder THEN rx
    ELSE IF seq > rx.nextExpected
    THEN [rx EXCEPT !.reorder = Insert(@, window, seq, frag)]
    ELSE IF ~hasRoomFor(rx.st.used, frag)
    THEN [rx EXCEPT !.budgetPaused = TRUE, !.refusedLength = frag.count]
    ELSE drainReorderBuffer([rx EXCEPT !.st = accept(@, frag), !.nextExpected = @ + 1], window)

\* handleData() behind its window check: duplicate, out of order, refused or taken
takeData(rx, seq, frag, window) ==
    IF seq < rx.nextExpected \/ seq \in DOMAIN rx.reorder THEN rx
    ELSE IF seq # rx.nextExpected
    THEN [rx EXCEPT !.reorder = Insert(@, window, seq, frag)]
    ELSE IF ~hasRoomFor(rx.st.used, frag)
    THEN [rx EXCEPT !.budgetPaused = TRUE, !.refusedLength = frag.count]
    ELSE drainReorderBuffer([rx EXCEPT !.st = accept(@, frag), !.nextExpected = @ + 1], window)

-----------------------------------------------------------------------------

lane(l) ==
    [nextExpected |-> nextExpected[l], reorder |-> reorder[l], budgetPaused |-> budgetPaused[l],
     refusedLength |-> refusedLength[l],
     st |-> [assembler |-> assembler[l], used |-> mUsed, delivered |-> delivered[l]]]

setLane(l, rx) ==
    /\ nextExpected' = [nextExpected EXCEPT ![l] = rx.nextExpected]
    /\ reorder' = [reorder EXCEPT ![l] = rx.reorder]
    /\ budgetPaused' = [budgetPaused EXCEPT ![l] = rx.budgetPaused]
    /\ refusedLength' = [refusedLength EXCEPT ![l] = rx.refusedLength]
    /\ assembler' = [assembler EXCEPT ![l] = rx.st.assembler]
    /\ mUsed' = rx.st.used
    /\ delivered' = [delivered EXCEPT ![l] = rx.st.delivered]

\* handleData(): a packet behind the window is dropped without an Ack
HandleData(packet) ==
    LET l  == packet.lane
        rx == retryRefused(lane(l), Window[l])
        outside == outOfWindow(rx, packet.seq, Window[l])
    IN  /\ ~receiverFailed
        /\ setLane(l, IF outside THEN rx ELSE takeData(rx, packet.seq, packet.frag, Window[l]))
        /\ mAckDue' = IF outside /\ ~retries(lane(l)) THEN mAckDue ELSE mAckDue \cup {l}
        /\ streams' = streams \cup {l}
        /\ UNCHANGED <<elsewhere, mPaused, mAckSerial, receiverFailed>>

HandlePing(l) ==
    /\ ~receiverFailed
    /\ mAckDue' = mAckDue \cup {l}
    /\ UNCHANGED <<streams, nextExpected, reorder, budgetPaused, refusedLength, assembler,
                   mUsed, elsewhere, mPaused, mAckSerial, receiverFailed, delivered>>

\* toRanges() and encodeAck(): the seqs of the MaxAckRanges lowest runs of consecutive ones
ackRanges(seqs) ==
    LET first == {s \in seqs : s - 1 \notin seqs}
    IN  {s \in seqs : Cardinality({f \in first : f <= s}) <= MaxAckRanges}

\* Mutant: the remote is not told that a message was refused
ackPausedByApplication(l, rx) == mPaused /\ l # "Control"

ackPaused(l, rx) == (mPaused /\ l # "Control") \/ rx.budgetPaused

\* makeAck(), on rs = [rx, used, serial, acks]: the lanes, the budget, the last serial and the
\* Acks made so far. The lanes share the budget, so one may take what another could have used.
makeAck(rs, l) ==
    LET rx == retryRefused([rs.rx[l] EXCEPT !.st.used = rs.used], Window[l])
        serial == (rs.serial + 1) % SerialSpan
        ack == [lane |-> l, serial |-> serial, seq |-> rx.nextExpected - 1,
                ranges |-> ackRanges(DOMAIN rx.reorder), paused |-> ackPaused(l, rx)]
    IN  [rx |-> [rs.rx EXCEPT ![l] = rx], used |-> rx.st.used, serial |-> serial,
         acks |-> rs.acks \cup {ack}]

ackIfDue(rs, l) == IF l \in mAckDue THEN makeAck(rs, l) ELSE rs

\* peekAck(): the Acks of every lane that is due, in the order of StreamLanes
dueAcks ==
    LET rs == [rx |-> [l \in Lanes |-> lane(l)], used |-> mUsed, serial |-> mAckSerial,
               acks |-> {}]
    IN  ackIfDue(ackIfDue(ackIfDue(rs, "Control"), "Reliable"), "Bulk")

SendAcks ==
    /\ ~receiverFailed
    /\ mAckDue # {}
    /\ nextExpected' = [l \in Lanes |-> dueAcks.rx[l].nextExpected]
    /\ reorder' = [l \in Lanes |-> dueAcks.rx[l].reorder]
    /\ budgetPaused' = [l \in Lanes |-> dueAcks.rx[l].budgetPaused]
    /\ refusedLength' = [l \in Lanes |-> dueAcks.rx[l].refusedLength]
    /\ assembler' = [l \in Lanes |-> dueAcks.rx[l].st.assembler]
    /\ delivered' = [l \in Lanes |-> dueAcks.rx[l].st.delivered]
    /\ mUsed' = dueAcks.used
    /\ mAckSerial' = dueAcks.serial
    /\ mAckDue' = {}
    /\ UNCHANGED <<streams, elsewhere, mPaused, receiverFailed>>

\* setPaused(): the remote learns about it right away
SetPaused(paused) ==
    /\ mPaused # paused
    /\ mPaused' = paused
    /\ mAckDue' = mAckDue \cup (streams \ {"Control"})
    /\ UNCHANGED <<streams, nextExpected, reorder, budgetPaused, refusedLength, assembler,
                   mUsed, elsewhere, mAckSerial, receiverFailed, delivered>>

\* Streams of other links begin and complete messages of their own
OthersReserve(length) ==
    /\ fits(mUsed, length)
    /\ mUsed' = mUsed + length
    /\ elsewhere' = elsewhere + length
    /\ UNCHANGED <<streams, nextExpected, reorder, budgetPaused, refusedLength, assembler,
                   mPaused, mAckDue, mAckSerial, receiverFailed, delivered>>

OthersRelease ==
    /\ elsewhere > 0
    /\ mUsed' = mUsed - elsewhere
    /\ elsewhere' = 0
    /\ UNCHANGED <<streams, nextExpected, reorder, budgetPaused, refusedLength, assembler,
                   mPaused, mAckDue, mAckSerial, receiverFailed, delivered>>

\* Mutant: a message that ends with its stream keeps its reservation
keepsReservations == mUsed

\* What is left of the budget's use once every assembler of this link is destroyed
usedWithoutStreams == mUsed - MapThenSumSet(LAMBDA l : assembler[l].fragCount, Lanes)

\* fail() and resetStreams(), the receiving half: every stream goes, with what it had buffered,
\* what it had reserved and the Acks it owed
FailReceiver ==
    /\ ~receiverFailed
    /\ receiverFailed' = TRUE
    /\ streams' = {}
    /\ nextExpected' = [l \in Lanes |-> 1]
    /\ reorder' = [l \in Lanes |-> EmptyBuffer]
    /\ budgetPaused' = [l \in Lanes |-> FALSE]
    /\ refusedLength' = [l \in Lanes |-> 0]
    /\ assembler' = [l \in Lanes |-> NoMessage]
    /\ mUsed' = usedWithoutStreams
    /\ mAckDue' = {}
    /\ UNCHANGED <<elsewhere, mPaused, mAckSerial, delivered>>

-----------------------------------------------------------------------------

ReceiveInit ==
    /\ streams = {}
    /\ nextExpected = [l \in Lanes |-> 1]
    /\ reorder = [l \in Lanes |-> EmptyBuffer]
    /\ budgetPaused = [l \in Lanes |-> FALSE]
    /\ refusedLength = [l \in Lanes |-> 0]
    /\ assembler = [l \in Lanes |-> NoMessage]
    /\ mUsed = 0 /\ elsewhere = 0
    /\ mPaused = FALSE
    /\ mAckDue = {}
    /\ mAckSerial = 0
    /\ receiverFailed = FALSE
    /\ delivered = [l \in Lanes |-> <<>>]

-----------------------------------------------------------------------------
(* Properties *)

ReceiveTypeOK ==
    /\ streams \in SUBSET Lanes /\ mAckDue \in SUBSET Lanes
    /\ nextExpected \in [Lanes -> Nat \ {0}]
    /\ DOMAIN reorder = Lanes
    /\ \A l \in Lanes : reorder[l] \in [DOMAIN reorder[l] -> Fragments]
    /\ \A l \in Lanes : DOMAIN reorder[l] \subseteq Nat
    /\ budgetPaused \in [Lanes -> BOOLEAN]
    /\ refusedLength \in [Lanes -> Nat]
    /\ mPaused \in BOOLEAN /\ receiverFailed \in BOOLEAN
    /\ mAckSerial \in 0 .. SerialSpan - 1

\* The next packet in order only waits in the reorder buffer while the lane is held up by the
\* budget: nothing but retryRefused() would take it out.
WaitsOnlyForBudget ==
    \A l \in Lanes : nextExpected[l] \in DOMAIN reorder[l] => budgetPaused[l]

\* The budget counts what the messages in progress reserved: on every path through accept(),
\* and when a link ends in the middle of a message.
BudgetExact ==
    /\ mUsed <= BudgetLimit
    /\ mUsed = elsewhere + MapThenSumSet(LAMBDA l : assembler[l].fragCount, Lanes)

=============================================================================
