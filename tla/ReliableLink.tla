---------------------------- MODULE ReliableLink ----------------------------
(***************************************************************************)
(* The acknowledged lanes between two links, in one direction: the send    *)
(* side of one, the receive side of the other, and a network between them  *)
(* that loses, duplicates and reorders datagrams.  What is in transit is a *)
(* set; a datagram may stay in it forever, and also after it was received. *)
(***************************************************************************)
EXTENDS SendSide, ReceiveSide

CONSTANTS
    FragCounts,        \* sizes of the messages the application sends
    MaxMessages,       \* bound: messages per lane
    MaxTransmissions,  \* bound: Data transmissions
    MaxAcksInTransit,  \* bound: Acks in the network at a time
    MaxAckSerial,      \* bound: serial of the last Ack, SerialSpan - 1: there is no last one
    MaxLosses,         \* bound: datagrams the network loses
    Duplicates,        \* the network may deliver a datagram more than once
    MaxSpurious,       \* bound: timeouts of packets still in the network
    MaxHolds,          \* bound: times the application or other links hold the lanes up
    ReceiverMayFail    \* the receiving link may give up the sender

ASSUME CompositionAssumption == FragCounts \subseteq Nat \ {0}

VARIABLES
    wire, acks, pings,          \* datagrams in transit
    taken,                      \* history: sizes of the messages taken from the source
    losses, spurious, holds     \* how much of the bounds is used up

netVars == <<wire, acks, pings>>
bounds == <<losses, spurious, holds>>
vars == <<sendVars, receiveVars, netVars, taken, bounds>>

stillInTransit(network, datagram) == IF Duplicates THEN network ELSE network \ {datagram}

-----------------------------------------------------------------------------
(* The sender *)

\* Cutting a message begins when the cursor points to its first fragment
Send(l) ==
    /\ mTransmissions < MaxTransmissions
    /\ \E count \in FragCounts :
        LET new == takeMessage(l, count).next = 0
        IN  /\ new => Len(taken[l]) < MaxMessages
            /\ SendNext(l, count)
            /\ taken' = IF new THEN [taken EXCEPT ![l] = Append(@, count)] ELSE taken
    /\ wire' = wire \cup {[lane |-> l, seq |-> nextSendSeq[l],
                           frag |-> inFlight'[l][nextSendSeq[l]].frag]}
    /\ UNCHANGED <<receiveVars, acks, pings, bounds>>

SendAgain(l) ==
    /\ mTransmissions < MaxTransmissions
    /\ \E r \in lost[l] :
        /\ Retransmit(l, r)
        /\ wire' = wire \cup {[lane |-> l, seq |-> r.seq, frag |-> inFlight[l][r.seq].frag]}
    /\ UNCHANGED <<receiveVars, acks, pings, taken, bounds>>

Peek(l) ==
    /\ PeekOnly(l)
    /\ UNCHANGED <<receiveVars, netVars, taken, bounds>>

ReceiveAck(l) ==
    /\ \E a \in acks :
        /\ a.lane = l
        /\ HandleAck(a)
        /\ acks' = stillInTransit(acks, a)
    /\ UNCHANGED <<receiveVars, wire, pings, taken, bounds>>

\* The timeout is longer than the round trip: the packet is not in the network anymore, and
\* no Ack is or is about to be
trulyOverdue(r) ==
    /\ [lane |-> r.lane, seq |-> r.seq, frag |-> inFlight[r.lane][r.seq].frag] \notin wire
    /\ r.lane \notin mAckDue
    /\ \A a \in acks : a.lane # r.lane

RetransmissionTimeout ==
    \E r \in mSent :
        /\ entryOf(r, inFlight)
        /\ LET early == \E q \in mSent : q.transmission <= r.transmission
                                         /\ entryOf(q, inFlight) /\ ~trulyOverdue(q)
           IN  /\ early => spurious < MaxSpurious
               /\ spurious' = IF early THEN spurious + 1 ELSE spurious
        /\ Expire(r.transmission)
        /\ UNCHANGED <<receiveVars, netVars, taken, losses, holds>>

\* Mutant: a paused lane waits for the Ack that resumes it
neverProbe(l) == FALSE

\* onTimer() asks a paused lane again; the Ping goes out with the Acks
Probe(l) ==
    /\ ~mFailed
    /\ peerPaused[l]
    /\ pings' = pings \cup {l}
    /\ UNCHANGED <<sendVars, receiveVars, wire, acks, taken, bounds>>

PeerTimeout ==
    /\ Fail
    /\ UNCHANGED <<receiveVars, netVars, taken, bounds>>

-----------------------------------------------------------------------------
(* The receiver *)

ReceiveData(l) ==
    /\ \E p \in wire :
        /\ p.lane = l
        /\ HandleData(p)
        /\ wire' = stillInTransit(wire, p)
    /\ UNCHANGED <<sendVars, acks, pings, taken, bounds>>

ReceivePing(l) ==
    /\ l \in pings
    /\ pings' = pings \ {l}
    /\ HandlePing(l)
    /\ UNCHANGED <<sendVars, wire, acks, taken, bounds>>

\* Assumed, not enforced by the code: neither an Ack in the network nor the last Ack of a lane
\* is behind by half of the serials. The lanes draw from one mAckSerial, so the second half is
\* about a lane that is idle while the others are acknowledged that often.
serialsClose(serial) ==
    \A s \in ({a.serial : a \in acks} \cup {ackSerial[l] : l \in mAckDue}) \ {NoSerial} :
        2 * serialDistance(serial, s) < SerialSpan

Acknowledge ==
    /\ Cardinality(acks) + Cardinality(mAckDue) <= MaxAcksInTransit
    /\ mAckSerial + Cardinality(mAckDue) <= MaxAckSerial \/ MaxAckSerial + 1 = SerialSpan
    /\ serialsClose((mAckSerial + Cardinality(mAckDue)) % SerialSpan)
    /\ SendAcks
    /\ acks' = acks \cup dueAcks.acks
    /\ UNCHANGED <<sendVars, wire, pings, taken, bounds>>

Pause ==
    /\ holds < MaxHolds /\ holds' = holds + 1
    /\ SetPaused(TRUE)
    /\ UNCHANGED <<sendVars, netVars, taken, losses, spurious>>

Resume ==
    /\ SetPaused(FALSE)
    /\ UNCHANGED <<sendVars, netVars, taken, bounds>>

BudgetTaken ==
    /\ holds < MaxHolds /\ holds' = holds + 1
    /\ \E length \in 1 .. BudgetLimit : OthersReserve(length)
    /\ UNCHANGED <<sendVars, netVars, taken, losses, spurious>>

BudgetReturned ==
    /\ OthersRelease
    /\ UNCHANGED <<sendVars, netVars, taken, bounds>>

\* The receiving link did not hear from the sender, or not about its own messages, for
\* peerTimeout. The clocks of that direction are not part of this one.
ReceiverTimeout ==
    /\ ReceiverMayFail
    /\ FailReceiver
    /\ UNCHANGED <<sendVars, netVars, taken, bounds>>

-----------------------------------------------------------------------------
(* The network *)

LoseData ==
    /\ losses < MaxLosses /\ losses' = losses + 1
    /\ \E p \in wire : wire' = wire \ {p}
    /\ UNCHANGED <<sendVars, receiveVars, acks, pings, taken, spurious, holds>>

LoseAck ==
    /\ losses < MaxLosses /\ losses' = losses + 1
    /\ \E a \in acks : acks' = acks \ {a}
    /\ UNCHANGED <<sendVars, receiveVars, wire, pings, taken, spurious, holds>>

-----------------------------------------------------------------------------

Init ==
    /\ SendInit
    /\ ReceiveInit
    /\ wire = {} /\ acks = {} /\ pings = {}
    /\ taken = [l \in Lanes |-> <<>>]
    /\ losses = 0 /\ spurious = 0 /\ holds = 0

Next ==
    \/ \E l \in Lanes : \/ Send(l) \/ SendAgain(l) \/ Peek(l) \/ ReceiveAck(l) \/ Probe(l)
                        \/ ReceiveData(l) \/ ReceivePing(l)
    \/ Acknowledge \/ RetransmissionTimeout \/ PeerTimeout \/ ReceiverTimeout
    \/ Pause \/ Resume \/ BudgetTaken \/ BudgetReturned
    \/ LoseData \/ LoseAck

Spec == Init /\ [][Next]_vars

-----------------------------------------------------------------------------
(* Properties *)

\* Every variable has its type; the unsigned counter onTheWire did not underflow.
TypeOK ==
    /\ SendTypeOK
    /\ ReceiveTypeOK
    /\ wire \subseteq Packets /\ acks \subseteq Acks /\ pings \subseteq Lanes

\* What the sender forgot as acknowledged is delivered or buffered at the receiver: neither
\* ring overwrote a packet that was still needed, and the receiver keeps what it acknowledged
\* for as long as its link lives.
AckedIsHeld ==
    ~mFailed /\ ~receiverFailed => \A l \in Lanes : \A s \in 1 .. nextSendSeq[l] - 1 :
        s \in DOMAIN inFlight[l] \/ s < nextExpected[l] \/ s \in DOMAIN reorder[l]

\* Only a buffered packet the budget refused is acknowledged before it is taken. The sender's
\* window may then be ahead of the receiver's, and it is the pause that keeps it from sending
\* (peek() does not compare the two): an overtaken Ack must not lift it.
AheadOnlyWhilePaused ==
    \A l \in Lanes : sendBase[l] > nextExpected[l] => peerPaused[l] \/ mFailed \/ receiverFailed

\* A sender that keeps to the protocol never has a packet dropped for lack of a slot.
NeverOutOfWindow ==
    ~receiverFailed => \A p \in wire : p.seq < nextExpected[p.lane] + Window[p.lane]

Ordered == INSTANCE OrderedLane

\* The lanes implement OrderedLane: whole messages, once and in order.
DeliversInOrder == Ordered!Spec

-----------------------------------------------------------------------------
(* Liveness *)

\* A datagram is received or lost
DataLeaves(l) == \E p \in wire : p.lane = l /\ wire' = wire \ {p}
AckLeaves(l) == \E a \in acks : a.lane = l /\ acks' = acks \ {a}

\* What Acknowledge does
AcksGoOut == mAckDue # {} /\ mAckDue' = {}

\* The engine's loop keeps running on both sides: what is due is done. The network delivers
\* the datagrams it does not lose. The application takes what is delivered, and other links
\* complete their messages.
Fairness ==
    /\ \A l \in Lanes :
        /\ WF_vars(Send(l)) /\ WF_vars(SendAgain(l)) /\ WF_vars(Probe(l))
        /\ WF_vars(ReceivePing(l)) /\ WF_wire(DataLeaves(l)) /\ WF_acks(AckLeaves(l))
    /\ WF_mAckDue(AcksGoOut) /\ WF_vars(RetransmissionTimeout)
    /\ WF_vars(Resume) /\ WF_vars(BudgetReturned)

FairSpec == Spec /\ Fairness

\* Everything that was sent is delivered in the end, whatever was lost, refused or paused,
\* unless one side gives the link up.
EverythingArrives ==
    \A l \in Lanes : \A s \in 1 .. MaxTransmissions :
        (nextSendSeq[l] > s) ~> (nextExpected[l] > s \/ mFailed \/ receiverFailed)
=============================================================================
