--------------------------- MODULE LinkParameters ---------------------------
(***************************************************************************)
(* What the two halves of a ReliableLink share: the acknowledged lanes,    *)
(* their windows, the packets and the serials of the Acks.                 *)
(***************************************************************************)
EXTENDS SequenceBuffer

CONSTANTS
    Lanes,       \* the acknowledged lanes in use
    Window,      \* windowOf(lane), a power of two
    SerialSpan   \* number of Ack serials, 2^32 in the code

ASSUME LinkAssumption ==
    /\ Lanes \subseteq {"Control", "Reliable", "Bulk"}
    /\ Window \in [Lanes -> Nat \ {0}]
    /\ SerialSpan \in Nat \ {0}

\* Fragment index (from 0) of count of the lane's msg-th message
Fragments == [msg : Nat, index : Nat, count : Nat]

Packets == [lane : Lanes, seq : Nat, frag : Fragments]

\* ranges: the seqs the ranges of the Ack stand for
Acks == [lane : Lanes, serial : 0 .. SerialSpan - 1, seq : Nat, ranges : SUBSET Nat,
         paused : BOOLEAN]

serialDistance(a, b) == (a - b) % SerialSpan

\* Mutant: every Ack counts as the latest
anyOrder(a, b) == TRUE

\* static_cast<int32_t>(a - b) > 0 on unsigned serials
SerialAfter(a, b) == 2 * serialDistance(a, b) \in 1 .. SerialSpan - 1
=============================================================================
