---------------------------- MODULE OrderedLane -----------------------------
(***************************************************************************)
(* What an acknowledged lane promises: the messages the link took from its *)
(* source are delivered whole, once and in the order they were taken.      *)
(***************************************************************************)
EXTENDS Naturals, Sequences

CONSTANTS Lanes, FragCounts  \* sizes of messages, in fragments

VARIABLES
    taken,      \* per lane: the number of fragments of each message, in order
    delivered   \* per lane: the messages delivered, each the sequence of its fragments

WholeMessage(l, m) ==
    [i \in 1 .. taken[l][m] |-> [msg |-> m, index |-> i - 1, count |-> taken[l][m]]]

Take(l) ==
    /\ \E count \in FragCounts : taken' = [taken EXCEPT ![l] = Append(@, count)]
    /\ UNCHANGED delivered

\* One packet may close the gap before several messages
Deliver(l) ==
    /\ \E n \in Len(delivered[l]) + 1 .. Len(taken[l]) :
        delivered' = [delivered EXCEPT ![l] =
            @ \o [i \in 1 .. n - Len(@) |-> WholeMessage(l, Len(@) + i)]]
    /\ UNCHANGED taken

Init == taken = [l \in Lanes |-> <<>>] /\ delivered = [l \in Lanes |-> <<>>]

Next == \E l \in Lanes : Take(l) \/ Deliver(l)

Spec == Init /\ [][Next]_<<taken, delivered>>

\* ... and every message is delivered eventually
FairSpec == Spec /\ \A l \in Lanes : WF_<<taken, delivered>>(Deliver(l))
=============================================================================
