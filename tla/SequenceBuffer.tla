--------------------------- MODULE SequenceBuffer ---------------------------
(***************************************************************************)
(* The ring of slots in which both ends of an acknowledged lane keep the   *)
(* packets of their window (Channel/Queue/SequenceBuffer.h). A buffer is a *)
(* function from the seqs it holds to their entries. Two seqs that are a   *)
(* capacity apart share a slot, and the ring keeps only the newer one.     *)
(***************************************************************************)
EXTENDS Integers

\* index(): seq & (capacity - 1), the capacity being a power of two
Slot(seq, capacity) == seq % capacity

\* insert(): replaces whatever occupied the slot, whichever seq that was
Insert(buffer, capacity, seq, value) ==
    [s \in {t \in DOMAIN buffer : Slot(t, capacity) # Slot(seq, capacity)} \cup {seq} |->
        IF s = seq THEN value ELSE buffer[s]]

\* take() and erase(), for each seq of a set
Without(buffer, seqs) == [s \in DOMAIN buffer \ seqs |-> buffer[s]]

EmptyBuffer == [s \in {} |-> s]
=============================================================================
