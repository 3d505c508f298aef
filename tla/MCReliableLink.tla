--------------------------- MODULE MCReliableLink ---------------------------
(* Small instances of ReliableLink for TLC *)
EXTENDS ReliableLink

SmallWindow == [l \in Lanes |-> 2]
=============================================================================
