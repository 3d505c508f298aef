----------------------------- MODULE MCSession ------------------------------
(* Small instances of Session for TLC *)
EXTENDS Session

\* How many commands one step finds
OneCommand == [e \in Engines |-> 1]
TwoCommands == [e \in Engines |-> 2]
TwoForTheHigherID == [e \in Engines |-> IF \E f \in Engines : f > e THEN 1 ELSE 2]
=============================================================================
