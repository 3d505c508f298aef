---------------------------- MODULE MCEngineLoop ----------------------------
(* Small instances of EngineLoop for TLC *)
EXTENDS EngineLoop, TLC

CallerSymmetry == Permutations(Callers)
=============================================================================
