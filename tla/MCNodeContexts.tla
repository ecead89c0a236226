--------------------------- MODULE MCNodeContexts ---------------------------
(***************************************************************************)
(* Instances of NodeContexts for TLC.  Threads, contexts and objects are   *)
(* interchangeable.                                                        *)
(***************************************************************************)
EXTENDS NodeContexts, TLC

Symmetry == Permutations(Threads) \cup Permutations(Contexts) \cup Permutations(Objects)
============================================================================
