---------------------------- MODULE MCClientItems ----------------------------
(***************************************************************************)
(* Instances of ClientItems for TLC: one subscription with two monitored   *)
(* items, and three contexts for them to share.                            *)
(***************************************************************************)
EXTENDS ClientItems, TLC

CONSTANTS s1, m1, m2

MCParentOf == (m1 :> s1) @@ (m2 :> s1)
Symmetry == Permutations(Contexts) \cup Permutations({m1, m2})
==============================================================================
