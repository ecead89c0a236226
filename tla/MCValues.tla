------------------------------ MODULE MCValues ------------------------------
(***************************************************************************)
(* Instances of Values for TLC.  Objects of one kind are interchangeable.  *)
(***************************************************************************)
EXTENDS Values, TLC

Symmetry == Permutations(Strings) \cup Permutations(Variants)
            \cup Permutations(Texts) \cup Permutations(Blocks)
=============================================================================
