------------------------- MODULE MCSessionRegistry --------------------------
(***************************************************************************)
(* Instances of SessionRegistry for TLC: a plugin that anyone can log in   *)
(* to, one with a login (without a password), one with an empty login,     *)
(* which lets nobody in.                                                   *)
(***************************************************************************)
EXTENDS SessionRegistry, TLC

CONSTANT a   \* a text

MCPlugins ==
    {[allowAnonymous |-> TRUE, logins |-> {}],
     [allowAnonymous |-> FALSE, logins |-> {[username |-> a, password |-> NoText]}],
     [allowAnonymous |-> FALSE, logins |-> {[username |-> NoText, password |-> NoText]}]}

Symmetry == Permutations(Ids) \cup Permutations(Contexts)
=============================================================================
