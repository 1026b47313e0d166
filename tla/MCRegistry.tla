----------------------------- MODULE MCRegistry -----------------------------
(* Two app servers, three links, one account.                              *)
EXTENDS Registry, TLC

CONSTANTS a1, a2, c1, c2, c3, x

Symmetry == Permutations({a1, a2}) \cup Permutations({c1, c2, c3})

=============================================================================
