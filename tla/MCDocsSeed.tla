----------------------------- MODULE MCDocsSeed -----------------------------
(* DocsSeed on a small instance: two seeds, one reset, two cards. *)
EXTENDS DocsSeed, TLC

CONSTANTS s1, s2, k1, k2

Symmetric == Permutations({s1, s2}) \cup Permutations({k1, k2})
=============================================================================
