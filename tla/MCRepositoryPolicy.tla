------------------------- MODULE MCRepositoryPolicy -------------------------
(* RepositoryPolicy on a small instance: two runs, a PR of two commits. *)
EXTENDS RepositoryPolicy, TLC

CONSTANTS r1, r2, h1, h2

Symmetric == Permutations({r1, r2}) \cup Permutations({h1, h2})
=============================================================================
