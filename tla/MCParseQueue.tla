---------------------------- MODULE MCParseQueue ----------------------------
(* Small instances of ParseQueue for TLC.                                  *)
EXTENDS ParseQueue, TLC

CONSTANTS a1, a2, w1, w2, r1, r2, s1, s2

Symmetry == Permutations({r1, r2}) \cup Permutations({w1, w2})

=============================================================================
