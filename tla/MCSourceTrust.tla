---------------------------- MODULE MCSourceTrust ----------------------------
(* TLC instances of SourceTrust. *)
EXTENDS SourceTrust, TLC

CONSTANTS p1, p2, r1, r2, k1, h1, h2

Symmetry == Permutations(PairOps) \cup Permutations(RotOps) \cup Permutations(Handlers)
=============================================================================
