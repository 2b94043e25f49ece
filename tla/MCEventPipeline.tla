--------------------------- MODULE MCEventPipeline ---------------------------
(* TLC instances of EventPipeline. *)
EXTENDS EventPipeline, TLC

CONSTANTS b1, b2, c1, c2, u1, u2, w1, w2

Symmetry == Permutations(Writers) \cup Permutations(Workers) \cup Permutations(Connections)
=============================================================================
