------------------------- MODULE OperationAgreement -------------------------
(* What two services promise about an operation that one of them decides and the
   other one follows: it is decided once, and adopted only as it was decided.  *)
CONSTANT Ops
VARIABLES decided, adopted

Outcomes == {"open", "committed", "aborted"}
Init ==
  /\ decided = [o \in Ops |-> "open"]
  /\ adopted = [o \in Ops |-> "open"]
Decide(o) ==
  /\ decided[o] = "open"
  /\ \E outcome \in Outcomes : decided' = [decided EXCEPT ![o] = outcome]
  /\ UNCHANGED adopted
Adopt(o) ==
  /\ adopted[o] = "open"
  /\ adopted' = [adopted EXCEPT ![o] = decided[o]]
  /\ UNCHANGED decided
Spec == Init /\ [][\E o \in Ops : Decide(o) \/ Adopt(o)]_<<decided, adopted>>
=============================================================================
