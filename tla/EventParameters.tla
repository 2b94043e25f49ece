--------------------------- MODULE EventParameters ---------------------------
(* The parameters shared by both ends of the change-event pipeline. *)
EXTENDS Integers, FiniteSets, FiniteSetsExt

CONSTANTS
  Bindings,     \* binding ids
  Connections,  \* receiver connection ids
  Writers,      \* request and job processes that append hints
  Workers,      \* processes that run EventDeliveryService::deliverDue
  NoOne,        \* no process, no connection, no binding
  MaxId,        \* bound on the auto-increment counter
  MaxKey,       \* bound on the keys one connection ever has
  PageSize,     \* PAGE_SIZE together with the request body limit
  PruneBatch,   \* PRUNE_BATCH_SIZE
  Types,        \* kinds of hints: "hint" for every file event, "reconcile"
  Disruptions   \* the failures and revocations that may happen in this instance

ASSUME ParameterAssumption ==
  /\ MaxId \in Nat /\ MaxKey \in Nat \ {0}
  /\ PageSize \in Nat \ {0} /\ PruneBatch \in Nat \ {0}
  /\ Types \subseteq {"hint", "reconcile"}
  /\ NoOne \notin Connections /\ NoOne \notin Writers
  /\ NoOne \notin Workers /\ NoOne \notin Bindings

Ids == 1..MaxId
=============================================================================
