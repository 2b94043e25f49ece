-------------------------- MODULE SourceParameters --------------------------
(* The parameters shared by both ends of the source-trust protocol. One folder
   binding is modelled: locks, operations and keys of two bindings never meet. *)
EXTENDS Naturals, FiniteSets

CONSTANTS
  PairOps,    \* pairing operation ids; one also names its first key, pair_<id>
  RotOps,     \* rotation operation ids; one also names its new key, rot_<id>
  SpareKeys,  \* key ids an administrator issues outside any pairing
  MaxEpoch    \* bound on publication_epoch, the number of stops and resumes

ASSUME SourceAssumption ==
  /\ MaxEpoch \in Nat
  /\ PairOps \cap RotOps = {} /\ PairOps \cap SpareKeys = {} /\ RotOps \cap SpareKeys = {}

Keys == PairOps \cup RotOps \cup SpareKeys
Epochs == 0..MaxEpoch
Absent == [state |-> "absent"]

(* A signed machine request from WeKnora, named by the operation it asks for. *)
MachineRequest ==
  [kind : {"commit", "abort"}, op : PairOps, key : Keys]
  \cup [kind : {"rotate", "finalize", "unrotate"}, op : RotOps, pair : PairOps, key : Keys]
  \cup [kind : {"acknowledge"}, op : PairOps, key : Keys, epoch : Epochs]
=============================================================================
