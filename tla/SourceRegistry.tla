--------------------------- MODULE SourceRegistry ---------------------------
(* The Nextcloud side of source trust: BindingRegistryService (publication state
   and removal), SourcePairingRegistryService, MachineKeyRegistryService and
   SourceDecommissionService. Every operation is one transaction that holds the
   weknora_bind_lock row, so each is one action.                              *)
EXTENDS SourceParameters

VARIABLES
  binding,      \* publication_state ("retired" once retired_at is set) and epoch
  keys,         \* weknora_machine_key: absent, live, in its grace period, expired
  pairs,        \* weknora_src_pair
  rotations,    \* weknora_src_pair_rot; the new key has the operation's name
  decommission  \* weknora_src_decom; one operation, its repeats change nothing

registryVars == <<binding, keys, pairs, rotations, decommission>>

PairRow == [state : {"pending", "active", "aborted", "retired"}, key : Keys, epoch : Epochs]
RotationRow == [state : {"pending", "committed", "finalized", "aborted", "retired"},
                pair : PairOps, old : Keys, epoch : Epochs]
DecommissionRow == [state : {"prepared", "acknowledged", "finalized"},
                    pair : PairOps, key : Keys, epoch : Epochs]

RegistryInit ==
  /\ binding = [state |-> "active", epoch |-> 0]
  /\ keys = [k \in Keys |-> "absent"]
  /\ pairs = [p \in PairOps |-> Absent]
  /\ rotations = [r \in RotOps |-> Absent]
  /\ decommission = Absent

RegistryTypeOK ==
  /\ binding \in [state : {"active", "stopped", "retired"}, epoch : Epochs]
  /\ keys \in [Keys -> {"absent", "live", "grace", "expired"}]
  /\ pairs \in [PairOps -> PairRow \cup {Absent}]
  /\ rotations \in [RotOps -> RotationRow \cup {Absent}]
  /\ decommission \in DecommissionRow \cup {Absent}

----------------------------------------------------------------------------
(* Helpers *)

Published == binding.state = "active"
Accepted(k) == keys[k] \in {"live", "grace"}          \* MachineKeyRegistryService::find
LivePairs == {p \in PairOps : pairs[p].state \in {"pending", "active"}}
LiveRotations == {r \in RotOps : rotations[r].state \in {"pending", "committed"}}
Rotating(p) == \E r \in LiveRotations : rotations[r].pair = p
CurrentPair(p) == pairs[p].state = "active" /\ Published /\ Accepted(pairs[p].key)

----------------------------------------------------------------------------
(* Publication state. setPublicationState also is the first of the two
   transactions of a decommission's begin, and stopUnsafeBinding a stop. *)

Toggle(state) ==
  /\ binding.epoch < MaxEpoch
  /\ binding' = [state |-> state, epoch |-> binding.epoch + 1]
  /\ UNCHANGED <<keys, pairs, rotations, decommission>>
Stop == Published /\ Toggle("stopped")
MayResumeAnyway == TRUE  \* mutant: resume does not look for a decommission
MayResume == decommission = Absent
Resume == binding.state = "stopped" /\ MayResume /\ Toggle("active")

----------------------------------------------------------------------------
(* Machine keys *)

IssueKey(k) ==
  /\ Published
  /\ k \in SpareKeys /\ keys[k] = "absent"
  /\ keys' = [keys EXCEPT ![k] = "live"]
  /\ UNCHANGED <<binding, pairs, rotations, decommission>>

(* revoke: a key of a pairing or of an unfinished rotation follows its lifecycle *)
HeldByOperation(k) ==
  \/ \E p \in PairOps : pairs[p].state \in {"pending", "active", "aborted"} /\ pairs[p].key = k
  \/ \E r \in LiveRotations : k \in {r, rotations[r].old}
RevokeKey(k) ==
  /\ binding.state # "retired"
  /\ keys[k] # "absent" /\ ~HeldByOperation(k)
  /\ keys' = [keys EXCEPT ![k] = "absent"]
  /\ UNCHANGED <<binding, pairs, rotations, decommission>>

(* 24 hours after a committed rotation, expires_at of the old key passes. *)
GraceEnds(k) ==
  /\ keys[k] = "grace"
  /\ keys' = [keys EXCEPT ![k] = "expired"]
  /\ UNCHANGED <<binding, pairs, rotations, decommission>>

----------------------------------------------------------------------------
(* Pairing and rotation, the administrator's side *)

PreparePair(p) ==
  /\ Published
  /\ pairs[p] = Absent
  /\ LivePairs = {}
  /\ keys' = [keys EXCEPT ![p] = "live"]
  /\ pairs' = [pairs EXCEPT ![p] = [state |-> "pending", key |-> p, epoch |-> binding.epoch]]
  /\ UNCHANGED <<binding, rotations, decommission>>

(* abortPendingRow: the expired key stays, to authenticate a repeated abort *)
ClosePairKeepingKey(p) ==  \* mutant: the key of an aborted pair stays valid
  /\ pairs' = [pairs EXCEPT ![p].state = "aborted"] /\ keys' = keys
ClosePair(p) ==
  /\ pairs' = [pairs EXCEPT ![p].state = "aborted"]
  /\ keys' = [keys EXCEPT ![pairs[p].key] = "expired"]
AbortPair(p) ==
  /\ pairs[p].state = "pending"
  /\ ClosePair(p)
  /\ UNCHANGED <<binding, rotations, decommission>>

PrepareRotation(r) ==
  /\ rotations[r] = Absent
  /\ \E p \in PairOps :
       /\ CurrentPair(p) /\ ~Rotating(p)
       /\ rotations' = [rotations EXCEPT ![r] =
            [state |-> "pending", pair |-> p, old |-> pairs[p].key, epoch |-> binding.epoch]]
  /\ keys' = [keys EXCEPT ![r] = "live"]
  /\ UNCHANGED <<binding, pairs, decommission>>

CloseRotationCancelled(r) ==  \* mutant: a state the table does not know
  /\ rotations' = [rotations EXCEPT ![r].state = "cancelled"]
  /\ keys' = [keys EXCEPT ![r] = "absent"]
CloseRotation(r) ==
  /\ rotations' = [rotations EXCEPT ![r].state = "aborted"]
  /\ keys' = [keys EXCEPT ![r] = "absent"]
StillAbortable == {"pending", "committed"}  \* mutant: a committed rotation may be aborted
Abortable == {"pending"}
AbortRotation(r) ==
  /\ rotations[r].state \in Abortable
  /\ CloseRotation(r)
  /\ UNCHANGED <<binding, pairs, decommission>>

----------------------------------------------------------------------------
(* Decommission, the administrator's side *)

(* The second transaction of begin *)
ExactPair(p) == pairs[p].state = "active" /\ ~Rotating(p) /\ keys[pairs[p].key] = "live"
BeginDecommission(p) ==
  /\ binding.state = "stopped"
  /\ decommission = Absent
  /\ ExactPair(p)
  /\ decommission' = [state |-> "prepared", pair |-> p, key |-> pairs[p].key,
                      epoch |-> binding.epoch]
  /\ UNCHANGED <<binding, keys, pairs, rotations>>

(* BindingRegistryService::remove; what was live becomes retired *)
Retire ==
  /\ binding' = [binding EXCEPT !.state = "retired"]
  /\ keys' = [k \in Keys |-> "absent"]
  /\ pairs' = [p \in PairOps |->
       IF p \in LivePairs THEN [pairs[p] EXCEPT !.state = "retired"] ELSE pairs[p]]
  /\ rotations' = [r \in RotOps |->
       IF r \in LiveRotations THEN [rotations[r] EXCEPT !.state = "retired"] ELSE rotations[r]]
NoLivePair == LivePairs = {}  \* mutant: an aborted pairing does not block a removal
NeverPaired == \A p \in PairOps : pairs[p] = Absent
RemoveUnpaired ==
  /\ binding.state # "retired"
  /\ NeverPaired
  /\ Retire
  /\ UNCHANGED decommission
SamePair == LET p == decommission.pair IN
  pairs[p].state = "active" /\ pairs[p].key = decommission.key
FinalizeDecommission ==
  /\ binding.state = "stopped"
  /\ decommission.state = "acknowledged"
  /\ SamePair /\ decommission.epoch = binding.epoch
  /\ Retire
  /\ decommission' = [decommission EXCEPT !.state = "finalized"]

----------------------------------------------------------------------------
(* Signed machine requests. PairedServiceToken accepts a live key, and for a
   repeated abort the expired key of the aborted pair. *)

AbortVerifier(m) ==
  m.kind = "abort" /\ keys[m.key] = "expired" /\ pairs[m.op].state = "aborted"
Authentic(m) == Accepted(m.key) \/ AbortVerifier(m)

(* commit *)
PreparedNow(p) == pairs[p].state = "pending" => pairs[p].epoch = binding.epoch
CommitsPair(m) ==
  /\ m.kind = "commit"
  /\ pairs[m.op].state \in {"pending", "active"} /\ pairs[m.op].key = m.key
  /\ Published /\ PreparedNow(m.op)

(* abortMachine: also while publication is stopped *)
AbortsLivePair(m) ==  \* mutant: an active pair is aborted too
  /\ m.kind = "abort"
  /\ pairs[m.op].state \in {"pending", "active", "aborted"} /\ pairs[m.op].key = m.key
AbortsPair(m) ==
  /\ m.kind = "abort"
  /\ pairs[m.op].state \in {"pending", "aborted"} /\ pairs[m.op].key = m.key

(* advanceRotation and abortRotationMachine *)
SameRotation(m) ==
  m.kind \in {"rotate", "finalize", "unrotate"} /\ rotations[m.op] # Absent
    /\ rotations[m.op].pair = m.pair /\ pairs[m.pair].state = "active" /\ Published
CommitsRotation(m) ==
  /\ m.kind = "rotate" /\ SameRotation(m) /\ m.key = m.op
  /\ rotations[m.op].state = "pending" /\ rotations[m.op].epoch = binding.epoch
  /\ pairs[m.pair].key = rotations[m.op].old /\ Accepted(rotations[m.op].old)
FinalizesRotation(m) ==
  /\ m.kind = "finalize" /\ SameRotation(m) /\ m.key = m.op
  /\ rotations[m.op].state = "committed" /\ pairs[m.pair].key = m.key
RepeatsRotation(m) ==
  /\ m.kind \in {"rotate", "finalize"} /\ SameRotation(m) /\ m.key = m.op
  /\ pairs[m.pair].key = m.key
  /\ \/ rotations[m.op].state = "finalized"
     \/ rotations[m.op].state = "committed" /\ m.kind = "rotate"
AbortsRotationLate(m) ==  \* mutant: a committed rotation is aborted by a late request
  /\ m.kind = "unrotate" /\ SameRotation(m) /\ m.key = rotations[m.op].old
  /\ rotations[m.op].state \in {"pending", "committed", "aborted"} /\ Accepted(m.key)
AbortsRotation(m) ==
  /\ m.kind = "unrotate" /\ SameRotation(m) /\ m.key = rotations[m.op].old
  /\ pairs[m.pair].key = m.key
  /\ rotations[m.op].state \in {"pending", "aborted"} /\ Accepted(m.key)

(* acknowledge *)
Acknowledges(m) ==
  /\ m.kind = "acknowledge"
  /\ decommission.state \in {"prepared", "acknowledged"}
  /\ decommission.pair = m.op /\ decommission.key = m.key /\ decommission.epoch = m.epoch
  /\ binding.state = "stopped" /\ SamePair

Granted(m) ==
  /\ Authentic(m)
  /\ \/ CommitsPair(m) \/ AbortsPair(m) \/ CommitsRotation(m) \/ FinalizesRotation(m)
     \/ RepeatsRotation(m) \/ AbortsRotation(m) \/ Acknowledges(m)

(* What a commit does to the keys *)
GraceForOld(m) == [keys EXCEPT ![rotations[m.op].old] = "grace"]
DeleteOld(m) == [keys EXCEPT ![rotations[m.op].old] = "absent"]

Serve(m) ==
  \/ /\ ~Granted(m)
     /\ UNCHANGED registryVars
  \/ /\ Granted(m) /\ CommitsPair(m)
     /\ pairs' = [pairs EXCEPT ![m.op].state = "active"]
     /\ UNCHANGED <<binding, keys, rotations, decommission>>
  \/ /\ Granted(m) /\ AbortsPair(m)
     /\ IF pairs[m.op].state # "aborted" THEN ClosePair(m.op) ELSE UNCHANGED <<keys, pairs>>
     /\ UNCHANGED <<binding, rotations, decommission>>
  \/ /\ Granted(m) /\ CommitsRotation(m)
     /\ keys' = GraceForOld(m)
     /\ pairs' = [pairs EXCEPT ![m.pair].key = m.key]
     /\ rotations' = [rotations EXCEPT ![m.op].state = "committed"]
     /\ UNCHANGED <<binding, decommission>>
  \/ /\ Granted(m) /\ FinalizesRotation(m)
     /\ keys' = DeleteOld(m)
     /\ rotations' = [rotations EXCEPT ![m.op].state = "finalized"]
     /\ UNCHANGED <<binding, pairs, decommission>>
  \/ /\ Granted(m) /\ RepeatsRotation(m)
     /\ UNCHANGED registryVars
  \/ /\ Granted(m) /\ AbortsRotation(m)
     /\ CloseRotation(m.op)
     /\ UNCHANGED <<binding, pairs, decommission>>
  \/ /\ Granted(m) /\ Acknowledges(m)
     /\ decommission' = [decommission EXCEPT !.state = "acknowledged"]
     /\ UNCHANGED <<binding, keys, pairs, rotations>>

(* The state of the operation that the response carries *)
AnswerTo(m) ==
  IF ~Granted(m) THEN "refused"
  ELSE IF m.kind \in {"commit", "abort"} THEN pairs'[m.op].state
  ELSE IF m.kind = "acknowledge" THEN decommission'.state
  ELSE rotations'[m.op].state

Administering ==
  \/ Stop \/ Resume \/ RemoveUnpaired \/ FinalizeDecommission
  \/ \E k \in Keys : IssueKey(k) \/ RevokeKey(k) \/ GraceEnds(k)
  \/ \E p \in PairOps : PreparePair(p) \/ AbortPair(p) \/ BeginDecommission(p)
  \/ \E r \in RotOps : PrepareRotation(r) \/ AbortRotation(r)
=============================================================================
