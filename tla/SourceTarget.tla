---------------------------- MODULE SourceTarget ----------------------------
(* The WeKnora side of source trust: NextcloudSourcePairingRepository, one
   transaction under the knowledge base's lock per operation, and the gates that
   DataSourceService and the database triggers put on the paired source. A
   pairing operation creates the one source that belongs to it.               *)
EXTENDS SourceParameters

VARIABLES
  pairing,   \* nextcloud_source_pairings, "aborted" being its tombstone
  source,    \* status of the pairing's data source
  touched,   \* nextcloud_source_virgin.ever_touched: a sync was admitted once
  turning,   \* nextcloud_source_rotations
  closing    \* nextcloud_source_decommissions, per pairing

targetVars == <<pairing, source, touched, turning, closing>>

PairingRow == [state : {"pending", "active", "aborted"}, key : Keys, epoch : Epochs]
TurningRow == [state : {"pending", "switched", "finalized", "aborted"},
               pair : PairOps, old : Keys]
ClosingRow == [state : {"prepared", "acknowledged"}, key : Keys, epoch : Epochs]

TargetInit ==
  /\ pairing = [p \in PairOps |-> Absent]
  /\ source = [p \in PairOps |-> "none"]
  /\ touched = [p \in PairOps |-> FALSE]
  /\ turning = [r \in RotOps |-> Absent]
  /\ closing = [p \in PairOps |-> Absent]

TargetTypeOK ==
  /\ pairing \in [PairOps -> PairingRow \cup {Absent}]
  /\ source \in [PairOps -> {"none", "paused", "active"}]
  /\ touched \in [PairOps -> BOOLEAN]
  /\ turning \in [RotOps -> TurningRow \cup {Absent}]
  /\ closing \in [PairOps -> ClosingRow \cup {Absent}]

LiveTurning(p) ==
  \E r \in RotOps : turning[r].state \in {"pending", "switched"} /\ turning[r].pair = p

----------------------------------------------------------------------------
(* Pairing *)

(* PrepareSourcePairing: no other source reads this binding *)
PrepareSourcePairing(p, epoch) ==
  /\ pairing[p] = Absent
  /\ \A q \in PairOps : source[q] = "none"
  /\ pairing' = [pairing EXCEPT ![p] = [state |-> "pending", key |-> p, epoch |-> epoch]]
  /\ source' = [source EXCEPT ![p] = "paused"]
  /\ UNCHANGED <<touched, turning, closing>>

ActivateSourcePairing(p) ==
  /\ pairing[p].state = "pending" /\ source[p] = "paused"
  /\ pairing' = [pairing EXCEPT ![p].state = "active"]
  /\ source' = [source EXCEPT ![p] = "active"]
  /\ UNCHANGED <<touched, turning, closing>>

AbortPendingSourcePairing(p) ==
  /\ pairing[p].state = "pending" /\ source[p] = "paused" /\ ~touched[p]
  /\ pairing' = [pairing EXCEPT ![p].state = "aborted"]
  /\ source' = [source EXCEPT ![p] = "none"]
  /\ UNCHANGED <<touched, turning, closing>>

----------------------------------------------------------------------------
(* Rotation *)

PrepareSourceRotation(p, r) ==
  /\ turning[r] = Absent
  /\ pairing[p].state = "active" /\ source[p] = "active"
  /\ ~LiveTurning(p)
  /\ turning' = [turning EXCEPT ![r] = [state |-> "pending", pair |-> p, old |-> pairing[p].key]]
  /\ UNCHANGED <<pairing, source, touched, closing>>

SwitchSourceRotation(r) ==
  /\ turning[r].state = "pending"
  /\ LET p == turning[r].pair IN
       /\ source[p] = "active" /\ pairing[p].key = turning[r].old
       /\ pairing' = [pairing EXCEPT ![p].key = r]
  /\ turning' = [turning EXCEPT ![r].state = "switched"]
  /\ UNCHANGED <<source, touched, closing>>
(* Repeated by a handler that read the row before another one switched it *)
AlreadySwitched(r) ==
  /\ turning[r].state \in {"switched", "finalized"}
  /\ source[turning[r].pair] = "active" /\ pairing[turning[r].pair].key = r

FinalizeSourceRotation(r) ==
  /\ turning[r].state = "switched"
  /\ turning' = [turning EXCEPT ![r].state = "finalized"]
  /\ UNCHANGED <<pairing, source, touched, closing>>

AbortSourceRotation(r) ==
  /\ turning[r].state = "pending"
  /\ pairing[turning[r].pair].key = turning[r].old
  /\ turning' = [turning EXCEPT ![r].state = "aborted"]
  /\ UNCHANGED <<pairing, source, touched, closing>>

----------------------------------------------------------------------------
(* Decommission *)

BeginEmptySourceDecommission(p, epoch) ==
  /\ pairing[p].state = "active"
  /\ closing[p] = Absent
  /\ ~touched[p] /\ ~LiveTurning(p)
  /\ source' = [source EXCEPT ![p] = "paused"]
  /\ closing' = [closing EXCEPT ![p] =
       [state |-> "prepared", key |-> pairing[p].key, epoch |-> epoch]]
  /\ UNCHANGED <<pairing, touched, turning>>

RecordEmptyDecommissionAck(p) ==
  /\ closing[p].state = "prepared"
  /\ closing' = [closing EXCEPT ![p].state = "acknowledged"]
  /\ UNCHANGED <<pairing, source, touched, turning>>

----------------------------------------------------------------------------
(* The source in daily use *)

NotGuarded(p) == TRUE  \* mutant: no trigger looks for the decommission row
NotClosing(p) == closing[p] = Absent

(* ManualSync and the scheduler: the sync log's insert burns the virgin mark *)
AdmitSync(p) ==
  /\ pairing[p].state = "active"
  /\ source[p] \in {"active", "paused"}
  /\ NotClosing(p)
  /\ touched' = [touched EXCEPT ![p] = TRUE]
  /\ UNCHANGED <<pairing, source, turning, closing>>
PauseSource(p) ==
  /\ source[p] = "active"
  /\ source' = [source EXCEPT ![p] = "paused"]
  /\ UNCHANGED <<pairing, touched, turning, closing>>
ResumeDataSource(p) ==
  /\ pairing[p].state = "active" /\ source[p] = "paused"
  /\ NotClosing(p)
  /\ source' = [source EXCEPT ![p] = "active"]
  /\ UNCHANGED <<pairing, touched, turning, closing>>

UsingSource == \E p \in PairOps : AdmitSync(p) \/ PauseSource(p) \/ ResumeDataSource(p)
=============================================================================
