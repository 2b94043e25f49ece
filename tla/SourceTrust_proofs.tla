------------------------ MODULE SourceTrust_proofs ------------------------
(* Proofs about source trust, for any number of pairing and rotation operations,
   keys, handlers, lost exchanges, stops and resumes. *)
EXTENDS SourceTrust, TLAPS

----------------------------------------------------------------------------
(* Nextcloud's registry, whatever it is asked *)

OpKeys == PairOps \cup RotOps
Carried == {"committed", "finalized"}       \* a rotation Nextcloud carried out

(* A usable key belongs to an operation, and operations not begun have none. *)
KeyInv ==
  /\ \A k \in PairOps : keys[k] = "live" => \E p \in LivePairs : pairs[p].key = k
  /\ \A r \in RotOps : keys[r] = "live" =>
       rotations[r].state = "pending" \/ \E p \in LivePairs : pairs[p].key = r
  /\ \A k \in OpKeys : keys[k] = "grace" =>
       \E r \in RotOps : rotations[r].state = "committed" /\ rotations[r].old = k
  /\ \A p \in PairOps : pairs[p].state = "absent" => keys[p] = "absent"
  /\ \A r \in RotOps : rotations[r].state = "absent" => keys[r] = "absent"

(* One pair at a time; its key is its own or a rotation's, and it is valid. *)
PairInv ==
  /\ \A p \in PairOps :
       /\ pairs[p].state \in {"pending", "aborted"} => pairs[p].key = p
       /\ pairs[p].state \in {"pending", "active"} => keys[pairs[p].key] = "live"
       /\ pairs[p].state \in {"active", "retired"} =>
            \/ pairs[p].key = p
            \/ /\ pairs[p].key \in RotOps /\ rotations[pairs[p].key].state \in Carried
               /\ rotations[pairs[p].key].pair = p
  /\ \A p, q \in PairOps :
       pairs[p].state \in {"pending", "active", "retired"}
         /\ pairs[q].state \in {"pending", "active", "retired"} => p = q

(* One unfinished rotation at a time, of the active pair *)
RotationInv ==
  /\ \A r \in RotOps :
       /\ rotations[r].state # "retired"
       /\ rotations[r].state # "absent" =>
            /\ pairs[rotations[r].pair].state \in {"active", "retired"}
            /\ rotations[r].old \in OpKeys \ {r}
            /\ rotations[r].old \in RotOps => rotations[rotations[r].old].state \in Carried
       /\ rotations[r].state = "pending" =>
            /\ pairs[rotations[r].pair].state = "active"
            /\ keys[r] = "live" /\ pairs[rotations[r].pair].key = rotations[r].old
       /\ rotations[r].state = "committed" =>
            /\ pairs[rotations[r].pair].state = "active"
            /\ pairs[rotations[r].pair].key = r
            /\ keys[rotations[r].old] \in {"grace", "expired"}
  /\ \A r, s \in RotOps :
       rotations[r].state \in {"pending", "committed"}
         /\ rotations[s].state \in {"pending", "committed"} => r = s

(* Removal takes everything with it, a decommission under way lets nothing move. *)
ClosureInv ==
  /\ binding.state = "retired" =>
       /\ LivePairs = {}
       /\ NeverPaired \/ decommission.state = "finalized"
  /\ \A p \in PairOps : pairs[p].state = "retired" => binding.state = "retired"
  /\ decommission.state \in {"prepared", "acknowledged"} =>
       /\ binding.state = "stopped" /\ binding.epoch = decommission.epoch
       /\ pairs[decommission.pair].state = "active"
       /\ LiveRotations = {}
  /\ decommission.state = "finalized" => binding.state = "retired"
  /\ decommission.state # "absent" =>
       /\ pairs[decommission.pair].state \in {"active", "retired"}
       /\ pairs[decommission.pair].key = decommission.key

(* What the types say of a row, by its state *)
RegistryRows ==
  /\ binding.state \in {"active", "stopped", "retired"}
  /\ \A p \in PairOps :
       /\ pairs[p].state \in {"absent", "pending", "active", "aborted", "retired"}
       /\ pairs[p].state = "absent" <=> pairs[p] = Absent
       /\ pairs[p].state # "absent" => pairs[p] \in PairRow /\ pairs[p].key \in Keys
  /\ \A r \in RotOps :
       /\ rotations[r].state \in {"absent", "pending", "committed", "finalized", "aborted", "retired"}
       /\ rotations[r].state = "absent" <=> rotations[r] = Absent
       /\ rotations[r].state # "absent" =>
            rotations[r] \in RotationRow /\ rotations[r].pair \in PairOps
               /\ rotations[r].old \in Keys
  /\ decommission.state \in {"absent", "prepared", "acknowledged", "finalized"}
  /\ decommission.state = "absent" <=> decommission = Absent
  /\ decommission.state # "absent" =>
       /\ decommission \in DecommissionRow
       /\ decommission.pair \in PairOps /\ decommission.key \in Keys

RegistryInv == KeyInv /\ PairInv /\ RotationInv /\ ClosureInv

----------------------------------------------------------------------------
(* WeKnora's rows, whatever its handlers are told *)

(* One source at most, where a pairing is unfinished or active; one being closed
   is paused, was never synced and is not in a rotation. *)
SourceInv ==
  /\ \A p \in PairOps :
       /\ source[p] # "none" <=> pairing[p].state \in {"pending", "active"}
       /\ pairing[p].state = "pending" => pairing[p].key = p
       /\ pairing[p].state # "absent" =>
            \/ pairing[p].key = p
            \/ /\ pairing[p].key \in RotOps
               /\ turning[pairing[p].key].state \in {"switched", "finalized"}
       /\ closing[p].state # "absent" =>
            /\ pairing[p].state = "active" /\ source[p] = "paused" /\ ~touched[p]
            /\ ~LiveTurning(p)
  /\ \A p, q \in PairOps : source[p] # "none" /\ source[q] # "none" => p = q

(* One unfinished rotation per active pairing *)
TurningInv ==
  /\ \A r \in RotOps :
       /\ turning[r].state # "absent" => pairing[turning[r].pair].state = "active"
       /\ turning[r].state = "pending" => pairing[turning[r].pair].key = turning[r].old
  /\ \A r, s \in RotOps :
       turning[r].state \in {"pending", "switched"}
          /\ turning[s].state \in {"pending", "switched"}
         /\ turning[r].pair = turning[s].pair => r = s

TargetInv == SourceInv /\ TurningInv

TargetRows ==
  /\ \A p \in PairOps :
       /\ pairing[p].state \in {"absent", "pending", "active", "aborted"}
       /\ pairing[p].state = "absent" <=> pairing[p] = Absent
       /\ pairing[p].state # "absent" => pairing[p] \in PairingRow /\ pairing[p].key \in Keys
       /\ closing[p].state \in {"absent", "prepared", "acknowledged"}
       /\ closing[p].state = "absent" <=> closing[p] = Absent
       /\ closing[p].state # "absent" => closing[p] \in ClosingRow
       /\ source[p] \in {"none", "paused", "active"}
  /\ \A r \in RotOps :
       /\ turning[r].state \in {"absent", "pending", "switched", "finalized", "aborted"}
       /\ turning[r].state = "absent" <=> turning[r] = Absent
       /\ turning[r].state # "absent" =>
          turning[r] \in TurningRow /\ turning[r].pair \in PairOps

----------------------------------------------------------------------------
(* The two sides and what is between them *)

(* What WeKnora's rows say of Nextcloud's *)
RowsInv ==
  /\ \A p \in PairOps :
       /\ pairing[p].state # "absent" => pairs[p].state # "absent"
       /\ pairing[p].state = "active" => pairs[p].state \in {"active", "retired"}
       /\ pairing[p].state = "aborted" => pairs[p].state = "aborted"
  /\ \A r \in RotOps :
       /\ turning[r].state # "absent" =>
            rotations[r].state # "absent" /\ rotations[r].pair = turning[r].pair
       /\ turning[r].state \in {"switched", "finalized"} => rotations[r].state \in Carried
       /\ turning[r].state = "finalized" => rotations[r].state = "finalized"
       /\ turning[r].state = "aborted" => rotations[r].state = "aborted"
       /\ rotations[r].state \in Carried => turning[r].state # "absent"
       /\ rotations[r].state = "finalized" => turning[r].state \in {"switched", "finalized"}

(* The key of the source is the pair's, or a rotation's turn away from it. *)
KeyInStep(p) ==
  \/ pairs[p].key = pairing[p].key
  \/ \E r \in RotOps :
       /\ turning[r].state = "pending" /\ turning[r].pair = p
       /\ rotations[r].state = "committed" /\ rotations[r].old = pairing[p].key
       /\ pairs[p].key = r
KeysInv == \A p \in PairOps : pairing[p].state = "active" => KeyInStep(p)

ClosingInv ==
  /\ \A p \in PairOps : closing[p].state # "absent" =>
       /\ decommission.state # "absent" /\ decommission.pair = p
       /\ closing[p].epoch = decommission.epoch
       /\ pairing[p].key = decommission.key
  /\ decommission.state \in {"acknowledged", "finalized"} =>
       closing[decommission.pair].state # "absent"

(* A request, pending or late, was sent by a row that is still there. *)
Sent(m) ==
  /\ m.kind \in {"rotate", "finalize"} =>
       turning[m.op].state # "absent" /\ turning[m.op].pair = m.pair
  /\ m.kind = "finalize" => turning[m.op].state \in {"switched", "finalized"}
  /\ m.kind = "acknowledge" => closing[m.op].state # "absent"

(* What an answer says was decided and stays decided. *)
True(m, answer) ==
  /\ m.kind = "commit" /\ answer = "active" => pairs[m.op].state \in {"active", "retired"}
  /\ m.kind = "abort" /\ answer = "aborted" => pairs[m.op].state = "aborted"
  /\ m.kind = "rotate" /\ answer \in Carried => rotations[m.op].state \in Carried
  /\ m.kind = "finalize" /\ answer = "finalized" => rotations[m.op].state = "finalized"
  /\ m.kind = "unrotate" /\ answer = "aborted" => rotations[m.op].state = "aborted"

MessageInv ==
  /\ \A m \in late : Sent(m)
  /\ \A h \in Handlers : handler[h].pc # "idle" => Sent(handler[h].msg)
  /\ \A h \in Handlers : handler[h].pc = "answered" => True(handler[h].msg, handler[h].answer)

IInv ==
  /\ TypeOK /\ RegistryInv /\ TargetInv
  /\ RowsInv /\ KeysInv /\ ClosingInv /\ MessageInv

----------------------------------------------------------------------------
(* The registry keeps its invariant. *)

LEMMA RowsOf == ASSUME RegistryTypeOK PROVE RegistryRows
<1>1. /\ binding.state \in {"active", "stopped", "retired"}
  BY DEF RegistryTypeOK
<1>2. ASSUME NEW p \in PairOps
      PROVE  /\ pairs[p].state \in {"absent", "pending", "active", "aborted", "retired"}
             /\ pairs[p].state = "absent" <=> pairs[p] = Absent
             /\ pairs[p].state # "absent" => pairs[p] \in PairRow /\ pairs[p].key \in Keys
  <2>1. pairs[p] \in PairRow \cup {Absent}
    BY DEF RegistryTypeOK
  <2> QED BY <2>1 DEF PairRow, Absent
<1>3. ASSUME NEW r \in RotOps
      PROVE  /\ rotations[r].state \in {"absent", "pending", "committed", "finalized", "aborted", "retired"}
             /\ rotations[r].state = "absent" <=> rotations[r] = Absent
             /\ rotations[r].state # "absent" =>
                  rotations[r] \in RotationRow /\ rotations[r].pair \in PairOps
                    /\ rotations[r].old \in Keys
  <2>1. rotations[r] \in RotationRow \cup {Absent}
    BY DEF RegistryTypeOK
  <2> QED BY <2>1 DEF RotationRow, Absent
<1>4. /\ decommission.state \in {"absent", "prepared", "acknowledged", "finalized"}
      /\ decommission.state = "absent" <=> decommission = Absent
      /\ decommission.state # "absent" =>
           /\ decommission \in DecommissionRow
           /\ decommission.pair \in PairOps /\ decommission.key \in Keys
  BY DEF RegistryTypeOK, DecommissionRow, Absent
<1> QED BY <1>1, <1>2, <1>3, <1>4 DEF RegistryRows

LEMMA RowsOfNext == RegistryTypeOK' => RegistryRows'
<1>1. RegistryTypeOK => RegistryRows
  BY RowsOf
<1> QED BY <1>1, PTL

LEMMA ToggleKeeps ==
  ASSUME RegistryTypeOK, RegistryRows, RegistryInv, NEW state \in {"active", "stopped"},
         Toggle(state), state = "stopped" => Published, state = "active" => MayResume
  PROVE  RegistryTypeOK' /\ RegistryInv'
<1>0. KeyInv /\ PairInv /\ RotationInv /\ ClosureInv
  BY DEF RegistryInv
<1>1. /\ binding'.state = state
      /\ UNCHANGED <<keys, pairs, rotations, decommission>>
  BY DEF Toggle
<1>2. RegistryTypeOK'
  BY SourceAssumption DEF RegistryTypeOK, Toggle, Epochs
<1>3. KeyInv'
  BY <1>0, <1>1 DEF KeyInv, LivePairs
<1>4. PairInv'
  BY <1>0, <1>1 DEF PairInv
<1>5. RotationInv'
  BY <1>0, <1>1 DEF RotationInv
<1>6. ClosureInv'
  BY <1>0, <1>1 DEF RegistryRows, ClosureInv, NeverPaired, Published, MayResume
<1> QED BY <1>2, <1>3, <1>4, <1>5, <1>6 DEF RegistryInv

LEMMA IssueKeyKeeps ==
  ASSUME RegistryTypeOK, RegistryRows, RegistryInv, NEW k \in Keys,
         IssueKey(k)
  PROVE  RegistryTypeOK' /\ RegistryInv'
<1>0. KeyInv /\ PairInv /\ RotationInv /\ ClosureInv
  BY DEF RegistryInv
<1>1. /\ k \notin OpKeys /\ k \notin PairOps /\ k \notin RotOps
      /\ keys[k] = "absent" /\ keys'[k] = "live"
      /\ \A l \in Keys \ {k} : keys'[l] = keys[l]
      /\ UNCHANGED <<binding, pairs, rotations, decommission>>
  BY SourceAssumption DEF RegistryTypeOK, OpKeys, IssueKey
<1>2. RegistryTypeOK'
  BY DEF RegistryTypeOK, IssueKey
<1>3. KeyInv'
  BY <1>0, <1>1 DEF KeyInv, LivePairs, OpKeys, Keys
<1>4. PairInv'
  BY <1>0, <1>1 DEF RegistryRows, PairInv
<1>5. RotationInv'
  BY <1>0, <1>1 DEF RegistryRows, RotationInv, Keys
<1>6. ClosureInv'
  BY <1>0, <1>1 DEF ClosureInv, NeverPaired, LivePairs, LiveRotations
<1> QED BY <1>2, <1>3, <1>4, <1>5, <1>6 DEF RegistryInv

LEMMA RevokeKeyKeeps ==
  ASSUME RegistryTypeOK, RegistryRows, RegistryInv, NEW k \in Keys,
         RevokeKey(k)
  PROVE  RegistryTypeOK' /\ RegistryInv'
<1>0. KeyInv /\ PairInv /\ RotationInv /\ ClosureInv
  BY DEF RegistryInv
<1>1. /\ ~HeldByOperation(k)
      /\ keys'[k] = "absent"
      /\ \A l \in Keys \ {k} : keys'[l] = keys[l]
      /\ UNCHANGED <<binding, pairs, rotations, decommission>>
  BY DEF RegistryTypeOK, RevokeKey
<1>2. RegistryTypeOK'
  BY DEF RegistryTypeOK, RevokeKey
<1>3. KeyInv'
  BY <1>0, <1>1 DEF KeyInv, LivePairs, OpKeys, Keys
<1>4. PairInv'
  BY <1>0, <1>1 DEF RegistryRows, PairInv, HeldByOperation
<1>5. RotationInv'
  BY <1>0, <1>1 DEF RegistryRows, RotationInv, Keys, HeldByOperation, LiveRotations
<1>6. ClosureInv'
  BY <1>0, <1>1 DEF ClosureInv, NeverPaired, LivePairs, LiveRotations
<1> QED BY <1>2, <1>3, <1>4, <1>5, <1>6 DEF RegistryInv

LEMMA GraceEndsKeeps ==
  ASSUME RegistryTypeOK, RegistryRows, RegistryInv, NEW k \in Keys,
         GraceEnds(k)
  PROVE  RegistryTypeOK' /\ RegistryInv'
<1>0. KeyInv /\ PairInv /\ RotationInv /\ ClosureInv
  BY DEF RegistryInv
<1>1. /\ keys[k] = "grace" /\ keys'[k] = "expired"
      /\ \A l \in Keys \ {k} : keys'[l] = keys[l]
      /\ UNCHANGED <<binding, pairs, rotations, decommission>>
  BY DEF RegistryTypeOK, GraceEnds
<1>2. RegistryTypeOK'
  BY DEF RegistryTypeOK, GraceEnds
<1>3. KeyInv'
  BY <1>0, <1>1 DEF KeyInv, LivePairs, OpKeys, Keys
<1>4. PairInv'
  BY <1>0, <1>1 DEF RegistryRows, PairInv
<1>5. RotationInv'
  BY <1>0, <1>1 DEF RegistryRows, RotationInv, Keys
<1>6. ClosureInv'
  BY <1>0, <1>1 DEF ClosureInv, NeverPaired, LivePairs, LiveRotations
<1> QED BY <1>2, <1>3, <1>4, <1>5, <1>6 DEF RegistryInv

LEMMA PreparePairKeeps ==
  ASSUME RegistryTypeOK, RegistryRows, RegistryInv, NEW p \in PairOps,
         PreparePair(p)
  PROVE  RegistryTypeOK' /\ RegistryInv'
<1>0. KeyInv /\ PairInv /\ RotationInv /\ ClosureInv
  BY DEF RegistryInv
<1>1. /\ binding.state = "active" /\ pairs[p].state = "absent" /\ LivePairs = {}
      /\ keys'[p] = "live"
      /\ \A l \in Keys \ {p} : keys'[l] = keys[l]
      /\ pairs'[p].state = "pending" /\ pairs'[p].key = p
      /\ \A q \in PairOps \ {p} : pairs'[q] = pairs[q]
      /\ UNCHANGED <<binding, rotations, decommission>>
  BY DEF RegistryTypeOK, RegistryRows, Keys, PreparePair, Published
<1>2. RegistryTypeOK'
  BY DEF RegistryTypeOK, Keys, PreparePair, PairRow
<1>3. KeyInv'
  BY <1>0, <1>1, SourceAssumption DEF KeyInv, LivePairs, OpKeys, Keys
<1>4. PairInv'
  BY <1>0, <1>1 DEF PairInv, KeyInv, Carried, ClosureInv
<1>5. RotationInv'
  BY <1>0, <1>1 DEF RegistryRows, RotationInv, PairInv, KeyInv
<1>6. ClosureInv'
  BY <1>0, <1>1 DEF RegistryRows, ClosureInv
<1> QED BY <1>2, <1>3, <1>4, <1>5, <1>6 DEF RegistryInv

LEMMA ClosePairKeeps ==
  ASSUME RegistryTypeOK, RegistryRows, RegistryInv, NEW p \in PairOps,
         pairs[p].state = "pending", ClosePair(p), UNCHANGED <<binding, rotations,
            decommission>>
  PROVE  RegistryTypeOK' /\ RegistryInv'
<1>0. KeyInv /\ PairInv /\ RotationInv /\ ClosureInv
  BY DEF RegistryInv
<1>1. /\ pairs[p].state = "pending" /\ pairs[p].key = p
      /\ keys'[p] = "expired"
      /\ \A l \in Keys \ {p} : keys'[l] = keys[l]
      /\ pairs'[p].state = "aborted" /\ pairs'[p].key = p
      /\ \A q \in PairOps \ {p} : pairs'[q] = pairs[q]
      /\ UNCHANGED <<binding, rotations, decommission>>
  BY <1>0 DEF RegistryTypeOK, RegistryRows, ClosePair, PairInv
<1>2. RegistryTypeOK'
  BY DEF RegistryTypeOK, RegistryRows, ClosePair, PairRow
<1>3. KeyInv'
  BY <1>0, <1>1, SourceAssumption DEF KeyInv, LivePairs, OpKeys, Keys
<1>4. PairInv'
  BY <1>0, <1>1 DEF PairInv
<1>5. RotationInv'
  BY <1>0 DEF RegistryRows, RotationInv, PairInv
<1>6. ClosureInv'
  BY <1>0, <1>1 DEF RegistryRows, ClosureInv, PairInv, NeverPaired
<1> QED BY <1>2, <1>3, <1>4, <1>5, <1>6 DEF RegistryInv

LEMMA PrepareRotationKeeps ==
  ASSUME RegistryTypeOK, RegistryRows, RegistryInv, NEW r \in RotOps, NEW p \in PairOps,
         rotations[r] = Absent, CurrentPair(p), ~Rotating(p),
  rotations' = [rotations EXCEPT ![r] =
    [state |-> "pending", pair |-> p, old |-> pairs[p].key, epoch |-> binding.epoch]],
  keys' = [keys EXCEPT ![r] = "live"], UNCHANGED <<binding, pairs, decommission>>
  PROVE  RegistryTypeOK' /\ RegistryInv'
<1>0. KeyInv /\ PairInv /\ RotationInv /\ ClosureInv
  BY DEF RegistryInv
<1>1. /\ binding.state = "active" /\ pairs[p].state = "active" /\ ~Rotating(p)
      /\ rotations[r].state = "absent"
      /\ keys'[r] = "live"
      /\ \A l \in Keys \ {r} : keys'[l] = keys[l]
      /\ rotations'[r].state = "pending" /\ rotations'[r].pair = p
         /\ rotations'[r].old = pairs[p].key
      /\ \A s \in RotOps \ {r} : rotations'[s] = rotations[s]
      /\ UNCHANGED <<binding, pairs, decommission>>
  BY DEF RegistryTypeOK, RegistryRows, Keys, CurrentPair, Published
<1>2. RegistryTypeOK'
  BY DEF RegistryTypeOK, RegistryRows, CurrentPair, RotationRow
<1>3. KeyInv'
  BY <1>0, <1>1, SourceAssumption DEF KeyInv, LivePairs
<1>4. PairInv'
  BY <1>0, <1>1 DEF PairInv, KeyInv
<1>5. RotationInv'
  BY <1>0, <1>1, SourceAssumption DEF RegistryRows, RotationInv, PairInv, OpKeys, Carried,
       Rotating, LiveRotations
<1>6. ClosureInv'
  BY <1>0, <1>1 DEF ClosureInv
<1> QED BY <1>2, <1>3, <1>4, <1>5, <1>6 DEF RegistryInv

LEMMA CloseRotationKeeps ==
  ASSUME RegistryTypeOK, RegistryRows, RegistryInv, NEW r \in RotOps,
         rotations[r].state \in {"pending", "aborted"}, CloseRotation(r), UNCHANGED <<binding,
            pairs, decommission>>
  PROVE  RegistryTypeOK' /\ RegistryInv'
<1>0. KeyInv /\ PairInv /\ RotationInv /\ ClosureInv
  BY DEF RegistryInv
<1>1. /\ keys'[r] = "absent"
      /\ \A l \in Keys \ {r} : keys'[l] = keys[l]
      /\ rotations'[r].state = "aborted" /\ rotations'[r].pair = rotations[r].pair
         /\ rotations'[r].old = rotations[r].old
      /\ \A s \in RotOps \ {r} : rotations'[s] = rotations[s]
      /\ UNCHANGED <<binding, pairs, decommission>>
  BY DEF RegistryTypeOK, Keys, CloseRotation
<1>2. RegistryTypeOK'
  BY DEF RegistryTypeOK, RegistryRows, Keys, CloseRotation, RotationRow
<1>3. KeyInv'
  BY <1>0, <1>1 DEF KeyInv, LivePairs, OpKeys, Keys
<1>4. PairInv'
  BY <1>0, <1>1, SourceAssumption DEF RegistryRows, PairInv, Carried
<1>5. RotationInv'
  BY <1>0, <1>1 DEF RegistryRows, RotationInv, Keys, Carried
<1>6. ClosureInv'
  BY <1>0, <1>1 DEF ClosureInv, NeverPaired, LivePairs, LiveRotations
<1> QED BY <1>2, <1>3, <1>4, <1>5, <1>6 DEF RegistryInv

LEMMA BeginDecommissionKeeps ==
  ASSUME RegistryTypeOK, RegistryRows, RegistryInv, NEW p \in PairOps,
         BeginDecommission(p)
  PROVE  RegistryTypeOK' /\ RegistryInv'
<1>0. KeyInv /\ PairInv /\ RotationInv /\ ClosureInv
  BY DEF RegistryInv
<1>1. /\ binding.state = "stopped" /\ pairs[p].state = "active" /\ ~Rotating(p)
      /\ decommission'.state = "prepared" /\ decommission'.pair = p
         /\ decommission'.key = pairs[p].key /\ decommission'.epoch = binding.epoch
      /\ UNCHANGED <<binding, keys, pairs, rotations>>
  BY DEF BeginDecommission, ExactPair
<1>2. RegistryTypeOK'
  BY DEF RegistryTypeOK, RegistryRows, BeginDecommission, ExactPair, DecommissionRow
<1>3. KeyInv'
  BY <1>0, <1>1 DEF KeyInv, LivePairs
<1>4. PairInv'
  BY <1>0, <1>1 DEF PairInv
<1>5. RotationInv'
  BY <1>0, <1>1 DEF RotationInv
<1>6. ClosureInv'
  BY <1>0, <1>1 DEF RegistryRows, ClosureInv, PairInv, RotationInv, LiveRotations, Rotating
<1> QED BY <1>2, <1>3, <1>4, <1>5, <1>6 DEF RegistryInv

LEMMA RemoveUnpairedKeeps ==
  ASSUME RegistryTypeOK, RegistryRows, RegistryInv,
         RemoveUnpaired
  PROVE  RegistryTypeOK' /\ RegistryInv'
<1>0. KeyInv /\ PairInv /\ RotationInv /\ ClosureInv
  BY DEF RegistryInv
<1>1. /\ binding'.state = "retired"
      /\ \A l \in Keys : keys'[l] = "absent"
      /\ \A p \in PairOps : pairs[p] = Absent /\ pairs'[p] = pairs[p]
      /\ \A r \in RotOps : rotations[r].state = "absent" /\ rotations'[r] = rotations[r]
      /\ UNCHANGED decommission
  BY <1>0 DEF RegistryRows, RemoveUnpaired, Retire, NeverPaired, LivePairs, LiveRotations,
       RotationInv
<1>2. RegistryTypeOK'
  BY <1>0 DEF RegistryTypeOK, RegistryRows, RemoveUnpaired, Retire, NeverPaired, LivePairs,
       LiveRotations, RotationInv
<1>3. KeyInv'
  BY <1>1 DEF KeyInv, OpKeys, Keys
<1>4. PairInv'
  BY <1>1 DEF RegistryRows, PairInv
<1>5. RotationInv'
  BY <1>1 DEF RotationInv
<1>6. ClosureInv'
  BY <1>0, <1>1 DEF RegistryRows, ClosureInv, NeverPaired, LivePairs
<1> QED BY <1>2, <1>3, <1>4, <1>5, <1>6 DEF RegistryInv

LEMMA FinalizeDecommissionKeeps ==
  ASSUME RegistryTypeOK, RegistryRows, RegistryInv,
         FinalizeDecommission
  PROVE  RegistryTypeOK' /\ RegistryInv'
<1>0. KeyInv /\ PairInv /\ RotationInv /\ ClosureInv
  BY DEF RegistryInv
<1>1. /\ binding'.state = "retired"
      /\ decommission.state = "acknowledged" /\ decommission'.state = "finalized"
         /\ decommission'.pair = decommission.pair /\ decommission'.key = decommission.key
      /\ \A l \in Keys : keys'[l] = "absent"
      /\ pairs[decommission.pair].state = "active"
         /\ pairs'[decommission.pair].state = "retired"
            /\ pairs'[decommission.pair].key = pairs[decommission.pair].key
      /\ \A q \in PairOps \ {decommission.pair} : pairs[q].state \notin {"pending", "active"} /\ pairs'[q] = pairs[q]
      /\ \A r \in RotOps : rotations[r].state \notin {"pending", "committed"}
         /\ rotations'[r] = rotations[r]
  BY <1>0 DEF RegistryRows, FinalizeDecommission, Retire, LivePairs, LiveRotations, ClosureInv,
       PairInv
<1>2. RegistryTypeOK'
  BY DEF RegistryTypeOK, RegistryRows, FinalizeDecommission, Retire, LivePairs, LiveRotations,
       PairRow, RotationRow, DecommissionRow
<1>3. KeyInv'
  BY <1>1 DEF KeyInv, OpKeys, Keys
<1>4. PairInv'
  BY <1>0, <1>1 DEF PairInv
<1>5. RotationInv'
  BY <1>0, <1>1 DEF RegistryRows, RotationInv
<1>6. ClosureInv'
  BY <1>0, <1>1 DEF ClosureInv, LivePairs
<1> QED BY <1>2, <1>3, <1>4, <1>5, <1>6 DEF RegistryInv

LEMMA CommitPairKeeps ==
  ASSUME RegistryTypeOK, RegistryRows, RegistryInv, NEW p \in PairOps,
         pairs[p].state \in {"pending", "active"}, Published,
            pairs' = [pairs EXCEPT ![p].state = "active"], UNCHANGED <<binding, keys,
               rotations, decommission>>
  PROVE  RegistryTypeOK' /\ RegistryInv'
<1>0. KeyInv /\ PairInv /\ RotationInv /\ ClosureInv
  BY DEF RegistryInv
<1>1. /\ binding.state = "active"
      /\ pairs'[p].state = "active" /\ pairs'[p].key = pairs[p].key
      /\ \A q \in PairOps \ {p} : pairs'[q] = pairs[q]
      /\ UNCHANGED <<binding, keys, rotations, decommission>>
  BY DEF RegistryTypeOK, Published
<1>2. RegistryTypeOK'
  BY DEF RegistryTypeOK, RegistryRows, PairRow
<1>3. KeyInv'
  BY <1>0 DEF KeyInv, LivePairs
<1>4. PairInv'
  BY <1>0 DEF PairInv
<1>5. RotationInv'
  BY <1>0 DEF RotationInv
<1>6. ClosureInv'
  BY <1>0, <1>1 DEF ClosureInv
<1> QED BY <1>2, <1>3, <1>4, <1>5, <1>6 DEF RegistryInv

LEMMA CommitRotationKeeps ==
  ASSUME RegistryTypeOK, RegistryRows, RegistryInv, NEW m \in MachineRequest,
         CommitsRotation(m), keys' = GraceForOld(m),
            pairs' = [pairs EXCEPT ![m.pair].key = m.key],
               rotations' = [rotations EXCEPT ![m.op].state = "committed"],
                  UNCHANGED <<binding, decommission>>
  PROVE  RegistryTypeOK' /\ RegistryInv'
<1>0. KeyInv /\ PairInv /\ RotationInv /\ ClosureInv
  BY DEF RegistryInv
<1>1. /\ m.op \in RotOps /\ m.key = m.op /\ m.pair \in PairOps /\ m.op \in Keys
      /\ binding.state = "active" /\ pairs[m.pair].state = "active"
         /\ pairs[m.pair].key = rotations[m.op].old
      /\ rotations[m.op].state = "pending" /\ rotations[m.op].pair = m.pair
         /\ rotations[m.op].old \in Keys
      /\ keys'[rotations[m.op].old] = "grace"
      /\ \A l \in Keys \ {rotations[m.op].old} : keys'[l] = keys[l]
      /\ pairs'[m.pair].state = "active" /\ pairs'[m.pair].key = m.op
      /\ \A q \in PairOps \ {m.pair} : pairs'[q] = pairs[q]
      /\ rotations'[m.op].state = "committed" /\ rotations'[m.op].pair = m.pair
         /\ rotations'[m.op].old = rotations[m.op].old
      /\ \A s \in RotOps \ {m.op} : rotations'[s] = rotations[s]
      /\ UNCHANGED <<binding, decommission>>
  BY DEF RegistryTypeOK, RegistryRows, CommitsRotation, GraceForOld, SameRotation, Published,
       MachineRequest
<1>2. RegistryTypeOK'
  BY DEF RegistryTypeOK, RegistryRows, CommitsRotation, GraceForOld, SameRotation, PairRow,
       RotationRow, MachineRequest
<1>3. KeyInv'
  BY <1>0, <1>1 DEF KeyInv, LivePairs, OpKeys, Keys, PairInv
<1>4. PairInv'
  BY <1>0, <1>1 DEF PairInv, Carried, RotationInv
<1>5. RotationInv'
  BY <1>0, <1>1, SourceAssumption DEF RegistryRows, RotationInv, PairInv, KeyInv, OpKeys, Keys,
       Carried
<1>6. ClosureInv'
  BY <1>0, <1>1 DEF RegistryRows, ClosureInv
<1> QED BY <1>2, <1>3, <1>4, <1>5, <1>6 DEF RegistryInv

LEMMA FinalizeRotationKeeps ==
  ASSUME RegistryTypeOK, RegistryRows, RegistryInv, NEW m \in MachineRequest,
         FinalizesRotation(m), keys' = DeleteOld(m),
            rotations' = [rotations EXCEPT ![m.op].state = "finalized"], UNCHANGED <<binding,
               pairs, decommission>>
  PROVE  RegistryTypeOK' /\ RegistryInv'
<1>0. KeyInv /\ PairInv /\ RotationInv /\ ClosureInv
  BY DEF RegistryInv
<1>1. /\ m.op \in RotOps /\ m.pair \in PairOps
      /\ binding.state = "active" /\ pairs[m.pair].state = "active" /\ pairs[m.pair].key = m.op
      /\ rotations[m.op].state = "committed" /\ rotations[m.op].pair = m.pair
         /\ rotations[m.op].old \in Keys
      /\ keys'[rotations[m.op].old] = "absent"
      /\ \A l \in Keys \ {rotations[m.op].old} : keys'[l] = keys[l]
      /\ rotations'[m.op].state = "finalized" /\ rotations'[m.op].pair = m.pair
         /\ rotations'[m.op].old = rotations[m.op].old
      /\ \A s \in RotOps \ {m.op} : rotations'[s] = rotations[s]
      /\ UNCHANGED <<binding, pairs, decommission>>
  BY DEF RegistryTypeOK, RegistryRows, FinalizesRotation, DeleteOld, SameRotation, Published,
       MachineRequest
<1>2. RegistryTypeOK'
  BY DEF RegistryTypeOK, RegistryRows, FinalizesRotation, DeleteOld, RotationRow, MachineRequest
<1>3. KeyInv'
  BY <1>0, <1>1 DEF KeyInv, LivePairs, OpKeys, Keys
<1>4. PairInv'
  BY <1>0, <1>1 DEF PairInv, Keys, Carried, RotationInv
<1>5. RotationInv'
  BY <1>0, <1>1, SourceAssumption DEF RegistryRows, RotationInv, PairInv, KeyInv, OpKeys, Keys,
       Carried
<1>6. ClosureInv'
  BY <1>0, <1>1 DEF ClosureInv
<1> QED BY <1>2, <1>3, <1>4, <1>5, <1>6 DEF RegistryInv

LEMMA AcknowledgeKeeps ==
  ASSUME RegistryTypeOK, RegistryRows, RegistryInv, NEW m \in MachineRequest,
         Acknowledges(m), decommission' = [decommission EXCEPT !.state = "acknowledged"],
            UNCHANGED <<binding, keys, pairs, rotations>>
  PROVE  RegistryTypeOK' /\ RegistryInv'
<1>0. KeyInv /\ PairInv /\ RotationInv /\ ClosureInv
  BY DEF RegistryInv
<1>1. /\ decommission.state \in {"prepared", "acknowledged"}
          /\ decommission'.state = "acknowledged"
      /\ decommission'.pair = decommission.pair /\ decommission'.key = decommission.key
         /\ decommission'.epoch = decommission.epoch
      /\ UNCHANGED <<binding, keys, pairs, rotations>>
  BY DEF Acknowledges
<1>2. RegistryTypeOK'
  BY DEF RegistryTypeOK, RegistryRows, Acknowledges, DecommissionRow
<1>3. KeyInv'
  BY <1>0 DEF KeyInv, LivePairs
<1>4. PairInv'
  BY <1>0 DEF PairInv
<1>5. RotationInv'
  BY <1>0 DEF RotationInv
<1>6. ClosureInv'
  BY <1>0, <1>1 DEF ClosureInv, LiveRotations
<1> QED BY <1>2, <1>3, <1>4, <1>5, <1>6 DEF RegistryInv
LEMMA RegistryUnchanged ==
  ASSUME RegistryTypeOK, RegistryInv, UNCHANGED registryVars
  PROVE  RegistryTypeOK' /\ RegistryInv'
<1>1. RegistryTypeOK'
  BY DEF RegistryTypeOK, registryVars
<1>2. KeyInv' /\ PairInv'
  BY DEF RegistryInv, registryVars, KeyInv, PairInv, LivePairs
<1>3. RotationInv' /\ ClosureInv'
  BY DEF RegistryInv, registryVars, RotationInv, ClosureInv, LivePairs, LiveRotations,
       NeverPaired
<1> QED BY <1>1, <1>2, <1>3 DEF RegistryInv

LEMMA AdministeringKeeps ==
  ASSUME RegistryTypeOK, RegistryInv, Administering
  PROVE  RegistryTypeOK' /\ RegistryInv'
<1>0. RegistryRows
  BY RowsOf
<1>1. CASE Stop \/ Resume
  BY <1>0, <1>1, ToggleKeeps DEF Stop, Resume
<1>2. CASE RemoveUnpaired
  BY <1>0, <1>2, RemoveUnpairedKeeps
<1>3. CASE FinalizeDecommission
  BY <1>0, <1>3, FinalizeDecommissionKeeps
<1>4. CASE \E k \in Keys : IssueKey(k) \/ RevokeKey(k) \/ GraceEnds(k)
  BY <1>0, <1>4, IssueKeyKeeps, RevokeKeyKeeps, GraceEndsKeeps
<1>5. CASE \E p \in PairOps : PreparePair(p) \/ AbortPair(p) \/ BeginDecommission(p)
  <2>1. PICK p \in PairOps : PreparePair(p) \/ AbortPair(p) \/ BeginDecommission(p)
    BY <1>5
  <2>2. CASE AbortPair(p)
    BY <1>0, <2>2, ClosePairKeeps DEF AbortPair
  <2> QED BY <1>0, <2>1, <2>2, PreparePairKeeps, BeginDecommissionKeeps
<1>6. CASE \E r \in RotOps : PrepareRotation(r) \/ AbortRotation(r)
  <2>1. PICK r \in RotOps : PrepareRotation(r) \/ AbortRotation(r)
    BY <1>6
  <2>2. CASE AbortRotation(r)
    BY <1>0, <2>2, CloseRotationKeeps DEF AbortRotation, Abortable
  <2>3. CASE PrepareRotation(r)
    <3>1. PICK p \in PairOps :
            /\ CurrentPair(p) /\ ~Rotating(p)
            /\ rotations' = [rotations EXCEPT ![r] =
                 [state |-> "pending", pair |-> p, old |-> pairs[p].key,
                    epoch |-> binding.epoch]]
      BY <2>3 DEF PrepareRotation
    <3>2. /\ rotations[r] = Absent /\ keys' = [keys EXCEPT ![r] = "live"]
          /\ UNCHANGED <<binding, pairs, decommission>>
      BY <2>3 DEF PrepareRotation
    <3> QED BY <1>0, <3>1, <3>2, PrepareRotationKeeps
  <2> QED BY <2>1, <2>2, <2>3
<1> QED BY <1>1, <1>2, <1>3, <1>4, <1>5, <1>6 DEF Administering

LEMMA RequestTypes ==
  ASSUME NEW m \in MachineRequest
  PROVE  /\ m.kind \in {"commit", "abort", "rotate", "finalize", "unrotate", "acknowledge"}
         /\ m.kind \in {"commit", "abort", "acknowledge"} => m.op \in PairOps
         /\ m.kind \in {"rotate", "finalize", "unrotate"} =>
            m.op \in RotOps /\ m.pair \in PairOps
         /\ m.key \in Keys
BY DEF MachineRequest

LEMMA ServeKeeps ==
  ASSUME RegistryTypeOK, RegistryInv, NEW m \in MachineRequest, Serve(m)
  PROVE  RegistryTypeOK' /\ RegistryInv'
<1>0. RegistryRows
  BY RowsOf
<1>1. CASE UNCHANGED registryVars
  BY <1>1, RegistryUnchanged
<1>2. CASE /\ CommitsPair(m)
           /\ pairs' = [pairs EXCEPT ![m.op].state = "active"]
           /\ UNCHANGED <<binding, keys, rotations, decommission>>
  <2>1. m.op \in PairOps
    BY <1>2, RequestTypes DEF CommitsPair
  <2>2. pairs[m.op].state \in {"pending", "active"} /\ Published
    BY <1>2 DEF CommitsPair
  <2> QED BY <1>0, <1>2, <2>1, <2>2, CommitPairKeeps
<1>3. CASE /\ AbortsPair(m)
           /\ IF pairs[m.op].state # "aborted" THEN ClosePair(m.op) ELSE UNCHANGED <<keys, pairs>>
           /\ UNCHANGED <<binding, rotations, decommission>>
  <2>1. m.op \in PairOps /\ pairs[m.op].state \in {"pending", "aborted"}
    BY <1>3, RequestTypes DEF AbortsPair
  <2>2. CASE pairs[m.op].state = "pending"
    BY <1>0, <1>3, <2>1, <2>2, ClosePairKeeps
  <2>3. CASE pairs[m.op].state = "aborted"
    BY <1>3, <2>3, RegistryUnchanged DEF registryVars
  <2> QED BY <2>1, <2>2, <2>3
<1>4. CASE /\ CommitsRotation(m)
           /\ keys' = GraceForOld(m)
           /\ pairs' = [pairs EXCEPT ![m.pair].key = m.key]
           /\ rotations' = [rotations EXCEPT ![m.op].state = "committed"]
           /\ UNCHANGED <<binding, decommission>>
  BY <1>0, <1>4, CommitRotationKeeps
<1>5. CASE /\ FinalizesRotation(m)
           /\ keys' = DeleteOld(m)
           /\ rotations' = [rotations EXCEPT ![m.op].state = "finalized"]
           /\ UNCHANGED <<binding, pairs, decommission>>
  BY <1>0, <1>5, FinalizeRotationKeeps
<1>6. CASE AbortsRotation(m) /\ CloseRotation(m.op)
          /\ UNCHANGED <<binding, pairs, decommission>>
  <2>1. m.op \in RotOps /\ rotations[m.op].state \in {"pending", "aborted"}
    BY <1>6, RequestTypes DEF AbortsRotation
  <2> QED BY <1>0, <1>6, <2>1, CloseRotationKeeps
<1>7. CASE /\ Acknowledges(m)
           /\ decommission' = [decommission EXCEPT !.state = "acknowledged"]
           /\ UNCHANGED <<binding, keys, pairs, rotations>>
  BY <1>0, <1>7, AcknowledgeKeeps
<1> QED BY <1>1, <1>2, <1>3, <1>4, <1>5, <1>6, <1>7 DEF Serve

----------------------------------------------------------------------------
(* What the registry never takes back, and what only a request can bring about *)

Onward ==
  /\ \A p \in PairOps :
       /\ pairs[p].state # "absent" => pairs'[p].state # "absent"
       /\ pairs[p].state \in {"active", "retired"} => pairs'[p].state \in {"active", "retired"}
       /\ pairs[p].state = "aborted" => pairs'[p].state = "aborted"
  /\ \A r \in RotOps :
       /\ rotations[r].state # "absent" =>
            /\ rotations'[r].state # "absent"
            /\ rotations'[r].pair = rotations[r].pair /\ rotations'[r].old = rotations[r].old
       /\ rotations[r].state \in Carried => rotations'[r].state \in Carried
       /\ rotations[r].state \in {"finalized", "aborted"} =>
            rotations'[r].state = rotations[r].state
  /\ decommission.state # "absent" =>
       /\ decommission'.state # "absent" /\ decommission'.pair = decommission.pair
       /\ decommission'.key = decommission.key /\ decommission'.epoch = decommission.epoch
  /\ decommission.state \in {"acknowledged", "finalized"} =>
       decommission'.state \in {"acknowledged", "finalized"}
  /\ \A p, q \in PairOps :
       Outcome(pairs'[p].state) # Outcome(pairs[p].state)
         /\ Outcome(pairs'[q].state) # Outcome(pairs[q].state) => p = q
  /\ \A r, s \in RotOps :
       Outcome(rotations'[r].state) # Outcome(rotations[r].state)
         /\ Outcome(rotations'[s].state) # Outcome(rotations[s].state) => r = s

MovedBy(M) ==
  /\ \A p \in PairOps : pairs[p].state # "absent" =>
       \/ pairs'[p].key = pairs[p].key
       \/ \E m \in M : /\ m.kind = "rotate" /\ m.op \in RotOps /\ m.pair = p
                       /\ rotations[m.op].state = "pending"
                          /\ rotations'[m.op].state = "committed"
                       /\ rotations[m.op].old = pairs[p].key /\ pairs'[p].key = m.op
  /\ \A r \in RotOps : rotations'[r].state \in Carried =>
       \/ rotations[r].state = rotations'[r].state
       \/ \E m \in M : /\ m.op = r /\ m.kind = "rotate"
                       /\ rotations[r].state = "pending" /\ rotations'[r].state = "committed"
       \/ \E m \in M : /\ m.op = r /\ m.kind = "finalize"
                       /\ rotations[r].state = "committed" /\ rotations'[r].state = "finalized"
  /\ decommission'.state \in {"acknowledged", "finalized"} =>
       \/ decommission.state \in {"acknowledged", "finalized"}
       \/ /\ decommission.state # "absent"
          /\ \E m \in M : m.kind = "acknowledge" /\ m.op = decommission.pair

LEMMA AdministeringMoves ==
  ASSUME RegistryTypeOK, RegistryInv, Administering
  PROVE  Onward /\ MovedBy({})
<1>0. RegistryRows
  BY RowsOf
<1>1. CASE Stop \/ Resume \/ \E k \in Keys : IssueKey(k) \/ RevokeKey(k) \/ GraceEnds(k)
  <2>1. UNCHANGED <<pairs, rotations, decommission>>
    BY <1>1 DEF Stop, Resume, Toggle, IssueKey, RevokeKey, GraceEnds
  <2> QED BY <2>1 DEF Onward, MovedBy
<1>2. CASE RemoveUnpaired
  <2>1. UNCHANGED decommission /\ \A p \in PairOps : pairs[p] = Absent /\ pairs'[p] = pairs[p]
    BY <1>2 DEF RemoveUnpaired, NeverPaired, Retire, LivePairs, Absent
  <2>2. \A r \in RotOps : rotations[r].state = "absent" /\ rotations'[r] = rotations[r]
    BY <1>0, <2>1, <1>2 DEF RegistryInv, RotationInv, RegistryRows, RemoveUnpaired, Retire,
         LiveRotations
  <2> QED BY <2>1, <2>2 DEF Onward, MovedBy
<1>3. CASE FinalizeDecommission
  <2>1. /\ decommission.state = "acknowledged" /\ decommission'.state = "finalized"
        /\ decommission'.pair = decommission.pair /\ decommission'.key = decommission.key
        /\ decommission'.epoch = decommission.epoch
    BY <1>3 DEF FinalizeDecommission
  <2>2. \A p \in PairOps :
          \/ pairs'[p] = pairs[p]
          \/ /\ pairs[p].state = "active" /\ pairs'[p].state = "retired"
             /\ pairs'[p].key = pairs[p].key
    BY <1>0, <1>3 DEF FinalizeDecommission, SamePair, Retire, LivePairs, RegistryRows,
         RegistryInv, PairInv
  <2>3. \A r \in RotOps : rotations'[r] = rotations[r]
    BY <1>3 DEF FinalizeDecommission, Retire, RegistryInv, ClosureInv
  <2> QED BY <2>1, <2>2, <2>3 DEF Onward, Outcome, MovedBy
<1>4. ASSUME NEW p \in PairOps, PreparePair(p) \/ AbortPair(p)
      PROVE  Onward /\ MovedBy({})
  <2>1. \A q \in PairOps \ {p} : pairs'[q] = pairs[q]
    BY <1>4 DEF PreparePair, AbortPair, ClosePair, RegistryTypeOK
  <2>2. \/ pairs[p].state = "absent" /\ pairs'[p].state = "pending"
        \/ pairs[p].state = "pending" /\ pairs'[p].state = "aborted"
           /\ pairs'[p].key = pairs[p].key
    BY <1>0, <1>4 DEF PreparePair, AbortPair, ClosePair, RegistryTypeOK, RegistryRows, PairRow
  <2>3. UNCHANGED <<rotations, decommission>>
    BY <1>4 DEF PreparePair, AbortPair
  <2> QED BY <2>1, <2>2, <2>3 DEF Onward, MovedBy
<1>5. ASSUME NEW p \in PairOps, BeginDecommission(p)
      PROVE  Onward /\ MovedBy({})
  <2>1. decommission.state = "absent" /\ decommission'.state = "prepared"
    BY <1>5 DEF BeginDecommission, Absent
  <2>2. UNCHANGED <<pairs, rotations>>
    BY <1>5 DEF BeginDecommission
  <2> QED BY <2>1, <2>2 DEF Onward, MovedBy
<1>6. ASSUME NEW r \in RotOps, PrepareRotation(r) \/ AbortRotation(r)
      PROVE  Onward /\ MovedBy({})
  <2>1. \A s \in RotOps \ {r} : rotations'[s] = rotations[s]
    BY <1>6 DEF PrepareRotation, AbortRotation, CloseRotation, RegistryTypeOK
  <2>2. \/ rotations[r].state = "absent" /\ rotations'[r].state = "pending"
        \/ /\ rotations[r].state = "pending" /\ rotations'[r].state = "aborted"
           /\ rotations'[r].pair = rotations[r].pair /\ rotations'[r].old = rotations[r].old
    BY <1>0, <1>6 DEF PrepareRotation, AbortRotation, CloseRotation, Abortable, RegistryTypeOK,
         RegistryRows, RotationRow
  <2>3. UNCHANGED <<pairs, decommission>>
    BY <1>6 DEF PrepareRotation, AbortRotation
  <2> QED BY <2>1, <2>2, <2>3 DEF Onward, MovedBy, Carried
<1> QED BY <1>1, <1>2, <1>3, <1>4, <1>5, <1>6 DEF Administering

LEMMA ServeMoves ==
  ASSUME RegistryTypeOK, RegistryInv, NEW m \in MachineRequest, Serve(m)
  PROVE  Onward /\ MovedBy({m})
<1>0. RegistryRows
  BY RowsOf
<1>a. /\ m.kind \in {"commit", "abort", "acknowledge"} => m.op \in PairOps
      /\ m.kind \in {"rotate", "finalize", "unrotate"} => m.op \in RotOps /\ m.pair \in PairOps
  BY RequestTypes
<1>1. CASE UNCHANGED registryVars
  BY <1>1 DEF Onward, MovedBy, registryVars
<1>2. CASE /\ CommitsPair(m)
           /\ pairs' = [pairs EXCEPT ![m.op].state = "active"]
           /\ UNCHANGED <<binding, keys, rotations, decommission>>
  <2>1. /\ m.op \in PairOps /\ pairs[m.op].state \in {"pending", "active"}
        /\ pairs'[m.op].state = "active" /\ pairs'[m.op].key = pairs[m.op].key
        /\ \A q \in PairOps \ {m.op} : pairs'[q] = pairs[q]
    BY <1>a, <1>2 DEF CommitsPair, RegistryTypeOK
  <2> QED BY <1>2, <2>1 DEF Onward, MovedBy
<1>3. CASE /\ AbortsPair(m)
           /\ IF pairs[m.op].state # "aborted" THEN ClosePair(m.op) ELSE UNCHANGED <<keys, pairs>>
           /\ UNCHANGED <<binding, rotations, decommission>>
  <2>1. /\ m.op \in PairOps /\ pairs[m.op].state \in {"pending", "aborted"}
        /\ pairs'[m.op].state = "aborted" /\ pairs'[m.op].key = pairs[m.op].key
        /\ \A q \in PairOps \ {m.op} : pairs'[q] = pairs[q]
    BY <1>0, <1>a, <1>3 DEF AbortsPair, ClosePair, RegistryTypeOK, RegistryRows, PairRow
  <2> QED BY <1>3, <2>1 DEF Onward, MovedBy
<1>4. CASE /\ CommitsRotation(m)
           /\ keys' = GraceForOld(m)
           /\ pairs' = [pairs EXCEPT ![m.pair].key = m.key]
           /\ rotations' = [rotations EXCEPT ![m.op].state = "committed"]
           /\ UNCHANGED <<binding, decommission>>
  <2>1. /\ m.kind = "rotate" /\ m.op \in RotOps /\ m.pair \in PairOps /\ m.key = m.op
        /\ pairs[m.pair].state = "active" /\ rotations[m.op].state = "pending"
        /\ rotations[m.op].pair = m.pair /\ rotations[m.op].old = pairs[m.pair].key
    BY <1>a, <1>4 DEF CommitsRotation, SameRotation
  <2>2. /\ pairs'[m.pair].state = "active" /\ pairs'[m.pair].key = m.op
        /\ \A q \in PairOps \ {m.pair} : pairs'[q] = pairs[q]
    BY <1>4, <2>1 DEF RegistryTypeOK
  <2>3. /\ rotations'[m.op].state = "committed" /\ rotations'[m.op].pair = rotations[m.op].pair
        /\ rotations'[m.op].old = rotations[m.op].old
        /\ \A s \in RotOps \ {m.op} : rotations'[s] = rotations[s]
    BY <1>4, <2>1 DEF RegistryTypeOK
  <2> QED BY <1>4, <2>1, <2>3 DEF Onward, MovedBy, Carried
<1>5. CASE /\ FinalizesRotation(m)
           /\ keys' = DeleteOld(m)
           /\ rotations' = [rotations EXCEPT ![m.op].state = "finalized"]
           /\ UNCHANGED <<binding, pairs, decommission>>
  <2>1. /\ m.kind = "finalize" /\ m.op \in RotOps /\ rotations[m.op].state = "committed"
    BY <1>a, <1>5 DEF FinalizesRotation
  <2>3. /\ rotations'[m.op].state = "finalized" /\ rotations'[m.op].pair = rotations[m.op].pair
        /\ rotations'[m.op].old = rotations[m.op].old
        /\ \A s \in RotOps \ {m.op} : rotations'[s] = rotations[s]
    BY <1>5, <2>1 DEF RegistryTypeOK
  <2> QED BY <1>5, <2>1 DEF Onward, MovedBy, Carried
<1>6. CASE AbortsRotation(m) /\ CloseRotation(m.op)
          /\ UNCHANGED <<binding, pairs, decommission>>
  <2>1. m.op \in RotOps /\ rotations[m.op].state \in {"pending", "aborted"}
    BY <1>a, <1>6 DEF AbortsRotation
  <2>2. /\ rotations'[m.op].state = "aborted" /\ rotations'[m.op].pair = rotations[m.op].pair
        /\ rotations'[m.op].old = rotations[m.op].old
        /\ \A s \in RotOps \ {m.op} : rotations'[s] = rotations[s]
    BY <1>6, <2>1 DEF CloseRotation, RegistryTypeOK
  <2> QED BY <1>6, <2>1, <2>2 DEF Onward, MovedBy, Carried
<1>7. CASE /\ Acknowledges(m)
           /\ decommission' = [decommission EXCEPT !.state = "acknowledged"]
           /\ UNCHANGED <<binding, keys, pairs, rotations>>
  <2>1. /\ m.kind = "acknowledge" /\ m.op = decommission.pair /\ decommission.state # "absent"
        /\ decommission'.state = "acknowledged" /\ decommission'.pair = decommission.pair
        /\ decommission'.key = decommission.key /\ decommission'.epoch = decommission.epoch
    BY <1>7 DEF Acknowledges
  <2> QED BY <1>7, <2>1 DEF Onward, MovedBy
<1> QED BY <1>1, <1>2, <1>3, <1>4, <1>5, <1>6, <1>7 DEF Serve

----------------------------------------------------------------------------
(* WeKnora's rows keep their invariant and never go back. *)

LEMMA TargetRowsOf == ASSUME TargetTypeOK PROVE TargetRows
<1>1. ASSUME NEW p \in PairOps
      PROVE  /\ pairing[p].state \in {"absent", "pending", "active", "aborted"}
             /\ pairing[p].state = "absent" <=> pairing[p] = Absent
             /\ pairing[p].state # "absent" =>
                pairing[p] \in PairingRow /\ pairing[p].key \in Keys
  <2>1. pairing[p] \in PairingRow \cup {Absent}
    BY DEF TargetTypeOK
  <2> QED BY <2>1 DEF PairingRow, Absent
<1>2. ASSUME NEW p \in PairOps
      PROVE  /\ closing[p].state \in {"absent", "prepared", "acknowledged"}
             /\ closing[p].state = "absent" <=> closing[p] = Absent
             /\ closing[p].state # "absent" => closing[p] \in ClosingRow
             /\ source[p] \in {"none", "paused", "active"}
  <2>1. closing[p] \in ClosingRow \cup {Absent}
    BY DEF TargetTypeOK
  <2>2. source[p] \in {"none", "paused", "active"}
    BY DEF TargetTypeOK
  <2> QED BY <2>1, <2>2 DEF ClosingRow, Absent
<1>3. ASSUME NEW r \in RotOps
      PROVE  /\ turning[r].state \in {"absent", "pending", "switched", "finalized", "aborted"}
             /\ turning[r].state = "absent" <=> turning[r] = Absent
             /\ turning[r].state # "absent" =>
                turning[r] \in TurningRow /\ turning[r].pair \in PairOps
  <2>1. turning[r] \in TurningRow \cup {Absent}
    BY DEF TargetTypeOK
  <2> QED BY <2>1 DEF TurningRow, Absent
<1> QED BY <1>1, <1>2, <1>3 DEF TargetRows

LEMMA TargetRowsOfNext == TargetTypeOK' => TargetRows'
<1>1. TargetTypeOK => TargetRows
  BY TargetRowsOf
<1> QED BY <1>1, PTL

TargetOnward ==
  /\ \A p \in PairOps :
       /\ pairing[p].state \in {"active", "aborted"} => pairing'[p].state = pairing[p].state
       /\ closing[p].state # "absent" =>
            closing'[p].state # "absent" /\ closing'[p].epoch = closing[p].epoch
  /\ \A r \in RotOps :
       /\ turning[r].state # "absent" =>
            turning'[r].state # "absent" /\ turning'[r].pair = turning[r].pair
       /\ turning[r].state \in {"switched", "finalized"} =>
            turning'[r].state \in {"switched", "finalized"}
       /\ turning[r].state \in {"finalized", "aborted"} => turning'[r].state = turning[r].state
  /\ \A p, q \in PairOps :
       Outcome(pairing'[p].state) # Outcome(pairing[p].state)
         /\ Outcome(pairing'[q].state) # Outcome(pairing[q].state) => p = q
  /\ \A r, s \in RotOps :
       Outcome(turning'[r].state) # Outcome(turning[r].state)
         /\ Outcome(turning'[s].state) # Outcome(turning[s].state) => r = s

LEMMA PrepareSourcePairingKeeps ==
  ASSUME TargetTypeOK, TargetRows, TargetInv, NEW p \in PairOps, NEW epoch \in Epochs,
         PrepareSourcePairing(p, epoch)
  PROVE  TargetTypeOK' /\ TargetInv' /\ TargetOnward
<1>0. SourceInv /\ TurningInv
  BY DEF TargetInv
<1>1. /\ pairing[p].state = "absent" /\ \A q \in PairOps : source[q] = "none"
      /\ pairing'[p].state = "pending" /\ pairing'[p].key = p
      /\ \A q \in PairOps \ {p} : pairing'[q] = pairing[q]
      /\ source'[p] = "paused"
      /\ \A q \in PairOps \ {p} : source'[q] = source[q]
      /\ UNCHANGED <<touched, turning, closing>>
  BY DEF TargetTypeOK, TargetRows, PrepareSourcePairing
<1>2. TargetTypeOK'
  BY DEF TargetTypeOK, Keys, PrepareSourcePairing, PairingRow
<1>3. SourceInv'
  BY <1>0, <1>1 DEF SourceInv
<1>4. TurningInv'
  BY <1>0, <1>1 DEF TargetRows, TurningInv
<1>5. TargetOnward
  BY <1>1 DEF TargetOnward
<1> QED BY <1>2, <1>3, <1>4, <1>5 DEF TargetInv

LEMMA ActivateSourcePairingKeeps ==
  ASSUME TargetTypeOK, TargetRows, TargetInv, NEW p \in PairOps,
         ActivateSourcePairing(p)
  PROVE  TargetTypeOK' /\ TargetInv' /\ TargetOnward
<1>0. SourceInv /\ TurningInv
  BY DEF TargetInv
<1>1. /\ pairing[p].state = "pending" /\ source[p] = "paused"
      /\ pairing'[p].state = "active" /\ pairing'[p].key = pairing[p].key
      /\ \A q \in PairOps \ {p} : pairing'[q] = pairing[q]
      /\ source'[p] = "active"
      /\ \A q \in PairOps \ {p} : source'[q] = source[q]
      /\ UNCHANGED <<touched, turning, closing>>
  BY DEF TargetTypeOK, ActivateSourcePairing
<1>2. TargetTypeOK'
  BY DEF TargetTypeOK, TargetRows, Keys, ActivateSourcePairing, PairingRow
<1>3. SourceInv'
  BY <1>0, <1>1 DEF SourceInv
<1>4. TurningInv'
  BY <1>0, <1>1 DEF TargetRows, TurningInv
<1>5. TargetOnward
  BY <1>1 DEF TargetOnward
<1> QED BY <1>2, <1>3, <1>4, <1>5 DEF TargetInv

LEMMA AbortPendingSourcePairingKeeps ==
  ASSUME TargetTypeOK, TargetRows, TargetInv, NEW p \in PairOps,
         AbortPendingSourcePairing(p)
  PROVE  TargetTypeOK' /\ TargetInv' /\ TargetOnward
<1>0. SourceInv /\ TurningInv
  BY DEF TargetInv
<1>1. /\ pairing[p].state = "pending"
      /\ pairing'[p].state = "aborted" /\ pairing'[p].key = pairing[p].key
      /\ \A q \in PairOps \ {p} : pairing'[q] = pairing[q]
      /\ source'[p] = "none"
      /\ \A q \in PairOps \ {p} : source'[q] = source[q]
      /\ UNCHANGED <<touched, turning, closing>>
  BY DEF TargetTypeOK, AbortPendingSourcePairing
<1>2. TargetTypeOK'
  BY DEF TargetTypeOK, AbortPendingSourcePairing, PairingRow, Absent
<1>3. SourceInv'
  BY <1>0, <1>1 DEF SourceInv
<1>4. TurningInv'
  BY <1>0, <1>1 DEF TargetRows, TurningInv
<1>5. TargetOnward
  BY <1>1 DEF TargetOnward
<1> QED BY <1>2, <1>3, <1>4, <1>5 DEF TargetInv

LEMMA PrepareSourceRotationKeeps ==
  ASSUME TargetTypeOK, TargetRows, TargetInv, NEW p \in PairOps, NEW r \in RotOps,
         PrepareSourceRotation(p, r)
  PROVE  TargetTypeOK' /\ TargetInv' /\ TargetOnward
<1>0. SourceInv /\ TurningInv
  BY DEF TargetInv
<1>1. /\ turning[r].state = "absent" /\ pairing[p].state = "active" /\ source[p] = "active"
          /\ ~LiveTurning(p)
      /\ turning'[r].state = "pending" /\ turning'[r].pair = p
         /\ turning'[r].old = pairing[p].key
      /\ \A s \in RotOps \ {r} : turning'[s] = turning[s]
      /\ UNCHANGED <<pairing, source, touched, closing>>
  BY DEF TargetTypeOK, TargetRows, PrepareSourceRotation
<1>2. TargetTypeOK'
  BY DEF TargetTypeOK, TargetRows, PrepareSourceRotation, TurningRow
<1>3. SourceInv'
  BY <1>0, <1>1 DEF SourceInv
<1>4. TurningInv'
  BY <1>0, <1>1 DEF TurningInv, LiveTurning
<1>5. TargetOnward
  BY <1>1 DEF TargetOnward
<1> QED BY <1>2, <1>3, <1>4, <1>5 DEF TargetInv

LEMMA SwitchSourceRotationKeeps ==
  ASSUME TargetTypeOK, TargetRows, TargetInv, NEW r \in RotOps,
         SwitchSourceRotation(r)
  PROVE  TargetTypeOK' /\ TargetInv' /\ TargetOnward
<1>0. SourceInv /\ TurningInv
  BY DEF TargetInv
<1>1. /\ turning[r].state = "pending" /\ turning[r].pair \in PairOps
      /\ source[turning[r].pair] = "active" /\ pairing[turning[r].pair].key = turning[r].old
      /\ pairing'[turning[r].pair].key = r
         /\ pairing'[turning[r].pair].state = pairing[turning[r].pair].state
      /\ \A q \in PairOps \ {turning[r].pair} : pairing'[q] = pairing[q]
      /\ turning'[r].state = "switched" /\ turning'[r].pair = turning[r].pair
         /\ turning'[r].old = turning[r].old
      /\ \A s \in RotOps \ {r} : turning'[s] = turning[s]
      /\ UNCHANGED <<source, touched, closing>>
  BY DEF TargetTypeOK, TargetRows, SwitchSourceRotation
<1>2. TargetTypeOK'
  BY DEF TargetTypeOK, Keys, SwitchSourceRotation, TurningRow, PairingRow, Absent
<1>3. SourceInv'
  BY <1>0, <1>1 DEF SourceInv, TurningInv
<1>4. TurningInv'
  BY <1>0, <1>1 DEF TargetRows, TurningInv
<1>5. TargetOnward
  BY <1>1 DEF TargetOnward
<1> QED BY <1>2, <1>3, <1>4, <1>5 DEF TargetInv

LEMMA FinalizeSourceRotationKeeps ==
  ASSUME TargetTypeOK, TargetRows, TargetInv, NEW r \in RotOps,
         FinalizeSourceRotation(r)
  PROVE  TargetTypeOK' /\ TargetInv' /\ TargetOnward
<1>0. SourceInv /\ TurningInv
  BY DEF TargetInv
<1>1. /\ turning[r].state = "switched"
      /\ turning'[r].state = "finalized" /\ turning'[r].pair = turning[r].pair
         /\ turning'[r].old = turning[r].old
      /\ \A s \in RotOps \ {r} : turning'[s] = turning[s]
      /\ UNCHANGED <<pairing, source, touched, closing>>
  BY DEF TargetTypeOK, FinalizeSourceRotation
<1>2. TargetTypeOK'
  BY DEF TargetTypeOK, TargetRows, Keys, FinalizeSourceRotation, TurningRow
<1>3. SourceInv'
  BY <1>0, <1>1 DEF SourceInv, LiveTurning
<1>4. TurningInv'
  BY <1>0, <1>1 DEF TurningInv
<1>5. TargetOnward
  BY <1>1 DEF TargetOnward
<1> QED BY <1>2, <1>3, <1>4, <1>5 DEF TargetInv

LEMMA AbortSourceRotationKeeps ==
  ASSUME TargetTypeOK, TargetRows, TargetInv, NEW r \in RotOps,
         AbortSourceRotation(r)
  PROVE  TargetTypeOK' /\ TargetInv' /\ TargetOnward
<1>0. SourceInv /\ TurningInv
  BY DEF TargetInv
<1>1. /\ turning[r].state = "pending"
      /\ turning'[r].state = "aborted" /\ turning'[r].pair = turning[r].pair
         /\ turning'[r].old = turning[r].old
      /\ \A s \in RotOps \ {r} : turning'[s] = turning[s]
      /\ UNCHANGED <<pairing, source, touched, closing>>
  BY DEF TargetTypeOK, AbortSourceRotation
<1>2. TargetTypeOK'
  BY DEF TargetTypeOK, TargetRows, AbortSourceRotation, TurningRow
<1>3. SourceInv'
  BY <1>0, <1>1 DEF SourceInv, LiveTurning
<1>4. TurningInv'
  BY <1>0, <1>1 DEF TurningInv
<1>5. TargetOnward
  BY <1>1 DEF TargetOnward
<1> QED BY <1>2, <1>3, <1>4, <1>5 DEF TargetInv

LEMMA BeginEmptySourceDecommissionKeeps ==
  ASSUME TargetTypeOK, TargetRows, TargetInv, NEW p \in PairOps, NEW epoch \in Epochs,
         BeginEmptySourceDecommission(p, epoch)
  PROVE  TargetTypeOK' /\ TargetInv' /\ TargetOnward
<1>0. SourceInv /\ TurningInv
  BY DEF TargetInv
<1>1. /\ pairing[p].state = "active" /\ closing[p].state = "absent" /\ ~touched[p]
          /\ ~LiveTurning(p)
      /\ source'[p] = "paused"
      /\ \A q \in PairOps \ {p} : source'[q] = source[q]
      /\ closing'[p].state = "prepared" /\ closing'[p].epoch = epoch
      /\ \A q \in PairOps \ {p} : closing'[q] = closing[q]
      /\ UNCHANGED <<pairing, touched, turning>>
  BY DEF TargetTypeOK, TargetRows, BeginEmptySourceDecommission
<1>2. TargetTypeOK'
  BY DEF TargetTypeOK, TargetRows, BeginEmptySourceDecommission, ClosingRow
<1>3. SourceInv'
  BY <1>0, <1>1 DEF SourceInv, LiveTurning
<1>4. TurningInv'
  BY <1>0, <1>1 DEF TurningInv
<1>5. TargetOnward
  BY <1>1 DEF TargetOnward
<1> QED BY <1>2, <1>3, <1>4, <1>5 DEF TargetInv

LEMMA RecordEmptyDecommissionAckKeeps ==
  ASSUME TargetTypeOK, TargetRows, TargetInv, NEW p \in PairOps,
         RecordEmptyDecommissionAck(p)
  PROVE  TargetTypeOK' /\ TargetInv' /\ TargetOnward
<1>0. SourceInv /\ TurningInv
  BY DEF TargetInv
<1>1. /\ closing[p].state = "prepared"
      /\ closing'[p].state = "acknowledged" /\ closing'[p].epoch = closing[p].epoch
      /\ \A q \in PairOps \ {p} : closing'[q] = closing[q]
      /\ UNCHANGED <<pairing, source, touched, turning>>
  BY DEF TargetTypeOK, RecordEmptyDecommissionAck
<1>2. TargetTypeOK'
  BY DEF TargetTypeOK, TargetRows, RecordEmptyDecommissionAck, ClosingRow
<1>3. SourceInv'
  BY <1>0, <1>1 DEF SourceInv, LiveTurning
<1>4. TurningInv'
  BY <1>0, <1>1 DEF TurningInv
<1>5. TargetOnward
  BY <1>1 DEF TargetOnward
<1> QED BY <1>2, <1>3, <1>4, <1>5 DEF TargetInv

LEMMA AdmitSyncKeeps ==
  ASSUME TargetTypeOK, TargetRows, TargetInv, NEW p \in PairOps,
         AdmitSync(p)
  PROVE  TargetTypeOK' /\ TargetInv' /\ TargetOnward
<1>0. SourceInv /\ TurningInv
  BY DEF TargetInv
<1>1. /\ closing[p].state = "absent"
      /\ \A q \in PairOps \ {p} : touched'[q] = touched[q]
      /\ UNCHANGED <<pairing, source, turning, closing>>
  BY DEF TargetRows, AdmitSync, NotClosing
<1>2. TargetTypeOK'
  BY DEF TargetTypeOK, AdmitSync
<1>3. SourceInv'
  BY <1>0, <1>1 DEF SourceInv, LiveTurning
<1>4. TurningInv'
  BY <1>0, <1>1 DEF TurningInv
<1>5. TargetOnward
  BY <1>1 DEF TargetOnward
<1> QED BY <1>2, <1>3, <1>4, <1>5 DEF TargetInv

LEMMA PauseSourceKeeps ==
  ASSUME TargetTypeOK, TargetRows, TargetInv, NEW p \in PairOps,
         PauseSource(p)
  PROVE  TargetTypeOK' /\ TargetInv' /\ TargetOnward
<1>0. SourceInv /\ TurningInv
  BY DEF TargetInv
<1>1. /\ source[p] = "active" /\ source'[p] = "paused"
      /\ \A q \in PairOps \ {p} : source'[q] = source[q]
      /\ UNCHANGED <<pairing, touched, turning, closing>>
  BY DEF TargetTypeOK, PauseSource
<1>2. TargetTypeOK'
  BY DEF TargetTypeOK, PauseSource
<1>3. SourceInv'
  BY <1>0, <1>1 DEF SourceInv
<1>4. TurningInv'
  BY <1>0, <1>1 DEF TurningInv
<1>5. TargetOnward
  BY <1>1 DEF TargetOnward
<1> QED BY <1>2, <1>3, <1>4, <1>5 DEF TargetInv

LEMMA ResumeDataSourceKeeps ==
  ASSUME TargetTypeOK, TargetRows, TargetInv, NEW p \in PairOps,
         ResumeDataSource(p)
  PROVE  TargetTypeOK' /\ TargetInv' /\ TargetOnward
<1>0. SourceInv /\ TurningInv
  BY DEF TargetInv
<1>1. /\ pairing[p].state = "active" /\ closing[p].state = "absent" /\ source[p] = "paused"
      /\ source'[p] = "active"
      /\ \A q \in PairOps \ {p} : source'[q] = source[q]
      /\ UNCHANGED <<pairing, touched, turning, closing>>
  BY DEF TargetTypeOK, TargetRows, ResumeDataSource, NotClosing
<1>2. TargetTypeOK'
  BY DEF TargetTypeOK, ResumeDataSource
<1>3. SourceInv'
  BY <1>0, <1>1 DEF SourceInv
<1>4. TurningInv'
  BY <1>0, <1>1 DEF TurningInv
<1>5. TargetOnward
  BY <1>1 DEF TargetOnward
<1> QED BY <1>2, <1>3, <1>4, <1>5 DEF TargetInv

----------------------------------------------------------------------------
(* Both sides stay in step, whichever of them moves. *)

LEMMA RegistryInStep ==
  ASSUME RegistryInv, RegistryInv', TargetInv, RegistryRows, TargetRows,
         RowsInv, KeysInv, ClosingInv,
         NEW M, \A m \in M : Sent(m), Onward, MovedBy(M), RegistryRows', UNCHANGED targetVars
  PROVE  RowsInv' /\ KeysInv' /\ ClosingInv'
<1>0. UNCHANGED <<pairing, source, touched, turning, closing>>
  BY DEF targetVars
<1>1. \A r \in RotOps : rotations'[r].state = "finalized" =>
        rotations[r].state = "finalized" \/ turning[r].state \in {"switched", "finalized"}
  BY DEF MovedBy, Sent, Carried
<1>2. \A r \in RotOps : rotations'[r].state \in Carried => turning[r].state # "absent"
  BY DEF MovedBy, Sent, RowsInv
<1>3. RowsInv'
  BY <1>0, <1>1, <1>2 DEF RowsInv, Onward
<1>4. KeysInv'
  <2> SUFFICES ASSUME NEW p \in PairOps, pairing[p].state = "active"
               PROVE  KeyInStep(p)'
    BY <1>0 DEF KeysInv
  <2>1. KeyInStep(p) /\ pairs[p].state # "absent"
    BY DEF KeysInv, RowsInv
  <2>2. CASE pairs'[p].key = pairs[p].key
    <3>1. ASSUME NEW r \in RotOps, turning[r].state = "pending",
              rotations[r].state = "committed"
          PROVE  rotations'[r].state = "committed" /\ rotations'[r].old = rotations[r].old
      <4>1. rotations'[r].state \in Carried /\ rotations'[r].old = rotations[r].old
        BY <3>1 DEF Onward, Carried
      <4>2. rotations'[r].state # "finalized"
        BY <3>1, <1>1
      <4> QED BY <4>1, <4>2 DEF Carried
    <3> QED BY <1>0, <2>1, <2>2, <3>1 DEF KeyInStep
  <2>3. CASE pairs'[p].key # pairs[p].key
    <3>1. PICK m \in M :
            /\ m.kind = "rotate" /\ m.op \in RotOps /\ m.pair = p
            /\ rotations[m.op].state = "pending" /\ rotations'[m.op].state = "committed"
            /\ rotations[m.op].old = pairs[p].key /\ pairs'[p].key = m.op
      BY <2>1, <2>3 DEF MovedBy
    <3>2. turning[m.op].state # "absent" /\ turning[m.op].pair = p
      BY <3>1 DEF Sent
    <3>3. turning[m.op].state = "pending"
      BY <3>1, <3>2 DEF RowsInv, TargetRows, Carried
    <3>4. pairs[p].key = pairing[p].key
      <4> SUFFICES ASSUME NEW r \in RotOps, rotations[r].state = "committed", pairs[p].key = r
                   PROVE  FALSE
        BY <2>1 DEF KeyInStep
      <4>1. r = m.op
        BY <3>1 DEF RegistryInv, RotationInv
      <4> QED BY <3>1, <4>1
    <3>5. rotations'[m.op].old = rotations[m.op].old
      BY <3>1 DEF Onward
    <3> QED BY <1>0, <3>1, <3>2, <3>3, <3>4, <3>5 DEF KeyInStep
  <2> QED BY <2>2, <2>3
<1>5. ClosingInv'
  <2>1. decommission'.state \in {"acknowledged", "finalized"} =>
          /\ closing[decommission.pair].state # "absent"
          /\ decommission'.pair = decommission.pair
    BY DEF ClosingInv, Onward, MovedBy, Sent
  <2>2. \A p \in PairOps : closing[p].state # "absent" =>
          /\ decommission'.state # "absent" /\ decommission'.pair = decommission.pair
          /\ decommission'.key = decommission.key /\ decommission'.epoch = decommission.epoch
    BY DEF ClosingInv, Onward
  <2> QED BY <1>0, <2>1, <2>2 DEF ClosingInv
<1> QED BY <1>3, <1>4, <1>5

LEMMA PrepareSourcePairingInStep ==
  ASSUME RegistryInv, TargetInv, RegistryRows, TargetRows, RowsInv, KeysInv, ClosingInv,
         TargetTypeOK, NEW p \in PairOps, NEW epoch \in Epochs, PrepareSourcePairing(p, epoch),
         pairs[p].state # "absent",
         UNCHANGED registryVars
  PROVE  RowsInv' /\ KeysInv' /\ ClosingInv'
<1>0. UNCHANGED <<binding, keys, pairs, rotations, decommission>>
  BY DEF registryVars
<1>1. /\ pairing[p].state = "absent" /\ \A q \in PairOps : source[q] = "none"
      /\ pairing'[p].state = "pending" /\ pairing'[p].key = p
      /\ \A q \in PairOps \ {p} : pairing'[q] = pairing[q]
      /\ source'[p] = "paused"
      /\ \A q \in PairOps \ {p} : source'[q] = source[q]
      /\ UNCHANGED <<touched, turning, closing>>
  BY DEF TargetTypeOK, TargetRows, PrepareSourcePairing
<1>2. RowsInv'
  BY <1>0, <1>1 DEF RowsInv
<1>3. KeysInv'
  BY <1>0, <1>1 DEF KeysInv, KeyInStep
<1>4. ClosingInv'
  BY <1>0, <1>1 DEF ClosingInv, TargetInv, SourceInv
<1> QED BY <1>2, <1>3, <1>4

LEMMA ActivateSourcePairingInStep ==
  ASSUME RegistryInv, TargetInv, RegistryRows, TargetRows, RowsInv, KeysInv, ClosingInv,
         TargetTypeOK, NEW p \in PairOps, ActivateSourcePairing(p),
         pairs[p].state \in {"active", "retired"},
         UNCHANGED registryVars
  PROVE  RowsInv' /\ KeysInv' /\ ClosingInv'
<1>0. UNCHANGED <<binding, keys, pairs, rotations, decommission>>
  BY DEF registryVars
<1>1. /\ pairing[p].state = "pending" /\ source[p] = "paused"
      /\ pairing'[p].state = "active" /\ pairing'[p].key = pairing[p].key
      /\ \A q \in PairOps \ {p} : pairing'[q] = pairing[q]
      /\ source'[p] = "active"
      /\ \A q \in PairOps \ {p} : source'[q] = source[q]
      /\ UNCHANGED <<touched, turning, closing>>
  BY DEF TargetTypeOK, ActivateSourcePairing
<1>a. pairs[p].key = p /\ pairing[p].key = p
  <2>1. pairing[p].key = p
    BY <1>1 DEF TargetInv, SourceInv
  <2>2. ASSUME pairs[p].key # p
        PROVE  FALSE
    <3>1. /\ pairs[p].key \in RotOps /\ rotations[pairs[p].key].state \in Carried
          /\ rotations[pairs[p].key].pair = p
      BY <2>2 DEF RegistryInv, PairInv
    <3>2. turning[pairs[p].key].state # "absent" /\ turning[pairs[p].key].pair = p
      BY <3>1 DEF RowsInv
    <3> QED BY <1>1, <3>1, <3>2 DEF TargetInv, TurningInv
  <2> QED BY <2>1, <2>2
<1>2. RowsInv'
  BY <1>0, <1>1 DEF RowsInv
<1>3. KeysInv'
  BY <1>0, <1>1, <1>a DEF KeysInv, KeyInStep
<1>4. ClosingInv'
  BY <1>0, <1>1 DEF ClosingInv
<1> QED BY <1>2, <1>3, <1>4

LEMMA AbortPendingSourcePairingInStep ==
  ASSUME RegistryInv, TargetInv, RegistryRows, TargetRows, RowsInv, KeysInv, ClosingInv,
         TargetTypeOK, NEW p \in PairOps, AbortPendingSourcePairing(p),
         pairs[p].state = "aborted",
         UNCHANGED registryVars
  PROVE  RowsInv' /\ KeysInv' /\ ClosingInv'
<1>0. UNCHANGED <<binding, keys, pairs, rotations, decommission>>
  BY DEF registryVars
<1>1. /\ pairing[p].state = "pending"
      /\ pairing'[p].state = "aborted" /\ pairing'[p].key = pairing[p].key
      /\ \A q \in PairOps \ {p} : pairing'[q] = pairing[q]
      /\ source'[p] = "none"
      /\ \A q \in PairOps \ {p} : source'[q] = source[q]
      /\ UNCHANGED <<touched, turning, closing>>
  BY DEF TargetTypeOK, AbortPendingSourcePairing
<1>2. RowsInv'
  BY <1>0, <1>1 DEF RowsInv
<1>3. KeysInv'
  BY <1>0, <1>1 DEF KeysInv, KeyInStep
<1>4. ClosingInv'
  BY <1>0, <1>1 DEF ClosingInv
<1> QED BY <1>2, <1>3, <1>4

LEMMA PrepareSourceRotationInStep ==
  ASSUME RegistryInv, TargetInv, RegistryRows, TargetRows, RowsInv, KeysInv, ClosingInv,
         TargetTypeOK, NEW p \in PairOps, NEW r \in RotOps, PrepareSourceRotation(p, r),
         Inspected(r),
         UNCHANGED registryVars
  PROVE  RowsInv' /\ KeysInv' /\ ClosingInv'
<1>0. UNCHANGED <<binding, keys, pairs, rotations, decommission>>
  BY DEF registryVars
<1>1. /\ turning[r].state = "absent" /\ pairing[p].state = "active" /\ source[p] = "active"
          /\ ~LiveTurning(p)
      /\ turning'[r].state = "pending" /\ turning'[r].pair = p
         /\ turning'[r].old = pairing[p].key
      /\ \A s \in RotOps \ {r} : turning'[s] = turning[s]
      /\ UNCHANGED <<pairing, source, touched, closing>>
  BY DEF TargetTypeOK, TargetRows, PrepareSourceRotation
<1>a. rotations[r].state # "absent" /\ rotations[r].pair = p
          /\ rotations[r].state \notin Carried
  <2>1. Published /\ Accepted(r)
    BY DEF Inspected
  <2>2. rotations[r].state # "absent"
    BY <2>1 DEF Accepted, RegistryInv, KeyInv
  <2>3. pairs[rotations[r].pair].state \in {"active", "retired"}
            /\ rotations[r].pair \in PairOps
    BY <2>2 DEF RegistryInv, RotationInv, RegistryRows
  <2>4. pairs[p].state \in {"active", "retired"}
    BY <1>1 DEF RowsInv
  <2>5. rotations[r].pair = p
    BY <2>3, <2>4 DEF RegistryInv, PairInv
  <2> QED BY <1>1, <2>2, <2>5 DEF RowsInv
<1>2. RowsInv'
  BY <1>0, <1>1, <1>a DEF RowsInv
<1>3. KeysInv'
  BY <1>0, <1>1 DEF KeysInv, KeyInStep
<1>4. ClosingInv'
  BY <1>0, <1>1 DEF ClosingInv
<1> QED BY <1>2, <1>3, <1>4

LEMMA SwitchSourceRotationInStep ==
  ASSUME RegistryInv, TargetInv, RegistryRows, TargetRows, RowsInv, KeysInv, ClosingInv,
         TargetTypeOK, NEW r \in RotOps, SwitchSourceRotation(r),
         rotations[r].state \in Carried,
         UNCHANGED registryVars
  PROVE  RowsInv' /\ KeysInv' /\ ClosingInv'
<1>0. UNCHANGED <<binding, keys, pairs, rotations, decommission>>
  BY DEF registryVars
<1>1. /\ turning[r].state = "pending" /\ turning[r].pair \in PairOps
      /\ source[turning[r].pair] = "active" /\ pairing[turning[r].pair].key = turning[r].old
      /\ pairing'[turning[r].pair].key = r
         /\ pairing'[turning[r].pair].state = pairing[turning[r].pair].state
      /\ \A q \in PairOps \ {turning[r].pair} : pairing'[q] = pairing[q]
      /\ turning'[r].state = "switched" /\ turning'[r].pair = turning[r].pair
         /\ turning'[r].old = turning[r].old
      /\ \A s \in RotOps \ {r} : turning'[s] = turning[s]
      /\ UNCHANGED <<source, touched, closing>>
  BY DEF TargetTypeOK, TargetRows, SwitchSourceRotation
<1>a. rotations[r].state = "committed" /\ rotations[r].pair = turning[r].pair
  BY <1>1 DEF RowsInv, Carried
<1>b. pairs[turning[r].pair].key = r
  BY <1>a DEF RegistryInv, RotationInv
<1>2. RowsInv'
  BY <1>0, <1>1 DEF RowsInv
<1>3. KeysInv'
  BY <1>0, <1>1, <1>b DEF KeysInv, KeyInStep
<1>4. ClosingInv'
  BY <1>0, <1>1 DEF ClosingInv, TargetInv, SourceInv
<1> QED BY <1>2, <1>3, <1>4

LEMMA FinalizeSourceRotationInStep ==
  ASSUME RegistryInv, TargetInv, RegistryRows, TargetRows, RowsInv, KeysInv, ClosingInv,
         TargetTypeOK, NEW r \in RotOps, FinalizeSourceRotation(r),
         rotations[r].state = "finalized",
         UNCHANGED registryVars
  PROVE  RowsInv' /\ KeysInv' /\ ClosingInv'
<1>0. UNCHANGED <<binding, keys, pairs, rotations, decommission>>
  BY DEF registryVars
<1>1. /\ turning[r].state = "switched"
      /\ turning'[r].state = "finalized" /\ turning'[r].pair = turning[r].pair
         /\ turning'[r].old = turning[r].old
      /\ \A s \in RotOps \ {r} : turning'[s] = turning[s]
      /\ UNCHANGED <<pairing, source, touched, closing>>
  BY DEF TargetTypeOK, FinalizeSourceRotation
<1>2. RowsInv'
  BY <1>0, <1>1 DEF RowsInv
<1>3. KeysInv'
  BY <1>0, <1>1 DEF KeysInv, KeyInStep
<1>4. ClosingInv'
  BY <1>0, <1>1 DEF ClosingInv
<1> QED BY <1>2, <1>3, <1>4

LEMMA AbortSourceRotationInStep ==
  ASSUME RegistryInv, TargetInv, RegistryRows, TargetRows, RowsInv, KeysInv, ClosingInv,
         TargetTypeOK, NEW r \in RotOps, AbortSourceRotation(r),
         rotations[r].state = "aborted",
         UNCHANGED registryVars
  PROVE  RowsInv' /\ KeysInv' /\ ClosingInv'
<1>0. UNCHANGED <<binding, keys, pairs, rotations, decommission>>
  BY DEF registryVars
<1>1. /\ turning[r].state = "pending"
      /\ turning'[r].state = "aborted" /\ turning'[r].pair = turning[r].pair
         /\ turning'[r].old = turning[r].old
      /\ \A s \in RotOps \ {r} : turning'[s] = turning[s]
      /\ UNCHANGED <<pairing, source, touched, closing>>
  BY DEF TargetTypeOK, AbortSourceRotation
<1>2. RowsInv'
  BY <1>0, <1>1 DEF RowsInv
<1>3. KeysInv'
  BY <1>0, <1>1 DEF KeysInv, KeyInStep
<1>4. ClosingInv'
  BY <1>0, <1>1 DEF ClosingInv
<1> QED BY <1>2, <1>3, <1>4

LEMMA BeginEmptySourceDecommissionInStep ==
  ASSUME RegistryInv, TargetInv, RegistryRows, TargetRows, RowsInv, KeysInv, ClosingInv,
         TargetTypeOK, NEW p \in PairOps, NEW epoch \in Epochs, BeginEmptySourceDecommission(p,
            epoch),
         IntentRead(p), epoch = decommission.epoch,
         UNCHANGED registryVars
  PROVE  RowsInv' /\ KeysInv' /\ ClosingInv'
<1>0. UNCHANGED <<binding, keys, pairs, rotations, decommission>>
  BY DEF registryVars
<1>1. /\ pairing[p].state = "active" /\ closing[p].state = "absent" /\ ~touched[p]
          /\ ~LiveTurning(p)
      /\ source'[p] = "paused"
      /\ \A q \in PairOps \ {p} : source'[q] = source[q]
      /\ closing'[p].state = "prepared" /\ closing'[p].epoch = epoch
      /\ \A q \in PairOps \ {p} : closing'[q] = closing[q]
      /\ UNCHANGED <<pairing, touched, turning>>
  BY DEF TargetTypeOK, TargetRows, BeginEmptySourceDecommission
<1>a. /\ decommission.state # "absent" /\ decommission.pair = p
      /\ decommission.key = pairing[p].key
  BY DEF IntentRead
<1>2. RowsInv'
  BY <1>0, <1>1 DEF RowsInv
<1>3. KeysInv'
  BY <1>0, <1>1 DEF KeysInv, KeyInStep
<1>4. ClosingInv'
  BY <1>0, <1>1, <1>a DEF ClosingInv
<1> QED BY <1>2, <1>3, <1>4

LEMMA RecordEmptyDecommissionAckInStep ==
  ASSUME RegistryInv, TargetInv, RegistryRows, TargetRows, RowsInv, KeysInv, ClosingInv,
         TargetTypeOK, NEW p \in PairOps, RecordEmptyDecommissionAck(p),
         UNCHANGED registryVars
  PROVE  RowsInv' /\ KeysInv' /\ ClosingInv'
<1>0. UNCHANGED <<binding, keys, pairs, rotations, decommission>>
  BY DEF registryVars
<1>1. /\ closing[p].state = "prepared"
      /\ closing'[p].state = "acknowledged" /\ closing'[p].epoch = closing[p].epoch
      /\ \A q \in PairOps \ {p} : closing'[q] = closing[q]
      /\ UNCHANGED <<pairing, source, touched, turning>>
  BY DEF TargetTypeOK, RecordEmptyDecommissionAck
<1>2. RowsInv'
  BY <1>0, <1>1 DEF RowsInv
<1>3. KeysInv'
  BY <1>0, <1>1 DEF KeysInv, KeyInStep
<1>4. ClosingInv'
  BY <1>0, <1>1 DEF ClosingInv
<1> QED BY <1>2, <1>3, <1>4

LEMMA AdmitSyncInStep ==
  ASSUME RegistryInv, TargetInv, RegistryRows, TargetRows, RowsInv, KeysInv, ClosingInv,
         TargetTypeOK, NEW p \in PairOps, AdmitSync(p),
         UNCHANGED registryVars
  PROVE  RowsInv' /\ KeysInv' /\ ClosingInv'
<1>0. UNCHANGED <<binding, keys, pairs, rotations, decommission>>
  BY DEF registryVars
<1>1. /\ closing[p].state = "absent"
      /\ \A q \in PairOps \ {p} : touched'[q] = touched[q]
      /\ UNCHANGED <<pairing, source, turning, closing>>
  BY DEF TargetRows, AdmitSync, NotClosing
<1>2. RowsInv'
  BY <1>0, <1>1 DEF RowsInv
<1>3. KeysInv'
  BY <1>0, <1>1 DEF KeysInv, KeyInStep
<1>4. ClosingInv'
  BY <1>0, <1>1 DEF ClosingInv
<1> QED BY <1>2, <1>3, <1>4

LEMMA PauseSourceInStep ==
  ASSUME RegistryInv, TargetInv, RegistryRows, TargetRows, RowsInv, KeysInv, ClosingInv,
         TargetTypeOK, NEW p \in PairOps, PauseSource(p),
         UNCHANGED registryVars
  PROVE  RowsInv' /\ KeysInv' /\ ClosingInv'
<1>0. UNCHANGED <<binding, keys, pairs, rotations, decommission>>
  BY DEF registryVars
<1>1. /\ source[p] = "active" /\ source'[p] = "paused"
      /\ \A q \in PairOps \ {p} : source'[q] = source[q]
      /\ UNCHANGED <<pairing, touched, turning, closing>>
  BY DEF TargetTypeOK, PauseSource
<1>2. RowsInv'
  BY <1>0, <1>1 DEF RowsInv
<1>3. KeysInv'
  BY <1>0, <1>1 DEF KeysInv, KeyInStep
<1>4. ClosingInv'
  BY <1>0, <1>1 DEF ClosingInv
<1> QED BY <1>2, <1>3, <1>4

LEMMA ResumeDataSourceInStep ==
  ASSUME RegistryInv, TargetInv, RegistryRows, TargetRows, RowsInv, KeysInv, ClosingInv,
         TargetTypeOK, NEW p \in PairOps, ResumeDataSource(p),
         UNCHANGED registryVars
  PROVE  RowsInv' /\ KeysInv' /\ ClosingInv'
<1>0. UNCHANGED <<binding, keys, pairs, rotations, decommission>>
  BY DEF registryVars
<1>1. /\ pairing[p].state = "active" /\ closing[p].state = "absent" /\ source[p] = "paused"
      /\ source'[p] = "active"
      /\ \A q \in PairOps \ {p} : source'[q] = source[q]
      /\ UNCHANGED <<pairing, touched, turning, closing>>
  BY DEF TargetTypeOK, TargetRows, ResumeDataSource, NotClosing
<1>2. RowsInv'
  BY <1>0, <1>1 DEF RowsInv
<1>3. KeysInv'
  BY <1>0, <1>1 DEF KeysInv, KeyInStep
<1>4. ClosingInv'
  BY <1>0, <1>1 DEF ClosingInv
<1> QED BY <1>2, <1>3, <1>4

----------------------------------------------------------------------------
(* One side's step leaves the rows of both in order. *)

Core ==
  /\ RegistryTypeOK /\ TargetTypeOK /\ RegistryInv /\ TargetInv
  /\ RowsInv /\ KeysInv /\ ClosingInv

(* A local step of WeKnora, with what its handler knows of Nextcloud *)
TargetMoves ==
  /\ UNCHANGED registryVars
  /\ \/ \E p \in PairOps :
          \/ \E e \in Epochs : PrepareSourcePairing(p, e) /\ pairs[p].state # "absent"
          \/ ActivateSourcePairing(p) /\ pairs[p].state \in {"active", "retired"}
          \/ AbortPendingSourcePairing(p) /\ pairs[p].state = "aborted"
          \/ \E r \in RotOps : PrepareSourceRotation(p, r) /\ Inspected(r)
          \/ \E e \in Epochs : /\ BeginEmptySourceDecommission(p, e)
                               /\ IntentRead(p) /\ e = decommission.epoch
          \/ RecordEmptyDecommissionAck(p)
          \/ AdmitSync(p) \/ PauseSource(p) \/ ResumeDataSource(p)
     \/ \E r \in RotOps :
          \/ SwitchSourceRotation(r) /\ rotations[r].state \in Carried
          \/ FinalizeSourceRotation(r) /\ rotations[r].state = "finalized"
          \/ AbortSourceRotation(r) /\ rotations[r].state = "aborted"
     \/ UNCHANGED targetVars

(* One side moves, onward, and the other stands still. *)
Moves ==
  /\ Onward /\ TargetOnward
  /\ UNCHANGED registryVars \/ UNCHANGED targetVars

LEMMA AdministeringKeepsCore ==
  ASSUME Core, Administering, UNCHANGED targetVars
  PROVE  Core' /\ Moves
<1>1. RegistryTypeOK' /\ RegistryInv'
  BY AdministeringKeeps DEF Core
<1>2. Onward /\ MovedBy({})
  BY AdministeringMoves DEF Core
<1>3. TargetTypeOK' /\ TargetInv' /\ TargetOnward
  BY DEF Core, TargetTypeOK, TargetInv, SourceInv, TurningInv, LiveTurning, TargetOnward,
       targetVars
<1>4. RegistryRows /\ TargetRows /\ RegistryRows'
  BY <1>1, RowsOf, RowsOfNext, TargetRowsOf DEF Core
<1>5. RowsInv' /\ KeysInv' /\ ClosingInv'
  BY <1>1, <1>2, <1>4, RegistryInStep DEF Core
<1> QED BY <1>1, <1>2, <1>3, <1>5 DEF Core, Moves

LEMMA ServingKeepsCore ==
  ASSUME Core, NEW m \in MachineRequest, Sent(m), Serve(m), UNCHANGED targetVars
  PROVE  Core' /\ Moves
<1>1. RegistryTypeOK' /\ RegistryInv'
  BY ServeKeeps DEF Core
<1>2. Onward /\ MovedBy({m})
  BY ServeMoves DEF Core
<1>3. TargetTypeOK' /\ TargetInv' /\ TargetOnward
  BY DEF Core, TargetTypeOK, TargetInv, SourceInv, TurningInv, LiveTurning, TargetOnward,
       targetVars
<1>4. RegistryRows /\ TargetRows /\ RegistryRows'
  BY <1>1, RowsOf, RowsOfNext, TargetRowsOf DEF Core
<1>5. \A l \in {m} : Sent(l)
  OBVIOUS
<1>6. RowsInv' /\ KeysInv' /\ ClosingInv'
  BY <1>1, <1>2, <1>4, RegistryInStep DEF Core
<1> QED BY <1>1, <1>2, <1>3, <1>6 DEF Core, Moves

LEMMA TargetKeepsCore ==
  ASSUME Core, TargetMoves
  PROVE  Core' /\ Moves
<1>0. /\ RegistryRows /\ TargetRows
      /\ RegistryTypeOK /\ TargetTypeOK /\ RegistryInv /\ TargetInv
      /\ RowsInv /\ KeysInv /\ ClosingInv
      /\ UNCHANGED registryVars
  BY RowsOf, TargetRowsOf DEF Core, TargetMoves
<1>1. RegistryTypeOK' /\ RegistryInv'
  BY <1>0, RegistryUnchanged
<1>2. Onward
  BY <1>0 DEF Onward, registryVars
<1> SUFFICES TargetTypeOK' /\ TargetInv' /\ TargetOnward /\ RowsInv' /\ KeysInv' /\ ClosingInv'
  BY <1>0, <1>1, <1>2 DEF Core, Moves
<1>3. ASSUME NEW p \in PairOps, NEW e \in Epochs, PrepareSourcePairing(p, e),
          pairs[p].state # "absent"
      PROVE  TargetTypeOK' /\ TargetInv' /\ TargetOnward /\ RowsInv' /\ KeysInv' /\ ClosingInv'
  BY <1>0, <1>3, PrepareSourcePairingKeeps, PrepareSourcePairingInStep
<1>4. ASSUME NEW p \in PairOps, ActivateSourcePairing(p), pairs[p].state \in {"active",
          "retired"}
      PROVE  TargetTypeOK' /\ TargetInv' /\ TargetOnward /\ RowsInv' /\ KeysInv' /\ ClosingInv'
  BY <1>0, <1>4, ActivateSourcePairingKeeps, ActivateSourcePairingInStep
<1>5. ASSUME NEW p \in PairOps, AbortPendingSourcePairing(p), pairs[p].state = "aborted"
      PROVE  TargetTypeOK' /\ TargetInv' /\ TargetOnward /\ RowsInv' /\ KeysInv' /\ ClosingInv'
  BY <1>0, <1>5, AbortPendingSourcePairingKeeps, AbortPendingSourcePairingInStep
<1>6. ASSUME NEW p \in PairOps, NEW r \in RotOps, PrepareSourceRotation(p, r), Inspected(r)
      PROVE  TargetTypeOK' /\ TargetInv' /\ TargetOnward /\ RowsInv' /\ KeysInv' /\ ClosingInv'
  BY <1>0, <1>6, PrepareSourceRotationKeeps, PrepareSourceRotationInStep
<1>7. ASSUME NEW p \in PairOps, NEW e \in Epochs, BeginEmptySourceDecommission(p, e),
          IntentRead(p),
             e = decommission.epoch
      PROVE  TargetTypeOK' /\ TargetInv' /\ TargetOnward /\ RowsInv' /\ KeysInv' /\ ClosingInv'
  BY <1>0, <1>7, BeginEmptySourceDecommissionKeeps, BeginEmptySourceDecommissionInStep
<1>8. ASSUME NEW p \in PairOps, RecordEmptyDecommissionAck(p)
      PROVE  TargetTypeOK' /\ TargetInv' /\ TargetOnward /\ RowsInv' /\ KeysInv' /\ ClosingInv'
  BY <1>0, <1>8, RecordEmptyDecommissionAckKeeps, RecordEmptyDecommissionAckInStep
<1>9. ASSUME NEW p \in PairOps, AdmitSync(p)
      PROVE  TargetTypeOK' /\ TargetInv' /\ TargetOnward /\ RowsInv' /\ KeysInv' /\ ClosingInv'
  BY <1>0, <1>9, AdmitSyncKeeps, AdmitSyncInStep
<1>10. ASSUME NEW p \in PairOps, PauseSource(p)
      PROVE  TargetTypeOK' /\ TargetInv' /\ TargetOnward /\ RowsInv' /\ KeysInv' /\ ClosingInv'
  BY <1>0, <1>10, PauseSourceKeeps, PauseSourceInStep
<1>11. ASSUME NEW p \in PairOps, ResumeDataSource(p)
      PROVE  TargetTypeOK' /\ TargetInv' /\ TargetOnward /\ RowsInv' /\ KeysInv' /\ ClosingInv'
  BY <1>0, <1>11, ResumeDataSourceKeeps, ResumeDataSourceInStep
<1>12. ASSUME NEW r \in RotOps, SwitchSourceRotation(r), rotations[r].state \in Carried
      PROVE  TargetTypeOK' /\ TargetInv' /\ TargetOnward /\ RowsInv' /\ KeysInv' /\ ClosingInv'
  BY <1>0, <1>12, SwitchSourceRotationKeeps, SwitchSourceRotationInStep
<1>13. ASSUME NEW r \in RotOps, FinalizeSourceRotation(r), rotations[r].state = "finalized"
      PROVE  TargetTypeOK' /\ TargetInv' /\ TargetOnward /\ RowsInv' /\ KeysInv' /\ ClosingInv'
  BY <1>0, <1>13, FinalizeSourceRotationKeeps, FinalizeSourceRotationInStep
<1>14. ASSUME NEW r \in RotOps, AbortSourceRotation(r), rotations[r].state = "aborted"
      PROVE  TargetTypeOK' /\ TargetInv' /\ TargetOnward /\ RowsInv' /\ KeysInv' /\ ClosingInv'
  BY <1>0, <1>14, AbortSourceRotationKeeps, AbortSourceRotationInStep
<1>15. CASE UNCHANGED targetVars
  <2>1. TargetTypeOK' /\ TargetInv' /\ TargetOnward
    BY <1>0, <1>15 DEF TargetTypeOK, TargetInv, SourceInv, TurningInv, LiveTurning,
         TargetOnward, targetVars
  <2>2. RowsInv' /\ KeysInv' /\ ClosingInv'
    BY <1>0, <1>15 DEF RowsInv, KeysInv, KeyInStep, ClosingInv, targetVars, registryVars
  <2> QED BY <2>1, <2>2
<1> QED
  BY <1>3, <1>4, <1>5, <1>6, <1>7, <1>8, <1>9, <1>10, <1>11, <1>12, <1>13, <1>14, <1>15
       DEF TargetMoves

----------------------------------------------------------------------------
(* Handlers and their messages *)

HandlerRows ==
  /\ \A h \in Handlers :
       /\ handler[h].pc \in {"idle", "posted", "answered"}
       /\ handler[h].pc = "idle" <=> handler[h] = Idle
       /\ handler[h].pc # "idle" => handler[h].msg \in MachineRequest
  /\ late \subseteq MachineRequest

LEMMA HandlerRowsOf == ASSUME TypeOK PROVE HandlerRows
<1>1. ASSUME NEW h \in Handlers
      PROVE  /\ handler[h].pc \in {"idle", "posted", "answered"}
             /\ handler[h].pc = "idle" <=> handler[h] = Idle
             /\ handler[h].pc # "idle" => handler[h].msg \in MachineRequest
  <2>1. handler[h] \in HandlerState
    BY DEF TypeOK
  <2> QED BY <2>1 DEF HandlerState, Idle
<1> QED BY <1>1 DEF HandlerRows, TypeOK

(* What was sent and what was answered stays so. *)
LEMMA MessagesLast ==
  ASSUME Moves, NEW m \in MachineRequest
  PROVE  /\ Sent(m) => Sent(m)'
         /\ \A a : True(m, a) => True(m, a)'
<1>1. /\ m.kind \in {"commit", "abort", "acknowledge"} => m.op \in PairOps
      /\ m.kind \in {"rotate", "finalize", "unrotate"} => m.op \in RotOps
  BY RequestTypes
<1>2. Sent(m) => Sent(m)'
  BY <1>1 DEF Moves, Sent, TargetOnward
<1>3. ASSUME NEW a, True(m, a)
      PROVE  True(m, a)'
  BY <1>1, <1>3 DEF Moves, True, Onward
<1> QED BY <1>2, <1>3

LEMMA NobodyMoves ==
  ASSUME Core', TypeOK, MessageInv, Moves, UNCHANGED <<handler, late>>
  PROVE  TypeOK' /\ MessageInv'
<1>1. HandlerRows
  BY HandlerRowsOf
<1>2. TypeOK'
  BY DEF TypeOK, Core
<1>3. \A m \in MachineRequest : (Sent(m) => Sent(m)') /\ \A a : True(m, a) => True(m, a)'
  BY MessagesLast
<1>4. MessageInv'
  BY <1>1, <1>3 DEF MessageInv, HandlerRows
<1> QED BY <1>2, <1>4

(* A handler sends a request that its row stands behind. *)
LEMMA Posting ==
  ASSUME Core', TypeOK, MessageInv, Moves, UNCHANGED late,
         NEW h \in Handlers, NEW n \in MachineRequest, Sent(n)', Post(h, n)
  PROVE  TypeOK' /\ MessageInv'
<1>1. HandlerRows
  BY HandlerRowsOf
<1>2. /\ handler'[h].pc = "posted" /\ handler'[h].msg = n
      /\ handler'[h] \in HandlerState
      /\ \A g \in Handlers \ {h} : handler'[g] = handler[g]
      /\ handler' \in [Handlers -> HandlerState]
  BY DEF Post, TypeOK, HandlerState
<1>3. TypeOK'
  BY <1>2 DEF TypeOK, Core
<1>4. \A m \in MachineRequest : (Sent(m) => Sent(m)') /\ \A a : True(m, a) => True(m, a)'
  BY MessagesLast
<1>5. MessageInv'
  BY <1>1, <1>2, <1>4 DEF MessageInv, HandlerRows
<1> QED BY <1>3, <1>5

(* A handler ends, and its request may stay on its way. *)
LEMMA Returning ==
  ASSUME Core', TypeOK, MessageInv, Moves, NEW h \in Handlers, Return(h),
         late' = late \/ (handler[h].pc = "posted" /\ late' = late \cup {handler[h].msg})
  PROVE  TypeOK' /\ MessageInv'
<1>1. HandlerRows
  BY HandlerRowsOf
<1>2. /\ handler'[h].pc = "idle"
      /\ \A g \in Handlers \ {h} : handler'[g] = handler[g]
      /\ handler' \in [Handlers -> HandlerState]
  BY DEF Return, TypeOK, HandlerState, Idle
<1>3. \A m \in late' : m \in MachineRequest /\ Sent(m)
  BY <1>1 DEF HandlerRows, MessageInv
<1>4. TypeOK'
  BY <1>2, <1>3 DEF TypeOK, Core
<1>5. \A m \in MachineRequest : (Sent(m) => Sent(m)') /\ \A a : True(m, a) => True(m, a)'
  BY MessagesLast
<1>6. MessageInv'
  BY <1>1, <1>2, <1>5 DEF MessageInv, HandlerRows
<1> QED BY <1>4, <1>6

----------------------------------------------------------------------------
(* Every action keeps the invariant. *)

LEMMA Still ==
  ASSUME Core, UNCHANGED <<registryVars, targetVars>>
  PROVE  Core' /\ Moves
<1>1. TargetMoves
  BY DEF TargetMoves
<1> QED BY <1>1, TargetKeepsCore

LEMMA KeepsPairing ==
  ASSUME IInv, NEW h \in Handlers, NEW p \in PairOps,
         StartPair(h, p) \/ RetryPair(h, p) \/ AbortPairing(h, p)
  PROVE  IInv' /\ Moves
<1>0. Core /\ TypeOK /\ MessageInv
  BY DEF IInv, Core, TypeOK
<1>1. RegistryRows /\ TargetRows
  BY <1>0, RowsOf, TargetRowsOf DEF Core
<1>2. ASSUME StartPair(h, p)
      PROVE  Core' /\ TypeOK' /\ MessageInv' /\ Moves
  <2> DEFINE n == [kind |-> "commit", op |-> p, key |-> p]
  <2>1. n \in MachineRequest
    BY DEF MachineRequest, Keys
  <2>2. binding.epoch \in Epochs
    BY <1>0 DEF Core, RegistryTypeOK
  <2>3. TargetMoves
    BY <1>1, <1>2, <2>2 DEF StartPair, TargetMoves, RegistryRows
  <2>4. Core' /\ Moves
    BY <1>0, <2>3, TargetKeepsCore
  <2>5. Sent(n)'
    BY DEF Sent
  <2>6. UNCHANGED late /\ Post(h, n)
    BY <1>2 DEF StartPair
  <2> HIDE DEF n
  <2> QED BY <1>0, <2>1, <2>4, <2>5, <2>6, Posting
<1>3. ASSUME RetryPair(h, p) \/ AbortPairing(h, p)
      PROVE  Core' /\ TypeOK' /\ MessageInv' /\ Moves
  <2>1. PICK kind \in {"commit", "abort"} : Post(h, PairRequest(kind, p))
    BY <1>3 DEF RetryPair, AbortPairing
  <2>2. UNCHANGED <<registryVars, targetVars>> /\ UNCHANGED late /\ pairing[p].state = "pending"
    BY <1>3 DEF RetryPair, AbortPairing
  <2>3. Core' /\ Moves
    BY <1>0, <2>2, Still
  <2>4. PICK n \in MachineRequest : n = [kind |-> kind, op |-> p, key |-> pairing[p].key]
    BY <1>1, <2>2 DEF MachineRequest, TargetRows
  <2>5. Sent(n)'
    BY <2>4 DEF Sent
  <2>6. Post(h, n)
    BY <2>1, <2>4 DEF PairRequest
  <2> QED BY <1>0, <2>2, <2>3, <2>5, <2>6, Posting
<1> QED BY <1>2, <1>3 DEF IInv, Core

LEMMA KeepsTurning ==
  ASSUME IInv, NEW h \in Handlers, NEW r \in RotOps,
         (\E p \in PairOps : StartRotation(h, p, r)) \/ RetryRotation(h, r) \/ AbortTurning(h,
            r)
  PROVE  IInv' /\ Moves
<1>0. Core /\ TypeOK /\ MessageInv
  BY DEF IInv, Core, TypeOK
<1>1. RegistryRows /\ TargetRows
  BY <1>0, RowsOf, TargetRowsOf DEF Core
<1>2. ASSUME NEW p \in PairOps, StartRotation(h, p, r)
      PROVE  Core' /\ TypeOK' /\ MessageInv' /\ Moves
  <2> DEFINE n == [kind |-> "rotate", op |-> r, pair |-> p, key |-> r]
  <2>1. n \in MachineRequest
    BY DEF MachineRequest, Keys
  <2>2. TargetMoves
    BY <1>2 DEF StartRotation, TargetMoves
  <2>3. Core' /\ Moves
    BY <1>0, <2>2, TargetKeepsCore
  <2>4. turning'[r].state = "pending" /\ turning'[r].pair = p
    BY <1>0, <1>2 DEF StartRotation, PrepareSourceRotation, Core, TargetTypeOK
  <2>5. Sent(n)'
    BY <2>4 DEF Sent
  <2>6. UNCHANGED late /\ Post(h, n)
    BY <1>2 DEF StartRotation
  <2> HIDE DEF n
  <2> QED BY <1>0, <2>1, <2>3, <2>5, <2>6, Posting
<1>3. ASSUME RetryRotation(h, r) \/ AbortTurning(h, r)
      PROVE  Core' /\ TypeOK' /\ MessageInv' /\ Moves
  <2>1. /\ UNCHANGED <<registryVars, targetVars>> /\ UNCHANGED late
        /\ turning[r].state \in {"pending", "switched"}
    BY <1>3 DEF RetryRotation, AbortTurning
  <2>2. Core' /\ Moves
    BY <1>0, <2>1, Still
  <2>3. turning[r].pair \in PairOps /\ turning[r].old \in Keys
    BY <1>1, <2>1 DEF TargetRows, TurningRow
  <2>4. PICK kind \in {"rotate", "finalize", "unrotate"}, key \in Keys :
          /\ Post(h, RotationRequest(kind, r, key))
          /\ kind = "finalize" => turning[r].state = "switched"
    <3>1. CASE RetryRotation(h, r)
      <4>1. CASE turning[r].state = "pending"
        BY <3>1 DEF RetryRotation, Keys
      <4>2. CASE turning[r].state = "switched"
        BY <3>1 DEF RetryRotation, Keys
      <4> QED BY <2>1, <4>1, <4>2
    <3>2. CASE AbortTurning(h, r)
      BY <2>3, <3>2 DEF AbortTurning
    <3> QED BY <1>3, <3>1, <3>2
  <2>5. PICK n \in MachineRequest :
          n = [kind |-> kind, op |-> r, pair |-> turning[r].pair, key |-> key]
    BY <2>3 DEF MachineRequest
  <2>6. turning' = turning
    BY <2>1 DEF targetVars
  <2>7. Sent(n)'
    BY <2>1, <2>4, <2>5, <2>6 DEF Sent
  <2>8. Post(h, n)
    BY <2>4, <2>5 DEF RotationRequest
  <2> QED BY <1>0, <2>1, <2>2, <2>7, <2>8, Posting
<1> QED BY <1>2, <1>3 DEF IInv, Core

LEMMA KeepsClosing ==
  ASSUME IInv, NEW h \in Handlers, NEW p \in PairOps,
         StartDecommission(h, p) \/ RetryDecommission(h, p)
  PROVE  IInv' /\ Moves
<1>0. Core /\ TypeOK /\ MessageInv
  BY DEF IInv, Core, TypeOK
<1>1. RegistryRows /\ TargetRows
  BY <1>0, RowsOf, TargetRowsOf DEF Core
<1>2. ASSUME StartDecommission(h, p)
      PROVE  Core' /\ TypeOK' /\ MessageInv' /\ Moves
  <2>1. IntentRead(p) /\ pairing[p].state = "active"
    BY <1>2 DEF StartDecommission
  <2>2. decommission.epoch \in Epochs /\ pairing[p].key \in Keys
    BY <1>1, <2>1 DEF IntentRead, RegistryRows, DecommissionRow
  <2>3. TargetMoves
    BY <1>2, <2>2 DEF StartDecommission, TargetMoves
  <2>4. Core' /\ Moves
    BY <1>0, <2>3, TargetKeepsCore
  <2>5. closing'[p].state = "prepared"
    BY <1>0, <1>2 DEF StartDecommission, BeginEmptySourceDecommission, Core, TargetTypeOK
  <2>6. PICK n \in MachineRequest :
          n = [kind |-> "acknowledge", op |-> p, key |-> pairing[p].key,
             epoch |-> decommission.epoch]
    BY <2>2 DEF MachineRequest
  <2>7. Sent(n)'
    BY <2>5, <2>6 DEF Sent
  <2>8. UNCHANGED late /\ Post(h, n)
    BY <1>2, <2>6 DEF StartDecommission
  <2> QED BY <1>0, <2>4, <2>7, <2>8, Posting
<1>3. ASSUME RetryDecommission(h, p)
      PROVE  Core' /\ TypeOK' /\ MessageInv' /\ Moves
  <2>1. /\ UNCHANGED <<registryVars, targetVars>> /\ UNCHANGED late
        /\ closing[p].state = "prepared"
    BY <1>3 DEF RetryDecommission
  <2>2. Core' /\ Moves
    BY <1>0, <2>1, Still
  <2>3. closing[p].key \in Keys /\ closing[p].epoch \in Epochs /\ closing' = closing
    BY <1>1, <2>1 DEF TargetRows, ClosingRow, targetVars
  <2>4. PICK n \in MachineRequest :
          n = [kind |-> "acknowledge", op |-> p, key |-> closing[p].key,
             epoch |-> closing[p].epoch]
    BY <2>3 DEF MachineRequest
  <2>5. Sent(n)'
    BY <2>1, <2>3, <2>4 DEF Sent
  <2>6. Post(h, n)
    BY <1>3, <2>4 DEF RetryDecommission, AckRequest
  <2> QED BY <1>0, <2>1, <2>2, <2>5, <2>6, Posting
<1> QED BY <1>2, <1>3 DEF IInv, Core

(* The answer is one of those a client knows, and true when it is given. *)
LEMMA AnswerKnown ==
  ASSUME Core, NEW m \in MachineRequest, Serve(m)
  PROVE  AnswerTo(m) \in {"refused", "active", "aborted", "committed", "finalized",
        "acknowledged"}
<1>0. RegistryRows
  BY RowsOf DEF Core
<1>a. /\ m.kind \in {"commit", "abort", "acknowledge"} => m.op \in PairOps
      /\ m.kind \in {"rotate", "finalize", "unrotate"} => m.op \in RotOps
  BY RequestTypes
<1>1. CASE ~Granted(m)
  BY <1>1 DEF AnswerTo
<1>2. CASE Granted(m) /\ CommitsPair(m) /\ pairs' = [pairs EXCEPT ![m.op].state = "active"]
  <2>1. pairs'[m.op].state = "active" /\ m.kind = "commit"
    BY <1>a, <1>2 DEF CommitsPair, Core, RegistryTypeOK
  <2> QED BY <2>1 DEF AnswerTo
<1>3. CASE /\ Granted(m) /\ AbortsPair(m)
           /\ IF pairs[m.op].state # "aborted" THEN ClosePair(m.op) ELSE UNCHANGED <<keys, pairs>>
  <2>1. pairs'[m.op].state = "aborted" /\ m.kind = "abort"
    BY <1>0, <1>a, <1>3 DEF AbortsPair, ClosePair, Core, RegistryTypeOK, RegistryRows, PairRow
  <2> QED BY <2>1 DEF AnswerTo
<1>4. CASE /\ Granted(m) /\ (CommitsRotation(m) \/ FinalizesRotation(m))
           /\ \E s \in Carried : rotations' = [rotations EXCEPT ![m.op].state = s]
  <2>1. rotations'[m.op].state \in Carried /\ m.kind \in {"rotate", "finalize"}
    BY <1>a, <1>4 DEF CommitsRotation, FinalizesRotation, Core, RegistryTypeOK
  <2> QED BY <2>1 DEF AnswerTo, Carried
<1>5. CASE Granted(m) /\ RepeatsRotation(m) /\ UNCHANGED registryVars
  <2>1. rotations'[m.op].state \in Carried /\ m.kind \in {"rotate", "finalize"}
    BY <1>5 DEF RepeatsRotation, registryVars, Carried
  <2> QED BY <2>1 DEF AnswerTo, Carried
<1>6. CASE Granted(m) /\ AbortsRotation(m) /\ CloseRotation(m.op)
  <2>1. rotations'[m.op].state = "aborted" /\ m.kind = "unrotate"
    BY <1>a, <1>6 DEF AbortsRotation, CloseRotation, Core, RegistryTypeOK
  <2> QED BY <2>1 DEF AnswerTo
<1>7. CASE /\ Granted(m) /\ Acknowledges(m)
           /\ decommission' = [decommission EXCEPT !.state = "acknowledged"]
  <2>1. decommission'.state = "acknowledged" /\ m.kind = "acknowledge"
    BY <1>7 DEF Acknowledges
  <2> QED BY <2>1 DEF AnswerTo
<1> QED BY <1>1, <1>2, <1>3, <1>4, <1>5, <1>6, <1>7 DEF Serve, Carried

LEMMA KeepsAnswering ==
  ASSUME IInv, NEW h \in Handlers, NextcloudAnswers(h)
  PROVE  IInv' /\ Moves
<1>0. Core /\ TypeOK /\ MessageInv /\ HandlerRows
  BY HandlerRowsOf DEF IInv, Core, TypeOK
<1>1. PICK m \in MachineRequest : m = handler[h].msg
  BY <1>0 DEF NextcloudAnswers, HandlerRows
<1>2. /\ Sent(m) /\ Serve(m) /\ UNCHANGED <<targetVars, late>>
      /\ handler' = [handler EXCEPT ![h] = [pc |-> "answered", msg |-> m, answer |-> AnswerTo(m)]]
  BY <1>0, <1>1 DEF NextcloudAnswers, MessageInv
<1>3. Core' /\ Moves
  BY <1>0, <1>2, ServingKeepsCore
<1>4. PICK a \in {"refused", "active", "aborted", "committed", "finalized", "acknowledged"} :
        a = AnswerTo(m)
  BY <1>0, <1>2, AnswerKnown
<1>5. True(m, a)'
  <2>1. CASE ~Granted(m)
    BY <1>4 DEF True, AnswerTo, Carried
  <2>2. CASE Granted(m)
    BY <1>4, <2>2 DEF True, AnswerTo
  <2> QED BY <2>1, <2>2
<1>6. /\ handler'[h].pc = "answered" /\ handler'[h].msg = m /\ handler'[h].answer = a
      /\ \A g \in Handlers \ {h} : handler'[g] = handler[g]
      /\ handler' \in [Handlers -> HandlerState]
  BY <1>0, <1>2, <1>4 DEF TypeOK, HandlerState
<1>7. \A l \in MachineRequest : (Sent(l) => Sent(l)') /\ \A b : True(l, b) => True(l, b)'
  BY <1>3, MessagesLast
<1>8. TypeOK'
  BY <1>0, <1>2, <1>3, <1>6 DEF TypeOK, Core
<1>9. MessageInv'
  BY <1>0, <1>2, <1>5, <1>6, <1>7 DEF MessageInv, HandlerRows
<1> QED BY <1>3, <1>8, <1>9 DEF IInv, Core

LEMMA KeepsLateArrival ==
  ASSUME IInv, NEW m \in late, LateRequestArrives(m)
  PROVE  IInv' /\ Moves
<1>0. Core /\ TypeOK /\ MessageInv /\ HandlerRows
  BY HandlerRowsOf DEF IInv, Core, TypeOK
<1>1. m \in MachineRequest /\ Sent(m) /\ Serve(m) /\ UNCHANGED targetVars
  BY <1>0 DEF LateRequestArrives, MessageInv, HandlerRows
<1>2. handler' = handler /\ late' = late \ {m}
  BY DEF LateRequestArrives
<1>3. Core' /\ Moves
  BY <1>0, <1>1, ServingKeepsCore
<1>4. \A l \in MachineRequest : (Sent(l) => Sent(l)') /\ \A b : True(l, b) => True(l, b)'
  BY <1>3, MessagesLast
<1>5. TypeOK'
  BY <1>0, <1>2, <1>3 DEF TypeOK, Core
<1>6. MessageInv'
  BY <1>0, <1>2, <1>4 DEF MessageInv, HandlerRows
<1> QED BY <1>3, <1>5, <1>6 DEF IInv, Core

LEMMA KeepsEnding ==
  ASSUME IInv, NEW h \in Handlers, LoseExchange(h) \/ GiveUp(h)
  PROVE  IInv' /\ Moves
<1>0. Core /\ TypeOK /\ MessageInv
  BY DEF IInv, Core, TypeOK
<1>1. /\ UNCHANGED <<registryVars, targetVars>> /\ Return(h)
      /\ late' = late \/ (handler[h].pc = "posted" /\ late' = late \cup {handler[h].msg})
  <2>1. CASE LoseExchange(h)
    BY <2>1 DEF LoseExchange
  <2>2. CASE GiveUp(h)
    BY <2>2 DEF GiveUp
  <2> QED BY <2>1, <2>2
<1>2. Core' /\ Moves
  BY <1>0, <1>1, Still
<1>3. TypeOK' /\ MessageInv'
  BY <1>0, <1>1, <1>2, Returning
<1> QED BY <1>2, <1>3 DEF IInv, Core

LEMMA KeepsFinish ==
  ASSUME IInv, NEW h \in Handlers, Finish(h)
  PROVE  IInv' /\ Moves
<1>0. Core /\ TypeOK /\ MessageInv /\ HandlerRows
  BY HandlerRowsOf DEF IInv, Core, TypeOK
<1>1. PICK m \in MachineRequest : m = handler[h].msg
  BY <1>0 DEF Finish, HandlerRows
<1>2. /\ m.kind \in {"commit", "abort", "acknowledge"} => m.op \in PairOps
      /\ m.kind \in {"rotate", "finalize", "unrotate"} => m.op \in RotOps
  BY RequestTypes
<1>3. /\ handler[h].pc = "answered" /\ LocalStep(h, m.op) /\ Return(h)
      /\ UNCHANGED registryVars /\ late' = late
      /\ True(m, handler[h].answer)
  BY <1>0, <1>1 DEF Finish, MessageInv
<1>4. TargetMoves
  <2>1. CASE Answered(h, "commit", "active") /\ ActivateSourcePairing(m.op)
    BY <1>1, <1>2, <1>3, <2>1 DEF Answered, True, TargetMoves
  <2>2. CASE Answered(h, "abort", "aborted") /\ AbortPendingSourcePairing(m.op)
    BY <1>1, <1>2, <1>3, <2>2 DEF Answered, True, TargetMoves
  <2>3. CASE Answered(h, "finalize", "finalized") /\ FinalizeSourceRotation(m.op)
    BY <1>1, <1>2, <1>3, <2>3 DEF Answered, True, TargetMoves
  <2>4. CASE Answered(h, "unrotate", "aborted") /\ AbortSourceRotation(m.op)
    BY <1>1, <1>2, <1>3, <2>4 DEF Answered, True, TargetMoves
  <2>5. CASE Answered(h, "acknowledge", "acknowledged") /\ RecordEmptyDecommissionAck(m.op)
    BY <1>1, <1>2, <1>3, <2>5 DEF Answered, TargetMoves
  <2> QED BY <1>3, <2>1, <2>2, <2>3, <2>4, <2>5 DEF LocalStep
<1>5. Core' /\ Moves
  BY <1>0, <1>4, TargetKeepsCore
<1>6. TypeOK' /\ MessageInv'
  BY <1>0, <1>3, <1>5, Returning
<1> QED BY <1>5, <1>6 DEF IInv, Core

LEMMA KeepsSwitch ==
  ASSUME IInv, NEW h \in Handlers, Switch(h)
  PROVE  IInv' /\ Moves
<1>0. Core /\ TypeOK /\ MessageInv /\ HandlerRows
  BY HandlerRowsOf DEF IInv, Core, TypeOK
<1>1. PICK m \in MachineRequest : m = handler[h].msg
  BY <1>0 DEF Switch, Answered, HandlerRows
<1>2. /\ m.kind = "rotate" /\ handler[h].answer \in Carried /\ handler[h].pc = "answered"
  BY <1>1 DEF Switch, Answered, Carried
<1>3. m.op \in RotOps /\ m.pair \in PairOps /\ m.key \in Keys
  BY <1>2, RequestTypes
<1>4. rotations[m.op].state \in Carried /\ Sent(m)
  BY <1>0, <1>1, <1>2 DEF MessageInv, True
<1>5. /\ SwitchSourceRotation(m.op) \/ (AlreadySwitched(m.op) /\ UNCHANGED targetVars)
      /\ Post(h, [m EXCEPT !.kind = "finalize"])
      /\ UNCHANGED registryVars /\ UNCHANGED late
  BY <1>1 DEF Switch
<1>6. TargetMoves
  BY <1>3, <1>4, <1>5 DEF TargetMoves
<1>7. Core' /\ Moves
  BY <1>0, <1>6, TargetKeepsCore
<1>8. turning'[m.op].state \in {"switched", "finalized"}
  <2>1. CASE SwitchSourceRotation(m.op)
    BY <1>0, <1>3, <2>1 DEF SwitchSourceRotation, Core, TargetTypeOK
  <2>2. CASE AlreadySwitched(m.op) /\ UNCHANGED targetVars
    BY <2>2 DEF AlreadySwitched, targetVars
  <2> QED BY <1>5, <2>1, <2>2
<1>9. turning'[m.op].pair = m.pair
  BY <1>2, <1>3, <1>4, <1>7 DEF Moves, Sent, TargetOnward
<1>10. PICK n \in MachineRequest :
         /\ n = [m EXCEPT !.kind = "finalize"]
         /\ n.kind = "finalize" /\ n.op = m.op /\ n.pair = m.pair
  <2>1. m \in [kind : {"rotate", "finalize", "unrotate"}, op : RotOps, pair : PairOps,
            key : Keys]
    BY <1>2 DEF MachineRequest
  <2>2. [m EXCEPT !.kind = "finalize"]
          \in [kind : {"rotate", "finalize", "unrotate"}, op : RotOps, pair : PairOps,
             key : Keys]
    BY <2>1
  <2> QED BY <2>2 DEF MachineRequest
<1>11. Sent(n)'
  BY <1>8, <1>9, <1>10 DEF Sent
<1>12. TypeOK' /\ MessageInv'
  BY <1>0, <1>5, <1>7, <1>10, <1>11, Posting
<1> QED BY <1>7, <1>12 DEF IInv, Core

LEMMA NextKeeps == IInv /\ [Next]_vars => IInv' /\ Moves
<1> SUFFICES ASSUME IInv, [Next]_vars
             PROVE  IInv' /\ Moves
  OBVIOUS
<1>0. Core /\ TypeOK /\ MessageInv
  BY DEF IInv, Core, TypeOK
<1>1. CASE Administering /\ UNCHANGED <<targetVars, handler, late>>
  <2>1. Core' /\ Moves
    BY <1>0, <1>1, AdministeringKeepsCore
  <2>2. TypeOK' /\ MessageInv'
    BY <1>0, <1>1, <2>1, NobodyMoves
  <2> QED BY <2>1, <2>2 DEF IInv, Core
<1>2. CASE UsingSource /\ UNCHANGED <<registryVars, handler, late>>
  <2>1. TargetMoves
    BY <1>2 DEF UsingSource, TargetMoves
  <2>2. Core' /\ Moves
    BY <1>0, <2>1, TargetKeepsCore
  <2>3. TypeOK' /\ MessageInv'
    BY <1>0, <1>2, <2>2, NobodyMoves
  <2> QED BY <2>2, <2>3 DEF IInv, Core
<1>3. ASSUME NEW h \in Handlers, Handling(h)
      PROVE  IInv' /\ Moves
  BY <1>3, KeepsPairing, KeepsTurning, KeepsClosing, KeepsFinish, KeepsSwitch, KeepsEnding
       DEF Handling
<1>4. ASSUME NEW h \in Handlers, NextcloudAnswers(h)
      PROVE  IInv' /\ Moves
  BY <1>4, KeepsAnswering
<1>5. ASSUME NEW m \in late, LateRequestArrives(m)
      PROVE  IInv' /\ Moves
  BY <1>5, KeepsLateArrival
<1>6. CASE UNCHANGED vars
  <2>1. UNCHANGED <<registryVars, targetVars>> /\ UNCHANGED <<handler, late>>
    BY <1>6 DEF vars, registryVars, targetVars
  <2>2. Core' /\ Moves
    BY <1>0, <2>1, Still
  <2>3. TypeOK' /\ MessageInv'
    BY <1>0, <2>1, <2>2, NobodyMoves
  <2> QED BY <2>2, <2>3 DEF IInv, Core
<1> QED BY <1>1, <1>2, <1>3, <1>4, <1>5, <1>6 DEF Next

LEMMA InitHolds == Init => IInv
<1> SUFFICES ASSUME Init
             PROVE  IInv
  OBVIOUS
<1>1. TypeOK
  <2>1. RegistryTypeOK
    BY SourceAssumption DEF Init, RegistryInit, RegistryTypeOK, Epochs
  <2>2. TargetTypeOK
    BY DEF Init, TargetInit, TargetTypeOK
  <2>3. handler \in [Handlers -> HandlerState] /\ late \subseteq MachineRequest
    BY DEF Init, HandlerState
  <2> QED BY <2>1, <2>2, <2>3 DEF TypeOK
<1>2. /\ binding.state = "active" /\ decommission.state = "absent"
      /\ \A p \in PairOps : pairs[p].state = "absent" /\ pairing[p].state = "absent"
           /\ source[p] = "none" /\ closing[p].state = "absent"
      /\ \A r \in RotOps : rotations[r].state = "absent" /\ turning[r].state = "absent"
      /\ \A k \in Keys : keys[k] = "absent"
  BY DEF Init, RegistryInit, TargetInit, Absent
<1>3. RegistryInv
  BY <1>2 DEF RegistryInv, KeyInv, PairInv, RotationInv, ClosureInv, OpKeys, Keys
<1>4. TargetInv
  BY <1>2 DEF TargetInv, SourceInv, TurningInv
<1>5. RowsInv /\ KeysInv /\ ClosingInv
  BY <1>2 DEF RowsInv, KeysInv, ClosingInv, Carried
<1>6. MessageInv
  BY DEF Init, MessageInv, Idle
<1> QED BY <1>1, <1>3, <1>4, <1>5, <1>6 DEF IInv

----------------------------------------------------------------------------
(* Theorems *)

(* The inductive invariant: what a valid key stands for, what each side's rows say
   of the other's, and what the requests and answers on their way still mean. *)
THEOREM SourceTrustCorrect == Spec => []IInv
BY InitHolds, NextKeeps, PTL DEF Spec

(* Rows, keys, handlers and messages stay well-formed, however many operations,
   keys and handlers there are. *)
THEOREM TypeCorrect == Spec => []TypeOK
<1>1. IInv => TypeOK
  BY DEF IInv
<1> QED BY <1>1, SourceTrustCorrect, PTL

(* WeKnora always has a usable credential for an active pairing, or can finish the
   committed rotation that gives it one. *)
THEOREM CredentialCorrect == Spec => []CredentialContinuity
<1>1. IInv => CredentialContinuity
  <2> SUFFICES ASSUME IInv, NEW p \in PairOps, pairing[p].state = "active",
                      binding.state # "retired"
               PROVE  \/ keys[pairing[p].key] = "live" /\ pairs[p].key = pairing[p].key
                      \/ \E r \in RotOps :
                           /\ turning[r] = [state |-> "pending", pair |-> p, old |-> pairing[p].key]
                           /\ rotations[r].state = "committed" /\ pairs[p].key = r
                           /\ keys[r] = "live" /\ keys[pairing[p].key] \in {"grace", "expired"}
    BY DEF CredentialContinuity
  <2>1. pairs[p].state = "active"
    BY DEF IInv, RowsInv, RegistryInv, ClosureInv
  <2>2. keys[pairs[p].key] = "live"
    BY <2>1 DEF IInv, RegistryInv, PairInv
  <2>3. KeyInStep(p)
    BY DEF IInv, KeysInv
  <2>4. CASE pairs[p].key = pairing[p].key
    BY <2>2, <2>4
  <2>5. ASSUME NEW r \in RotOps, turning[r].state = "pending", turning[r].pair = p,
               rotations[r].state = "committed", rotations[r].old = pairing[p].key,
               pairs[p].key = r
        PROVE  /\ turning[r] = [state |-> "pending", pair |-> p, old |-> pairing[p].key]
               /\ keys[pairing[p].key] \in {"grace", "expired"}
    <3>1. turning[r] \in TurningRow
      BY <2>5, TargetRowsOf DEF IInv, TypeOK, TargetRows
    <3>2. turning[r].old = pairing[p].key
      BY <2>5 DEF IInv, TargetInv, TurningInv
    <3>3. keys[pairing[p].key] \in {"grace", "expired"}
      BY <2>5 DEF IInv, RegistryInv, RotationInv
    <3> QED BY <2>5, <3>1, <3>2, <3>3 DEF TurningRow
  <2> QED BY <2>2, <2>3, <2>5 DEF KeyInStep
<1> QED BY <1>1, SourceTrustCorrect, PTL

(* No key is accepted without a pair or a rotation that stands behind it. *)
THEOREM OrphanCorrect == Spec => []NoOrphanKey
<1>1. IInv => NoOrphanKey
  <2> SUFFICES ASSUME IInv, NEW k \in Keys \ SpareKeys, Accepted(k)
               PROVE  \/ \E p \in LivePairs : pairs[p].key = k
                      \/ \E r \in RotOps : rotations[r].state = "pending" /\ k = r
                      \/ \E r \in RotOps : rotations[r].state = "committed"
                         /\ k = rotations[r].old
    BY DEF NoOrphanKey
  <2>1. k \in OpKeys
    BY DEF Keys, OpKeys
  <2> QED BY <2>1 DEF IInv, RegistryInv, KeyInv, OpKeys, Accepted
<1> QED BY <1>1, SourceTrustCorrect, PTL

(* A decommission that was begun finds binding, pair and key as it recorded them. *)
THEOREM DecommissionCorrect == Spec => []DecommissionExact
<1>1. IInv => DecommissionExact
  <2> SUFFICES ASSUME IInv, decommission.state \in {"prepared", "acknowledged"}
               PROVE  /\ binding = [state |-> "stopped", epoch |-> decommission.epoch]
                      /\ SamePair /\ keys[decommission.key] = "live"
                      /\ ~Rotating(decommission.pair)
    BY DEF DecommissionExact
  <2>1. decommission.pair \in PairOps
    BY RowsOf DEF IInv, TypeOK, RegistryRows
  <2>2. /\ binding.state = "stopped" /\ binding.epoch = decommission.epoch
        /\ pairs[decommission.pair].state = "active"
        /\ pairs[decommission.pair].key = decommission.key /\ LiveRotations = {}
    BY DEF IInv, RegistryInv, ClosureInv
  <2>3. binding = [state |-> "stopped", epoch |-> decommission.epoch]
    BY <2>2 DEF IInv, TypeOK, RegistryTypeOK
  <2>4. keys[decommission.key] = "live"
    BY <2>1, <2>2 DEF IInv, RegistryInv, PairInv
  <2> QED BY <2>2, <2>3, <2>4 DEF SamePair, Rotating
<1> QED BY <1>1, SourceTrustCorrect, PTL

(* The source whose emptiness Nextcloud was told of stays paused, never synced and
   unrotated, also after the binding is gone. *)
THEOREM RetiredCorrect == Spec => []RetiredSourceIsEmpty
<1>1. IInv => RetiredSourceIsEmpty
  <2> SUFFICES ASSUME IInv, decommission.state \in {"acknowledged", "finalized"}
               PROVE  LET p == decommission.pair IN
                        /\ closing[p] # Absent /\ closing[p].epoch = decommission.epoch
                        /\ source[p] = "paused" /\ ~touched[p]
                        /\ pairing[p].key = decommission.key /\ ~LiveTurning(p)
    BY DEF RetiredSourceIsEmpty
  <2>1. decommission.pair \in PairOps
    BY RowsOf DEF IInv, TypeOK, RegistryRows
  <2>2. closing[decommission.pair].state # "absent"
    BY DEF IInv, ClosingInv
  <2> QED BY <2>1 DEF IInv, ClosingInv, TargetInv, SourceInv, Absent
<1> QED BY <1>1, SourceTrustCorrect, PTL

(* A binding is never removed under a source that did not acknowledge it. *)
THEOREM NoSourceLeftCorrect == Spec => []NoSourceLeftBehind
<1>1. IInv => NoSourceLeftBehind
  <2> SUFFICES ASSUME IInv, binding.state = "retired", NEW p \in PairOps, source[p] # "none"
               PROVE  decommission # Absent /\ decommission.pair = p /\ closing[p] # Absent
    BY DEF NoSourceLeftBehind
  <2>1. pairing[p].state \in {"pending", "active"}
    BY DEF IInv, TargetInv, SourceInv
  <2>2. pairs[p].state # "absent"
    BY <2>1 DEF IInv, RowsInv
  <2>3. decommission.state = "finalized"
    BY <2>2 DEF IInv, RegistryInv, ClosureInv, NeverPaired, Absent
  <2>4. decommission.pair \in PairOps
    BY <2>3, RowsOf DEF IInv, TypeOK, RegistryRows
  <2>5. closing[decommission.pair].state # "absent"
    BY <2>3 DEF IInv, ClosingInv
  <2>6. source[decommission.pair] # "none"
    BY <2>4, <2>5 DEF IInv, TargetInv, SourceInv
  <2>7. decommission.pair = p
    BY <2>4, <2>6 DEF IInv, TargetInv, SourceInv
  <2> QED BY <2>3, <2>5, <2>7 DEF Absent
<1> QED BY <1>1, SourceTrustCorrect, PTL

----------------------------------------------------------------------------
(* Both operations implement the agreement of a decider and a follower. *)

PairDecision == [p \in PairOps |-> Outcome(pairs[p].state)]
PairAdoption == [p \in PairOps |-> Outcome(pairing[p].state)]
RotationDecision == [r \in RotOps |-> Outcome(rotations[r].state)]
RotationAdoption == [r \in RotOps |-> Outcome(turning[r].state)]

LEMMA PairStep ==
  ASSUME IInv, IInv', Moves
  PROVE  [\E o \in PairOps : PairAgreement!Decide(o) \/ PairAgreement!Adopt(o)]_<<PairDecision,
        PairAdoption>>
<1>0. RegistryRows /\ TargetRows
  BY RowsOf, TargetRowsOf DEF IInv, TypeOK
<1>1. CASE UNCHANGED targetVars
  <2>1. PairAdoption' = PairAdoption
    BY <1>1 DEF targetVars, PairAdoption
  <2>2. CASE \A p \in PairOps : Outcome(pairs'[p].state) = Outcome(pairs[p].state)
    BY <2>1, <2>2 DEF PairDecision
  <2>3. ASSUME NEW p \in PairOps, Outcome(pairs'[p].state) # Outcome(pairs[p].state)
        PROVE  PairAgreement!Decide(p)
    <3>1. \A q \in PairOps \ {p} : Outcome(pairs'[q].state) = Outcome(pairs[q].state)
      BY <2>3 DEF Moves, Onward
    <3>2. Outcome(pairs[p].state) = "open"
      BY <1>0, <2>3 DEF Moves, Onward, Outcome, RegistryRows
    <3>3. PICK o \in PairAgreement!Outcomes : o = Outcome(pairs'[p].state)
      BY DEF PairAgreement!Outcomes, Outcome
    <3>4. PairDecision' = [PairDecision EXCEPT ![p] = o]
      BY <3>1, <3>3 DEF PairDecision
    <3>5. PairDecision[p] = "open"
      BY <3>2 DEF PairDecision
    <3> QED BY <2>1, <3>4, <3>5 DEF PairAgreement!Decide, PairDecision, PairAdoption
  <2> QED BY <2>2, <2>3
<1>2. CASE UNCHANGED registryVars
  <2>1. PairDecision' = PairDecision
    BY <1>2 DEF registryVars, PairDecision
  <2>2. CASE \A p \in PairOps : Outcome(pairing'[p].state) = Outcome(pairing[p].state)
    BY <2>1, <2>2 DEF PairAdoption
  <2>3. ASSUME NEW p \in PairOps, Outcome(pairing'[p].state) # Outcome(pairing[p].state)
        PROVE  PairAgreement!Adopt(p)
    <3>1. \A q \in PairOps \ {p} : Outcome(pairing'[q].state) = Outcome(pairing[q].state)
      BY <2>3 DEF Moves, TargetOnward
    <3>2. Outcome(pairing[p].state) = "open"
      BY <1>0, <2>3 DEF Moves, TargetOnward, Outcome, TargetRows
    <3>3. Outcome(pairing'[p].state) = Outcome(pairs[p].state)
      <4>1. /\ pairing'[p].state = "active" => pairs'[p].state \in {"active", "retired"}
            /\ pairing'[p].state = "aborted" => pairs'[p].state = "aborted"
        BY DEF IInv, RowsInv
      <4>2. pairing'[p].state \in {"absent", "pending", "active", "aborted"}
        BY TargetRowsOfNext DEF IInv, TypeOK, TargetRows
      <4> QED BY <1>2, <2>3, <3>2, <4>1, <4>2 DEF registryVars, Outcome
    <3>4. PairAdoption' = [PairAdoption EXCEPT ![p] = PairDecision[p]]
      BY <3>1, <3>3 DEF PairAdoption, PairDecision
    <3>5. PairAdoption[p] = "open"
      BY <3>2 DEF PairAdoption
    <3> QED BY <2>1, <3>4, <3>5 DEF PairAgreement!Adopt, PairDecision, PairAdoption
  <2> QED BY <2>2, <2>3
<1> QED BY <1>1, <1>2 DEF Moves

(* A pairing operation is adopted by WeKnora only as Nextcloud decided it, and
   neither side reverses it. *)
THEOREM PairsCorrect == Spec => PairsAgree
<1>1. Init => PairAgreement!Init
  BY DEF Init, RegistryInit, TargetInit, PairAgreement!Init, Outcome, Absent
<1>2. IInv /\ IInv' /\ [Next]_vars =>
        [\E o \in PairOps : PairAgreement!Decide(o) \/ PairAgreement!Adopt(o)]_<<PairDecision,
           PairAdoption>>
  BY NextKeeps, PairStep
<1>3. PairsAgree <=>
        /\ PairAgreement!Init
        /\ [][\E o \in PairOps : PairAgreement!Decide(o)
           \/ PairAgreement!Adopt(o)]_<<PairDecision, PairAdoption>>
  BY DEF PairsAgree, PairAgreement!Spec, PairDecision, PairAdoption
<1> QED BY <1>1, <1>2, <1>3, SourceTrustCorrect, PTL DEF Spec

LEMMA RotationStep ==
  ASSUME IInv, IInv', Moves
  PROVE  [\E o \in RotOps : RotationAgreement!Decide(o)
        \/ RotationAgreement!Adopt(o)]_<<RotationDecision, RotationAdoption>>
<1>0. RegistryRows /\ TargetRows
  BY RowsOf, TargetRowsOf DEF IInv, TypeOK
<1>1. CASE UNCHANGED targetVars
  <2>1. RotationAdoption' = RotationAdoption
    BY <1>1 DEF targetVars, RotationAdoption
  <2>2. CASE \A r \in RotOps : Outcome(rotations'[r].state) = Outcome(rotations[r].state)
    BY <2>1, <2>2 DEF RotationDecision
  <2>3. ASSUME NEW r \in RotOps, Outcome(rotations'[r].state) # Outcome(rotations[r].state)
        PROVE  RotationAgreement!Decide(r)
    <3>1. \A s \in RotOps \ {r} : Outcome(rotations'[s].state) = Outcome(rotations[s].state)
      BY <2>3 DEF Moves, Onward
    <3>2. Outcome(rotations[r].state) = "open"
      BY <1>0, <2>3 DEF Moves, Onward, Outcome, Carried, RegistryRows, IInv, RegistryInv,
           RotationInv
    <3>3. PICK o \in RotationAgreement!Outcomes : o = Outcome(rotations'[r].state)
      BY DEF RotationAgreement!Outcomes, Outcome
    <3>4. RotationDecision' = [RotationDecision EXCEPT ![r] = o]
      BY <3>1, <3>3 DEF RotationDecision
    <3>5. RotationDecision[r] = "open"
      BY <3>2 DEF RotationDecision
    <3> QED BY <2>1, <3>4, <3>5 DEF RotationAgreement!Decide, RotationDecision, RotationAdoption
  <2> QED BY <2>2, <2>3
<1>2. CASE UNCHANGED registryVars
  <2>1. RotationDecision' = RotationDecision
    BY <1>2 DEF registryVars, RotationDecision
  <2>2. CASE \A r \in RotOps : Outcome(turning'[r].state) = Outcome(turning[r].state)
    BY <2>1, <2>2 DEF RotationAdoption
  <2>3. ASSUME NEW r \in RotOps, Outcome(turning'[r].state) # Outcome(turning[r].state)
        PROVE  RotationAgreement!Adopt(r)
    <3>1. \A s \in RotOps \ {r} : Outcome(turning'[s].state) = Outcome(turning[s].state)
      BY <2>3 DEF Moves, TargetOnward
    <3>2. Outcome(turning[r].state) = "open"
      BY <1>0, <2>3 DEF Moves, TargetOnward, Outcome, TargetRows
    <3>3. Outcome(turning'[r].state) = Outcome(rotations[r].state)
      <4>1. /\ turning'[r].state \in {"switched", "finalized"} =>
                rotations'[r].state \in Carried
            /\ turning'[r].state = "aborted" => rotations'[r].state = "aborted"
        BY DEF IInv, RowsInv
      <4>2. turning'[r].state \in {"absent", "pending", "switched", "finalized", "aborted"}
        BY TargetRowsOfNext DEF IInv, TypeOK, TargetRows
      <4> QED BY <1>2, <2>3, <3>2, <4>1, <4>2 DEF registryVars, Outcome, Carried
    <3>4. RotationAdoption' = [RotationAdoption EXCEPT ![r] = RotationDecision[r]]
      BY <3>1, <3>3 DEF RotationAdoption, RotationDecision
    <3>5. RotationAdoption[r] = "open"
      BY <3>2 DEF RotationAdoption
    <3> QED BY <2>1, <3>4, <3>5 DEF RotationAgreement!Adopt, RotationDecision, RotationAdoption
  <2> QED BY <2>2, <2>3
<1> QED BY <1>1, <1>2 DEF Moves

(* A rotation is carried out or aborted at WeKnora only as Nextcloud decided, and
   neither side reverses it. *)
THEOREM RotationsCorrect == Spec => RotationsAgree
<1>1. Init => RotationAgreement!Init
  BY DEF Init, RegistryInit, TargetInit, RotationAgreement!Init, Outcome, Absent
<1>2. IInv /\ IInv' /\ [Next]_vars =>
        [\E o \in RotOps : RotationAgreement!Decide(o)
           \/ RotationAgreement!Adopt(o)]_<<RotationDecision, RotationAdoption>>
  BY NextKeeps, RotationStep
<1>3. RotationsAgree <=>
        /\ RotationAgreement!Init
        /\ [][\E o \in RotOps : RotationAgreement!Decide(o)
           \/ RotationAgreement!Adopt(o)]_<<RotationDecision, RotationAdoption>>
  BY DEF RotationsAgree, RotationAgreement!Spec, RotationDecision, RotationAdoption
<1> QED BY <1>1, <1>2, <1>3, SourceTrustCorrect, PTL DEF Spec

=============================================================================
