----------------------------- MODULE SourceTrust -----------------------------
(* The whole source-trust protocol: administrators on both sides, the request
   handlers of WeKnora (NextcloudSourcePairingHandler), signed requests that are
   lost or arrive late, and the registry that answers them.

   A handler first reads Nextcloud's binding or intent with a signed GET and then
   writes its own row. The two are one step: they touch different databases, and
   what another process does between them can as well happen before or after. No
   lock is held while a request is out, so handlers overlap freely.           *)
EXTENDS SourceRegistry, SourceTarget

CONSTANT Handlers

VARIABLES
  handler,  \* per handler: idle, waiting for an answer, or holding one
  late      \* requests nobody waits for any more, which may still arrive

vars == <<binding, keys, pairs, rotations, decommission,
          pairing, source, touched, turning, closing, handler, late>>

Idle == [pc |-> "idle"]
HandlerState ==
  {Idle} \cup [pc : {"posted"}, msg : MachineRequest]
  \cup [pc : {"answered"}, msg : MachineRequest,
        answer : {"refused", "active", "aborted", "committed", "finalized", "acknowledged"}]

Init ==
  /\ RegistryInit /\ TargetInit
  /\ handler = [h \in Handlers |-> Idle]
  /\ late = {}

TypeOK ==
  /\ RegistryTypeOK /\ TargetTypeOK
  /\ handler \in [Handlers -> HandlerState]
  /\ late \subseteq MachineRequest

----------------------------------------------------------------------------
(* Requests *)

PairRequest(kind, p) == [kind |-> kind, op |-> p, key |-> pairing[p].key]
RotationRequest(kind, r, key) ==
  [kind |-> kind, op |-> r, pair |-> turning[r].pair, key |-> key]
AckRequest(p) ==
  [kind |-> "acknowledge", op |-> p, key |-> closing[p].key, epoch |-> closing[p].epoch]

Post(h, msg) == handler' = [handler EXCEPT ![h] = [pc |-> "posted", msg |-> msg]]
Return(h) == handler' = [handler EXCEPT ![h] = Idle]

(* inspect: a signed GET with this key finds the binding published *)
Inspected(key) == Accepted(key) /\ Published

----------------------------------------------------------------------------
(* WeKnora's handlers *)

(* Pair: the administrator passes on what Nextcloud prepared *)
StartPair(h, p) ==
  /\ handler[h] = Idle
  /\ pairs[p] # Absent
  /\ Inspected(p) /\ binding.epoch = pairs[p].epoch
  /\ PrepareSourcePairing(p, binding.epoch)
  /\ Post(h, [kind |-> "commit", op |-> p, key |-> p])
  /\ UNCHANGED <<registryVars, late>>
(* Retry, and Pair repeated *)
RetryPair(h, p) ==
  /\ handler[h] = Idle
  /\ pairing[p].state = "pending"
  /\ Inspected(pairing[p].key)
  /\ Post(h, PairRequest("commit", p))
  /\ UNCHANGED <<registryVars, targetVars, late>>
AbortPairing(h, p) ==
  /\ handler[h] = Idle
  /\ pairing[p].state = "pending"
  /\ Post(h, PairRequest("abort", p))
  /\ UNCHANGED <<registryVars, targetVars, late>>

StartRotation(h, p, r) ==
  /\ handler[h] = Idle
  /\ Inspected(r)
  /\ PrepareSourceRotation(p, r)
  /\ Post(h, [kind |-> "rotate", op |-> r, pair |-> p, key |-> r])
  /\ UNCHANGED <<registryVars, late>>
(* RetryRotation, and Rotate repeated: goes on from the state the row has *)
RetryRotation(h, r) ==
  /\ handler[h] = Idle
  /\ turning[r].state \in {"pending", "switched"}
  /\ Inspected(r)
  /\ Post(h, RotationRequest(IF turning[r].state = "pending" THEN "rotate" ELSE "finalize", r, r))
  /\ UNCHANGED <<registryVars, targetVars, late>>
AbortTurning(h, r) ==
  /\ handler[h] = Idle
  /\ turning[r].state = "pending"
  /\ pairing[turning[r].pair].key = turning[r].old
  /\ Post(h, RotationRequest("unrotate", r, turning[r].old))
  /\ UNCHANGED <<registryVars, targetVars, late>>

(* Decommission: the signed intent names this pair, its key and the stopped epoch *)
IntentRead(p) ==
  /\ Accepted(pairing[p].key)
  /\ decommission.state \in {"prepared", "acknowledged"} /\ binding.state = "stopped"
  /\ decommission.pair = p /\ decommission.key = pairing[p].key
StartDecommission(h, p) ==
  /\ handler[h] = Idle
  /\ pairing[p].state = "active" /\ IntentRead(p)
  /\ BeginEmptySourceDecommission(p, decommission.epoch)
  /\ Post(h, [kind |-> "acknowledge", op |-> p, key |-> pairing[p].key,
              epoch |-> decommission.epoch])
  /\ UNCHANGED <<registryVars, late>>
RetryDecommission(h, p) ==
  /\ handler[h] = Idle
  /\ closing[p].state = "prepared" /\ IntentRead(p)
  /\ closing[p].key = decommission.key /\ closing[p].epoch = decommission.epoch
  /\ Post(h, AckRequest(p))
  /\ UNCHANGED <<registryVars, targetVars, late>>

----------------------------------------------------------------------------
(* The exchange *)

NextcloudAnswers(h) ==
  /\ handler[h].pc = "posted"
  /\ LET m == handler[h].msg IN
       /\ Serve(m)
       /\ handler' = [handler EXCEPT ![h] = [pc |-> "answered", msg |-> m, answer |-> AnswerTo(m)]]
  /\ UNCHANGED <<targetVars, late>>
LateRequestArrives(m) ==
  /\ m \in late
  /\ Serve(m)
  /\ late' = late \ {m}
  /\ UNCHANGED <<targetVars, handler>>

(* The 20 second timeout, a transport error, or a handler that dies *)
LoseExchange(h) ==
  /\ handler[h] # Idle
  /\ late' = IF handler[h].pc = "posted" THEN late \cup {handler[h].msg} ELSE late
  /\ Return(h)
  /\ UNCHANGED <<registryVars, targetVars>>

----------------------------------------------------------------------------
(* A handler goes on with an answer if it names a state the client accepts *)

Answered(h, kind, state) ==
  handler[h].pc = "answered" /\ handler[h].msg.kind = kind /\ handler[h].answer = state
Expected ==
  [commit |-> {"active"}, abort |-> {"aborted"}, rotate |-> {"committed", "finalized"},
   finalize |-> {"finalized"}, unrotate |-> {"aborted"}, acknowledge |-> {"acknowledged"}]
Unexpected(h) ==
  handler[h].pc = "answered" /\ handler[h].answer \notin Expected[handler[h].msg.kind]

(* If the row changed meanwhile, the handler ends like one that lost its exchange. *)
LocalStep(h, op) ==
  \/ Answered(h, "commit", "active") /\ ActivateSourcePairing(op)
  \/ Answered(h, "abort", "aborted") /\ AbortPendingSourcePairing(op)
  \/ Answered(h, "finalize", "finalized") /\ FinalizeSourceRotation(op)
  \/ Answered(h, "unrotate", "aborted") /\ AbortSourceRotation(op)
  \/ Answered(h, "acknowledge", "acknowledged") /\ RecordEmptyDecommissionAck(op)
Finish(h) ==
  /\ handler[h].pc = "answered"
  /\ LocalStep(h, handler[h].msg.op)
  /\ Return(h)
  /\ UNCHANGED <<registryVars, late>>
(* After a commit the source switches keys, then the finalize request goes out. *)
Switch(h) ==
  /\ Answered(h, "rotate", "committed") \/ Answered(h, "rotate", "finalized")
  /\ LET m == handler[h].msg IN
       /\ SwitchSourceRotation(m.op) \/ (AlreadySwitched(m.op) /\ UNCHANGED targetVars)
       /\ Post(h, [m EXCEPT !.kind = "finalize"])
  /\ UNCHANGED <<registryVars, late>>
GiveUp(h) ==
  /\ Unexpected(h)
  /\ Return(h)
  /\ UNCHANGED <<registryVars, targetVars, late>>

Handling(h) ==
  \/ \E p \in PairOps :
       \/ StartPair(h, p) \/ RetryPair(h, p) \/ AbortPairing(h, p)
       \/ StartDecommission(h, p) \/ RetryDecommission(h, p)
       \/ \E r \in RotOps : StartRotation(h, p, r)
  \/ \E r \in RotOps : RetryRotation(h, r) \/ AbortTurning(h, r)
  \/ Finish(h) \/ Switch(h) \/ GiveUp(h) \/ LoseExchange(h)

Next ==
  \/ Administering /\ UNCHANGED <<targetVars, handler, late>>
  \/ UsingSource /\ UNCHANGED <<registryVars, handler, late>>
  \/ \E h \in Handlers : Handling(h) \/ NextcloudAnswers(h)
  \/ \E m \in late : LateRequestArrives(m)

Spec == Init /\ [][Next]_vars

----------------------------------------------------------------------------
(* Properties *)

(* WeKnora never ends up without a usable credential for an active pairing:
   Nextcloud knows the key the source is configured with (valid, or run out of
   grace), or else a rotation that it committed still can be completed locally
   with the live new key. No late abort, lost answer or second handler drops the
   key that the other side goes on with. *)
CredentialContinuity ==
  \A p \in PairOps : pairing[p].state = "active" /\ binding.state # "retired" =>
    \/ keys[pairing[p].key] = "live" /\ pairs[p].key = pairing[p].key
    \/ \E r \in RotOps :
         /\ turning[r] = [state |-> "pending", pair |-> p, old |-> pairing[p].key]
         /\ rotations[r].state = "committed" /\ pairs[p].key = r /\ keys[r] = "live"
         /\ keys[pairing[p].key] \in {"grace", "expired"}

(* A key is accepted only while an operation stands behind it: the live pair's
   own key, the new key of a pending rotation, or the old key of a committed
   one. Aborted, finalized and retired operations leave no usable key. *)
NoOrphanKey ==
  \A k \in Keys \ SpareKeys : Accepted(k) =>
    \/ \E p \in LivePairs : pairs[p].key = k
    \/ \E r \in RotOps : rotations[r].state = "pending" /\ k = r
    \/ \E r \in RotOps : rotations[r].state = "committed" /\ k = rotations[r].old

(* A decommission under way stays exact: publication remains stopped at the
   recorded epoch, the pair and its key are those recorded, and no rotation
   changes them, whatever requests arrive late. *)
DecommissionExact ==
  decommission.state \in {"prepared", "acknowledged"} =>
    /\ binding = [state |-> "stopped", epoch |-> decommission.epoch]
    /\ SamePair /\ keys[decommission.key] = "live"
    /\ ~Rotating(decommission.pair)

(* Once Nextcloud holds the acknowledgement, and after it retired the binding,
   the source at WeKnora is paused, never was synced, has the recorded key and
   no unfinished rotation, and none of this changes. *)
RetiredSourceIsEmpty ==
  decommission.state \in {"acknowledged", "finalized"} =>
    LET p == decommission.pair IN
      /\ closing[p] # Absent /\ closing[p].epoch = decommission.epoch
      /\ source[p] = "paused" /\ ~touched[p]
      /\ pairing[p].key = decommission.key /\ ~LiveTurning(p)

(* A binding with a source at WeKnora is never removed without that source's
   acknowledgement, so no source is left reading a folder that is gone. *)
NoSourceLeftBehind ==
  binding.state = "retired" =>
    \A p \in PairOps : source[p] # "none" =>
      decommission # Absent /\ decommission.pair = p /\ closing[p] # Absent

(* A pairing operation, decided by Nextcloud, is adopted by WeKnora only as it
   was decided, and neither side ever reverses it. *)
Outcome(state) ==
  IF state \in {"active", "committed", "finalized", "switched", "retired"} THEN "committed"
  ELSE IF state = "aborted" THEN "aborted" ELSE "open"
PairAgreement == INSTANCE OperationAgreement WITH
  Ops <- PairOps,
  decided <- [p \in PairOps |-> Outcome(pairs[p].state)],
  adopted <- [p \in PairOps |-> Outcome(pairing[p].state)]
PairsAgree == PairAgreement!Spec

(* The same for rotations. *)
RotationAgreement == INSTANCE OperationAgreement WITH
  Ops <- RotOps,
  decided <- [r \in RotOps |-> Outcome(rotations[r].state)],
  adopted <- [r \in RotOps |-> Outcome(turning[r].state)]
RotationsAgree == RotationAgreement!Spec

(* docs/nextcloud-source-pairing.md: "A lost commit ACK leaves WeKnora pending; a
   lost finalize ACK leaves it switched. GET status and POST .../retry resume
   either state". A retry reads a published binding, and a binding whose
   decommission has begun is never published again: so no decommission begins
   while WeKnora still has to finish a rotation that Nextcloud carried out. *)
RotationResumable ==
  \A r \in RotOps :
    turning[r].state \in {"pending", "switched"} /\ Outcome(rotations[r].state) = "committed"
      => decommission = Absent
=============================================================================
