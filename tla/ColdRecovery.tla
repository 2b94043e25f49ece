---------------------------- MODULE ColdRecovery ----------------------------
(* A cold checkpoint of the Nextcloud and WeKnora stacks, their restoration as one
   pair, and the replay that keeps later withdrawals withdrawn:
   shared-cold-checkpoint.py, shared-cold-restore-plan.py,
   publication-recovery-journal.py and coordinated-recovery-gate.py.
   One source; every external command of the scripts is a step. *)
EXTENDS RecoveryJournal, FiniteSets

CONSTANTS MaxRegrants   \* bound on files an administrator approves again while recovering

ASSUME RecoveryAssumption == MaxRegrants \in Nat /\ IsFiniteSet(Files)

Stacks == {"nextcloud", "weknora"}
Services == {"nextcloud", "weknora", "db", "postgres"}
Foreign == "another container"      \* one that mounts a volume of the pair
Database == [nextcloud |-> "db", weknora |-> "postgres"]

VARIABLES
  up,        \* the running services
  inputs,    \* the version of the bind-mounted inputs and of the application code
  binding,   \* Nextcloud: the binding's publication state and epoch, its withdrawn files
  index,     \* WeKnora: the scope, the published files, the manifest of the reconciliation
  capture,   \* the checkpoint in its evidence directory, and the process that writes it
  recovery   \* the restoration and its replay

recoveryVars == <<journalVars, up, inputs, binding, index, capture, recovery>>

Nothing == [history |-> <<>>, binding |-> [state |-> "stopped", epoch |-> 0, withdrawn |-> {}]]
EmptyIndex == [scope |-> "open", published |-> {}, epoch |-> 0, manifest |-> {}, replayed |-> 0]
NoCapture ==
  [pc |-> "none", anchor |-> 0, epoch |-> 0, meddled |-> FALSE, intact |-> TRUE,
   fingerprint |-> 0, archived |-> 0,
   dump |-> [nextcloud |-> Nothing, weknora |-> EmptyIndex],
   volumes |-> [nextcloud |-> Nothing, weknora |-> EmptyIndex]]
NoObservation == [seen |-> FALSE, withdrawn |-> {}, state |-> "none", epoch |-> 0]
NoRecovery ==
  [pc |-> "live", through |-> 0, receipt |-> "none", nextcloud |-> NoObservation,
   weknora |-> EmptyIndex, evidence |-> "none", regrants |-> 0]

RecoveryInit ==
  /\ JournalInit
  /\ up = Services
  /\ inputs = 1
  /\ binding = [state |-> "active", epoch |-> 1, withdrawn |-> {}]
  /\ index = [EmptyIndex EXCEPT !.published = Files, !.epoch = 1]
  /\ capture = NoCapture
  /\ recovery = NoRecovery

----------------------------------------------------------------------------
Live == recovery.pc = "live"
Running(stack) == {stack, Database[stack]} \subseteq up

(* Every change of a file's state appends its event to the history. *)
Withdraw(files) ==
  /\ binding' = [binding EXCEPT !.withdrawn = @ \cup files]
  /\ history' = history \o SetToSeq([kind : {"withdrawn"}, file : files])

Approve(f) ==
  /\ binding' = [binding EXCEPT !.withdrawn = @ \ {f}]
  /\ history' = Append(history, [kind |-> "eligible", file |-> f])

(* The live system: approvals and withdrawals, and WeKnora following them. *)
SourceEvent(f) ==
  /\ Live /\ Running("nextcloud") /\ Len(history) < MaxEvents
  /\ IF f \in binding.withdrawn THEN Approve(f) ELSE Withdraw({f})
  /\ UNCHANGED <<journal, collecting, up, inputs, index, capture, recovery>>

IndexFollows ==
  /\ Live /\ Running("nextcloud") /\ Running("weknora")
  /\ index.published # Files \ binding.withdrawn
  /\ index' = [index EXCEPT !.published = Files \ binding.withdrawn]
  /\ UNCHANGED <<journalVars, up, inputs, binding, capture, recovery>>

Collect ==
  /\ \E c \in Collectors :
       CollectFrom(c) \/ (Running("nextcloud") /\ Export(c)) \/ AppendPage(c) \/ CollectorDies(c)
  /\ UNCHANGED <<up, inputs, binding, index, capture, recovery>>

----------------------------------------------------------------------------
(* The checkpoint *)

At(pc) == capture.pc = pc
Capturing == capture.pc \notin {"none", "COMPLETE", "INCOMPLETE"}
CaptureGoto(pc) == capture' = [capture EXCEPT !.pc = pc]
Snapshot(stack) ==
  IF stack = "nextcloud" THEN [history |-> history, binding |-> binding] ELSE index

(* checkpoint_anchor and verify_recovery_anchor_source: the pinned record reached the
   head it saw, and it is a prefix of the live database. *)
Anchors ==
  {n \in DOMAIN journal :
     Complete(journal[n]) /\ IsPrefix(journal[n].head, history)}

InventoryStack(stack) == Running(stack)          \* every service, as Compose describes it
EnsureState(running) == up \ {Foreign} = running
RejectForeignUsers == Foreign \notin up
NoOtherClients(stack) == stack \notin up
SourceFingerprint == inputs
InventoryCurrent == index.epoch = capture.epoch  \* verify_weknora_inventory_source

StartCheckpoint(n) ==
  /\ Live /\ At("none")
  /\ \A stack \in Stacks : InventoryStack(stack)
  /\ EnsureState(Services) /\ RejectForeignUsers
  /\ n \in Anchors
  /\ capture' = [capture EXCEPT !.pc = "stop_nextcloud", !.anchor = n, !.epoch = index.epoch,
                                !.fingerprint = SourceFingerprint]
  /\ UNCHANGED <<journalVars, up, inputs, binding, index, recovery>>

(* Application and ingress services of one stack, then of the other *)
StopApplications ==
  /\ \/ At("stop_nextcloud") /\ up' = up \ {"nextcloud"} /\ CaptureGoto("stop_weknora")
     \/ At("stop_weknora") /\ up' = up \ {"weknora"} /\ CaptureGoto("stopped")
  /\ UNCHANGED <<journalVars, inputs, binding, index, recovery>>

(* ensure_state, the pinned inventory again, no foreign user of a volume *)
CheckStopped ==
  /\ At("stopped")
  /\ CaptureGoto(IF EnsureState({"db", "postgres"}) /\ InventoryCurrent /\ RejectForeignUsers
                 THEN "dump_nextcloud" ELSE "INCOMPLETE")
  /\ UNCHANGED <<journalVars, up, inputs, binding, index, recovery>>

(* database_has_no_other_clients, pg_dump, and the same check after it *)
DumpDatabase(stack, pc, next) ==
  /\ At(pc)
  /\ IF NoOtherClients(stack)
     THEN capture' = [capture EXCEPT !.dump[stack] = Snapshot(stack), !.pc = next]
     ELSE CaptureGoto("INCOMPLETE")
  /\ UNCHANGED <<journalVars, up, inputs, binding, index, recovery>>

CheckClients(stack, pc, next) ==
  /\ At(pc)
  /\ CaptureGoto(IF NoOtherClients(stack) THEN next ELSE "INCOMPLETE")
  /\ UNCHANGED <<journalVars, up, inputs, binding, index, recovery>>

StopDatabases ==
  /\ \/ At("stop_db") /\ up' = up \ {"db"} /\ CaptureGoto("stop_postgres")
     \/ At("stop_postgres") /\ up' = up \ {"postgres"} /\ CaptureGoto("all_stopped")
  /\ UNCHANGED <<journalVars, inputs, binding, index, recovery>>

CheckAllStopped ==
  /\ At("all_stopped")
  /\ CaptureGoto(IF EnsureState({}) THEN "archive_nextcloud" ELSE "INCOMPLETE")
  /\ UNCHANGED <<journalVars, up, inputs, binding, index, recovery>>

ArchiveVolumes(stack, pc, next) ==
  /\ At(pc)
  /\ capture' = [capture EXCEPT !.volumes[stack] = Snapshot(stack), !.pc = next]
  /\ UNCHANGED <<journalVars, up, inputs, binding, index, recovery>>

(* host_archive of the inputs; then nothing may have changed since before the stop. *)
ArchiveInputs ==
  /\ At("inputs")
  /\ capture' = [capture EXCEPT !.archived = inputs, !.pc = "check_inputs"]
  /\ UNCHANGED <<journalVars, up, inputs, binding, index, recovery>>

CheckInputs ==
  /\ At("check_inputs")
  /\ CaptureGoto(IF /\ EnsureState({}) /\ RejectForeignUsers
                    /\ SourceFingerprint = capture.fingerprint
                 THEN "manifest" ELSE "INCOMPLETE")
  /\ UNCHANGED <<journalVars, up, inputs, binding, index, recovery>>

(* Digests and the anchor again; manifest.json is durable before INCOMPLETE goes. *)
WriteManifest ==
  /\ At("manifest")
  /\ CaptureGoto("COMPLETE")
  /\ UNCHANGED <<journalVars, up, inputs, binding, index, recovery>>

CheckpointStep ==
  \/ StopApplications \/ CheckStopped
  \/ DumpDatabase("nextcloud", "dump_nextcloud", "dumped_nextcloud")
  \/ CheckClients("nextcloud", "dumped_nextcloud", "dump_weknora")
  \/ DumpDatabase("weknora", "dump_weknora", "dumped_weknora")
  \/ CheckClients("weknora", "dumped_weknora", "stop_db")
  \/ StopDatabases \/ CheckAllStopped
  \/ ArchiveVolumes("nextcloud", "archive_nextcloud", "archive_weknora")
  \/ ArchiveVolumes("weknora", "archive_weknora", "inputs")
  \/ ArchiveInputs \/ CheckInputs \/ WriteManifest

(* A command fails or the process is killed: INCOMPLETE was written first. *)
CheckpointFails ==
  /\ Capturing
  /\ CaptureGoto("INCOMPLETE")
  /\ UNCHANGED <<journalVars, up, inputs, binding, index, recovery>>

(* Somebody starts a stack or another container while the pair is captured, or edits an
   input: once, and what was started keeps running. What is started and stopped, or edited and
   put back, between two of the capture's looks is out of this module. *)
Meddle ==
  /\ Capturing /\ ~capture.meddled
  /\ capture.pc \notin {"stop_nextcloud", "stop_weknora"}
  /\ \/ \E stack \in Stacks : up' = up \cup {stack, Database[stack]} /\ UNCHANGED inputs
     \/ up' = up \cup {Foreign} /\ UNCHANGED inputs
     \/ inputs' = inputs + 1 /\ UNCHANGED up
  /\ capture' = [capture EXCEPT !.meddled = TRUE]
  /\ UNCHANGED <<journalVars, binding, index, recovery>>

ForeignWrite ==
  /\ Foreign \in up /\ index.published # {}
  /\ index' = [index EXCEPT !.published = {}]
  /\ UNCHANGED <<journalVars, up, inputs, binding, capture, recovery>>

(* An artifact rots before the restoration reads it: its digest no longer matches. *)
ArtifactDamaged ==
  /\ Live /\ At("COMPLETE") /\ capture.intact /\ up = {}
  /\ capture' = [capture EXCEPT !.intact = FALSE]
  /\ UNCHANGED <<journalVars, up, inputs, binding, index, recovery>>

(* The operator reopens both stacks after the checkpoint, or stops them to restore. *)
StartStacks ==
  /\ Live /\ capture.pc \in {"COMPLETE", "INCOMPLETE"} /\ up # Services
  /\ up' = Services
  /\ UNCHANGED <<journalVars, inputs, binding, index, capture, recovery>>

StopStacks ==
  /\ Live /\ At("COMPLETE") /\ up = Services
  /\ up' = {}
  /\ UNCHANGED <<journalVars, inputs, binding, index, capture, recovery>>

----------------------------------------------------------------------------
ArtifactsIntact == capture.intact        \* digests, and the members of every archive
VerifyCheckpoint == At("COMPLETE") /\ ArtifactsIntact
VerifyStoppedTarget == EnsureState({}) /\ RejectForeignUsers

(* The restoration of both stacks' inputs and volumes as one cold pair; it may be
   started again from the beginning. *)
RestorePair ==
  /\ \/ Live /\ VerifyStoppedTarget
     \/ recovery.pc = "recovering" /\ recovery.evidence = "none" /\ recovery.receipt # "none"
  /\ VerifyCheckpoint
  /\ inputs' = capture.archived
  /\ history' = capture.volumes["nextcloud"].history
  /\ binding' = capture.volumes["nextcloud"].binding
  /\ index' = capture.volumes["weknora"]
  /\ up' = Services                   \* in maintenance, the ingress closed
  /\ recovery' = [NoRecovery EXCEPT !.pc = "recovering", !.regrants = recovery.regrants]
  /\ UNCHANGED <<journal, collecting, capture>>

Recovering == recovery.pc = "recovering"

(* A restored pair put back into service with no replay: its history goes on from the
   checkpoint, on a branch of its own. *)
ReopenUnreplayed ==
  /\ Recovering /\ recovery.through = 0
  /\ recovery' = NoRecovery
  /\ UNCHANGED <<journalVars, up, inputs, binding, index, capture>>

Plan == WithdrawFiles(capture.anchor, recovery.through)

SignPlan(n) ==
  /\ Recovering /\ recovery.through = 0
  /\ Replayable(capture.anchor, n)
  /\ recovery' = [recovery EXCEPT !.through = n]
  /\ UNCHANGED <<journalVars, up, inputs, binding, index, capture>>

(* PublicationRecoveryReplay: the lost tail of the history first, in a transaction *)
RestoreTail ==
  /\ Recovering /\ recovery.through # 0 /\ recovery.receipt = "none"
  /\ Len(history) >= journal[capture.anchor].next
  /\ IsPrefix(history, Retained(recovery.through))
  /\ history' = Retained(recovery.through)
  /\ recovery' = [recovery EXCEPT !.receipt = "open"]
  /\ UNCHANGED <<journal, collecting, up, inputs, binding, index, capture>>

(* ... then every binding is stopped and every withdrawn file withdrawn. *)
CloseBindings ==
  /\ Recovering /\ recovery.receipt = "open"
  /\ binding' = [binding EXCEPT !.state = "stopped", !.withdrawn = @ \cup Plan]
  /\ history' = history \o SetToSeq([kind : {"withdrawn"}, file : Plan \ binding.withdrawn])
  /\ recovery' = [recovery EXCEPT !.receipt = "completed"]
  /\ UNCHANGED <<journal, collecting, up, inputs, index, capture>>

CloseIndex ==
  /\ Recovering /\ recovery.through # 0 /\ index.replayed # recovery.through
  /\ index' = [index EXCEPT !.scope = "closed", !.published = {}, !.manifest = {},
                            !.replayed = recovery.through]
  /\ UNCHANGED <<journalVars, up, inputs, binding, capture, recovery>>

(* The two maintenance commands observe their service, one after the other. *)
ObserveNextcloud ==
  /\ Recovering /\ recovery.receipt = "completed"
  /\ Plan \subseteq binding.withdrawn             \* "Recovery withdrawal revived"
  /\ recovery' = [recovery EXCEPT !.nextcloud =
       [seen |-> TRUE, withdrawn |-> Plan, state |-> binding.state, epoch |-> binding.epoch]]
  /\ UNCHANGED <<journalVars, up, inputs, binding, index, capture>>

ObserveIndex ==
  /\ Recovering /\ index.replayed = recovery.through /\ recovery.through # 0
  /\ recovery' = [recovery EXCEPT !.weknora = index]
  /\ UNCHANGED <<journalVars, up, inputs, binding, index, capture>>

(* verify_current on the two observations *)
SamePlan ==
  /\ recovery.nextcloud.seen /\ recovery.nextcloud.withdrawn = Plan
  /\ recovery.weknora.replayed = recovery.through
  /\ recovery.weknora.epoch = capture.volumes["weknora"].epoch

GateClosed ==
  /\ Recovering /\ recovery.evidence = "none"
  /\ SamePlan
  /\ recovery.nextcloud.state = "stopped"
  /\ recovery.weknora.scope = "closed" /\ recovery.weknora.published = {}
  /\ recovery' = [recovery EXCEPT !.evidence = "closed"]
  /\ UNCHANGED <<journalVars, up, inputs, binding, index, capture>>

GateSources ==
  /\ Recovering /\ recovery.evidence = "closed"
  /\ SamePlan
  /\ recovery.nextcloud.state = "active"
  /\ recovery.nextcloud.epoch > capture.volumes["nextcloud"].binding.epoch
  /\ recovery.weknora.scope = "reconciled"
  /\ recovery.weknora.manifest \cap recovery.nextcloud.withdrawn = {}
  /\ recovery.weknora.published = recovery.weknora.manifest
  /\ recovery' = [recovery EXCEPT !.evidence = "sources"]
  /\ UNCHANGED <<journalVars, up, inputs, binding, index, capture>>

(* Behind the closed gate the source is resumed and scanned from nothing. *)
ResumeSource ==
  /\ Recovering /\ recovery.evidence = "closed" /\ binding.state = "stopped"
  /\ binding' = [binding EXCEPT !.state = "active", !.epoch = @ + 1]
  /\ UNCHANGED <<journalVars, up, inputs, index, capture, recovery>>

ReconcileIndex ==
  /\ Recovering /\ recovery.evidence = "closed" /\ binding.state = "active"
  /\ \/ /\ index.scope = "closed"
        /\ index' = [index EXCEPT !.scope = "reconciled", !.manifest = Files \ binding.withdrawn]
     \/ /\ index.scope = "reconciled"
        /\ index' = [index EXCEPT !.published = index.manifest]
  /\ UNCHANGED <<journalVars, up, inputs, binding, capture, recovery>>

Regrant(f) ==
  /\ Recovering /\ recovery.receipt = "completed" /\ recovery.regrants < MaxRegrants
  /\ f \in binding.withdrawn
  /\ Approve(f)
  /\ recovery' = [recovery EXCEPT !.regrants = @ + 1]
  /\ UNCHANGED <<journal, collecting, up, inputs, index, capture>>

ReplayStep ==
  \/ RestoreTail \/ CloseBindings \/ CloseIndex \/ ObserveNextcloud \/ ObserveIndex
  \/ GateClosed \/ GateSources \/ ResumeSource \/ ReconcileIndex

RecoveryNext ==
  \/ \E f \in Files : SourceEvent(f) \/ Regrant(f)
  \/ IndexFollows \/ Collect
  \/ \E n \in DOMAIN journal : StartCheckpoint(n) \/ SignPlan(n)
  \/ CheckpointStep \/ CheckpointFails \/ StartStacks \/ StopStacks
  \/ Meddle \/ ForeignWrite \/ ArtifactDamaged
  \/ RestorePair \/ ReopenUnreplayed \/ ReplayStep

RecoverySpec == RecoveryInit /\ [][RecoveryNext]_recoveryVars

----------------------------------------------------------------------------
(* Properties *)

(* A journal whose last record reached its head holds one linear history: whatever the
   database went through (restored, continued on another branch, exported by two
   collectors at once), every head it ever witnessed is a prefix of what it retains
   (append, validate_head_commitments); replay_plan accepts only such records. *)
CompleteMeansOneHistory ==
  \A n \in DOMAIN journal :
    Complete(journal[n]) =>
      /\ OneAfterAnother(n) /\ Retained(n) = journal[n].head
      /\ \A i \in 1..n : IsPrefix(journal[i].head, Retained(n))

(* A COMPLETE checkpoint holds both services at one instant: the logical dumps and
   the cold volumes agree on each side, and the WeKnora side was captured with no
   Nextcloud change after the Nextcloud side, even when somebody starts a stack or a container
   that keeps running, or makes an edit that stays, meanwhile. *)
MatchedCheckpoint ==
  At("COMPLETE") =>
    /\ capture.archived = capture.fingerprint
    /\ \A stack \in Stacks : capture.dump[stack] = capture.volumes[stack]
    /\ IsPrefix(journal[capture.anchor].head, capture.volumes["nextcloud"].history)

Withdrawn(events) ==
  {f \in Files : \E i \in DOMAIN events :
     /\ events[i] = [kind |-> "withdrawn", file |-> f]
     /\ \A j \in (i + 1)..Len(events) : events[j].file # f}

(* Once the gate reported the sources reconciled, WeKnora publishes no file whose last
   retained event up to the pinned terminal record withdrew it, unless it was approved
   again during the recovery: a restored backup forgets no withdrawal. *)
NoRevocationForgotten ==
  recovery.evidence = "sources" =>
    \A f \in index.published \cap Withdrawn(Retained(recovery.through)) :
      \E i \in (journal[recovery.through].next + 1)..Len(history) :
        history[i] = [kind |-> "eligible", file |-> f]
=============================================================================
