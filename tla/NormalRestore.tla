---------------------------- MODULE NormalRestore ----------------------------
(* The phase-gated restore of one owned fixture: synthetic-ldap-normal-restore.py.
   Each phase is one invocation; an operator may invoke any phase at any time, a phase
   may fail at any step, and its process may be killed there. Phases know of each other
   only through the receipts in the evidence directory and the live services. *)
EXTENDS Integers, FiniteSets

VARIABLES
  fixture,    \* what the services hold, part by part
  evidence,   \* the receipts
  actors,     \* the running applications, readers and builders
  ledger,     \* the independent publication journal: how far it was collected
  phase       \* the running phase, its next step, and who opened the applications

restoreVars == <<fixture, evidence, actors, ledger, phase>>

(* control: fixture.json; nc_html: config.php and the files; nc_db, wk_db: the databases *)
Parts == {"control", "nc_html", "nc_db", "wk_db"}
Original == [p \in Parts |-> "checkpoint"]
Actors == {"nextcloud", "weknora"}
Receipts ==
  {"checkpoint", "pin", "restored", "closed", "positive", "denial", "plan", "stale_closed"}
Faults == {"none", "clean", "stale_publication"}
Phases ==
  {"checkpoint", "fault", "stale-fault", "restore-data", "closed-clean", "closed-stale",
   "reopen", "revoke", "stale-plan", "cleanup"}

NoPhase == [name |-> "none", pc |-> "none", opened |-> "baseline"]

NormalInit ==
  /\ fixture = Original
  /\ evidence = [receipts |-> {}, fault |-> "none"]
  /\ actors = Actors
  /\ ledger = "checkpoint"
  /\ phase = NoPhase

----------------------------------------------------------------------------
Has(receipt) == receipt \in evidence.receipts
InPhase(name, pc) == phase.name = name /\ phase.pc = pc
PhaseGoto(pc) == phase' = [phase EXCEPT !.pc = pc]
PhaseEnds == PhaseGoto("done")
AllStopped == actors = {}                                     \* stopped, for every actor
WriteReceipt(r) == ~Has(r) /\ evidence' = [evidence EXCEPT !.receipts = @ \cup {r}]

(* load_checkpoint: a COMPLETE checkpoint and its independent pin *)
LoadCheckpoint == Has("checkpoint") /\ Has("pin")
(* checked_checkpoint_controls: exact bytes, or exactly the recorded fault *)
ControlsChecked(fault) == fixture.control = IF fault = "none" THEN "checkpoint" ELSE "recorded"
(* nc_configuration and its fault guard: config.php as captured, or the recorded fault *)
ConfigurationOriginal == fixture.nc_html = "checkpoint"
ConfigurationFaulted == fixture.nc_html = "fault"
(* identity, and the inventory of original sources: blind to sessions and other files *)
IdentityKept == fixture.wk_db \in {"checkpoint", "fault"}
(* source_scope: Nextcloud authorizes the published file, by its signed decision *)
SourceAuthorized == "nextcloud" \in actors /\ fixture.nc_db \in {"checkpoint", "fault"}
(* pinned_publication: nothing was published or withdrawn since the checkpoint *)
PinnedPublication == ledger = "checkpoint"
(* history_receipt, idle: only with both services up *)
HistoryRead == actors = Actors
(* publication_current collects the journal to its head. *)
PublicationCurrent == ledger' = IF fixture.nc_db = "withdrawn" THEN "withdrawn" ELSE ledger

Invoke(name) ==
  /\ phase.pc \in {"none", "done"}
  /\ phase' = [phase EXCEPT !.name = name, !.pc = "start"]
  /\ UNCHANGED <<fixture, evidence, actors, ledger>>

(* checkpoint and capture_full_checkpoint *)
CheckBaseline ==
  /\ InPhase("checkpoint", "start")
  /\ ~Has("checkpoint") /\ HistoryRead /\ SourceAuthorized
  /\ PublicationCurrent
  /\ PhaseGoto("stop")
  /\ UNCHANGED <<fixture, evidence, actors>>
CaptureFull ==
  /\ InPhase("checkpoint", "capture")
  /\ AllStopped /\ ControlsChecked("none")
  /\ WriteReceipt("checkpoint")
  /\ PhaseGoto("pin")
  /\ UNCHANGED <<fixture, actors, ledger>>
PinCheckpoint ==
  /\ InPhase("checkpoint", "pin")
  /\ WriteReceipt("pin")
  /\ PhaseEnds
  /\ UNCHANGED <<fixture, actors, ledger>>

(* stop_actors *)
StopActors ==
  /\ phase.pc = "stop"
  /\ actors' = {}
  /\ PhaseGoto(IF phase.name = "checkpoint" THEN "capture" ELSE "control")
  /\ UNCHANGED <<fixture, evidence, ledger>>

(* fault, stale_fault: every fault is made through the reopened services. *)
Faulting == phase.name \in {"fault", "stale-fault"}
ResumeForFault ==
  /\ Faulting /\ phase.pc = "start"
  /\ LoadCheckpoint
  /\ actors' = Actors
  /\ phase' = [phase EXCEPT !.pc = "configuration", !.opened = "fault"]
  /\ UNCHANGED <<fixture, evidence, ledger>>
FaultConfiguration ==
  /\ Faulting /\ phase.pc = "configuration"
  /\ LoadCheckpoint /\ ControlsChecked("none") /\ ConfigurationOriginal
  /\ fixture' = [fixture EXCEPT !.nc_html = "fault"]
  /\ PhaseGoto("files")
  /\ UNCHANGED <<evidence, actors, ledger>>
FaultFiles ==
  /\ Faulting /\ phase.pc = "files"
  /\ fixture' = [fixture EXCEPT !.nc_db = IF @ = "checkpoint" THEN "fault" ELSE @,
                                !.wk_db = IF @ = "checkpoint" THEN "fault" ELSE @]
  /\ PhaseGoto(IF phase.name = "stale-fault" THEN "withdraw" ELSE "collect")
  /\ UNCHANGED <<evidence, actors, ledger>>
WithdrawSource ==
  /\ Faulting /\ phase.pc = "withdraw"
  /\ fixture' = [fixture EXCEPT !.nc_db = "withdrawn"]
  /\ PhaseGoto("collect")
  /\ UNCHANGED <<evidence, actors, ledger>>
CollectFault ==
  /\ Faulting /\ phase.pc = "collect"
  /\ PublicationCurrent
  /\ phase.name = "fault" => SourceAuthorized
  /\ PhaseGoto("stop")
  /\ UNCHANGED <<fixture, evidence, actors>>
(* fault_checkpoint_control writes a fresh query; an earlier record no longer fits it. *)
FaultControl ==
  /\ Faulting /\ phase.pc = "control"
  /\ ControlsChecked("none")
  /\ fixture' = [fixture EXCEPT !.control = IF evidence.fault = "none" THEN "recorded"
                                            ELSE "unrecorded"]
  /\ PhaseGoto("record")
  /\ UNCHANGED <<evidence, actors, ledger>>
RecordFault ==
  /\ Faulting /\ phase.pc = "record"
  /\ evidence.fault = "none"
  /\ evidence' = [evidence EXCEPT !.fault = IF phase.name = "fault" THEN "clean"
                                            ELSE "stale_publication"]
  /\ PhaseEnds
  /\ UNCHANGED <<fixture, actors, ledger>>

(* restore_data: controls, volumes, the two databases, each a step *)
RestoreGuard ==
  /\ LoadCheckpoint /\ evidence.fault # "none"
  /\ AllStopped
  /\ ConfigurationFaulted
RestoreControls ==
  /\ InPhase("restore-data", "start")
  /\ RestoreGuard /\ ControlsChecked(evidence.fault)
  /\ fixture' = [fixture EXCEPT !.control = "checkpoint"]
  /\ PhaseGoto("volumes")
  /\ UNCHANGED <<evidence, actors, ledger>>
RestoreVolumesOf ==
  /\ InPhase("restore-data", "volumes")
  /\ fixture' = [fixture EXCEPT !.nc_html = "checkpoint"]
  /\ PhaseGoto("nc_db")
  /\ UNCHANGED <<evidence, actors, ledger>>
RestoreDatabase(db) ==
  /\ InPhase("restore-data", db)
  /\ fixture' = [fixture EXCEPT ![db] = "checkpoint"]
  /\ PhaseGoto(IF db = "nc_db" THEN "wk_db" ELSE "receipt")
  /\ UNCHANGED <<evidence, actors, ledger>>
RecordRestore ==
  /\ InPhase("restore-data", "receipt")
  /\ ConfigurationOriginal
  /\ WriteReceipt("restored")
  /\ PhaseEnds
  /\ UNCHANGED <<fixture, actors, ledger>>

(* restored_configuration *)
ConfigurationRestored == ConfigurationOriginal /\ ControlsChecked("none")
CleanGatesByReceipt ==   \* mutant: the receipt of the restoration stands for the configuration
  /\ LoadCheckpoint /\ evidence.fault = "clean" /\ Has("restored")
  /\ AllStopped /\ IdentityKept /\ PinnedPublication
(* actual_clean_gates: live, whatever receipts exist *)
CleanGates ==
  /\ LoadCheckpoint /\ evidence.fault = "clean" /\ Has("restored")
  /\ AllStopped
  /\ ConfigurationRestored
  /\ IdentityKept
  /\ PinnedPublication

VerifyCleanClosed ==
  /\ InPhase("closed-clean", "start")
  /\ CleanGates
  /\ WriteReceipt("closed")
  /\ PhaseEnds
  /\ UNCHANGED <<fixture, actors, ledger>>

(* reopen_and_accept: Nextcloud first; WeKnora once Nextcloud authorizes the source *)
ReopenNextcloud ==
  /\ InPhase("reopen", "start")
  /\ Has("closed") /\ CleanGates
  /\ actors' = {"nextcloud"}
  /\ phase' = [phase EXCEPT !.pc = "authority", !.opened = "reopen"]
  /\ UNCHANGED <<fixture, evidence, ledger>>
ReopenWeKnora ==
  /\ InPhase("reopen", "authority")
  /\ SourceAuthorized /\ IdentityKept
  /\ actors' = Actors
  /\ PhaseGoto("accept")
  /\ UNCHANGED <<fixture, evidence, ledger>>
AcceptRestored ==
  /\ InPhase("reopen", "accept")
  /\ HistoryRead
  /\ WriteReceipt("positive")
  /\ PhaseEnds
  /\ UNCHANGED <<fixture, actors, ledger>>

(* revoke_and_accept: only the share of the source goes; the databases move on. *)
RevokeShare ==
  /\ InPhase("revoke", "start")
  /\ LoadCheckpoint /\ Has("positive")
  /\ actors = Actors
  /\ fixture' = [fixture EXCEPT !.nc_db = IF @ = "withdrawn" THEN @ ELSE "revoked"]
  /\ PhaseGoto("deny")
  /\ UNCHANGED <<evidence, actors, ledger>>
AcceptDenial ==
  /\ InPhase("revoke", "deny")
  /\ WriteReceipt("denial")
  /\ PhaseEnds
  /\ UNCHANGED <<fixture, actors, ledger>>

(* stale_plan *)
PinStalePlan ==
  /\ InPhase("stale-plan", "start")
  /\ LoadCheckpoint /\ evidence.fault = "stale_publication" /\ AllStopped
  /\ ledger = "withdrawn"
  /\ WriteReceipt("plan")
  /\ PhaseEnds
  /\ UNCHANGED <<fixture, actors, ledger>>

(* closed_stale: replay on both services, idempotently, then the closed gate *)
ReplayStale(db) ==
  /\ InPhase("closed-stale", IF db = "nc_db" THEN "start" ELSE "wk_db")
  /\ LoadCheckpoint /\ Has("restored") /\ Has("plan") /\ AllStopped
  /\ ConfigurationRestored
  /\ fixture' = [fixture EXCEPT ![db] = "replayed"]
  /\ PhaseGoto(IF db = "nc_db" THEN "wk_db" ELSE "gate")
  /\ UNCHANGED <<evidence, actors, ledger>>
RecordStaleGate ==
  /\ InPhase("closed-stale", "gate")
  /\ fixture.nc_db = "replayed" /\ fixture.wk_db = "replayed"
  /\ WriteReceipt("stale_closed")
  /\ PhaseEnds
  /\ UNCHANGED <<fixture, actors, ledger>>

CleanupFixture ==
  /\ InPhase("cleanup", "start")
  /\ Has("denial")
  /\ actors' = {}
  /\ phase' = [phase EXCEPT !.pc = "removed"]
  /\ UNCHANGED <<fixture, evidence, ledger>>

(* main: a failed phase stops every actor; a killed one stops nothing. *)
PhaseRunning == phase.pc \notin {"none", "done", "removed"}
PhaseFails ==
  /\ PhaseRunning
  /\ actors' = {}
  /\ PhaseEnds
  /\ UNCHANGED <<fixture, evidence, ledger>>
PhaseKilled ==
  /\ PhaseRunning
  /\ PhaseEnds
  /\ UNCHANGED <<fixture, evidence, actors, ledger>>

NormalStep ==
  \/ \E name \in Phases : Invoke(name)
  \/ CheckBaseline \/ CaptureFull \/ PinCheckpoint \/ StopActors
  \/ ResumeForFault \/ FaultConfiguration \/ FaultFiles \/ WithdrawSource \/ CollectFault
  \/ FaultControl \/ RecordFault
  \/ RestoreControls \/ RestoreVolumesOf \/ RecordRestore
  \/ \E db \in {"nc_db", "wk_db"} : RestoreDatabase(db) \/ ReplayStale(db)
  \/ VerifyCleanClosed \/ ReopenNextcloud \/ ReopenWeKnora \/ AcceptRestored
  \/ RevokeShare \/ AcceptDenial \/ PinStalePlan \/ RecordStaleGate
  \/ CleanupFixture \/ PhaseFails \/ PhaseKilled

----------------------------------------------------------------------------
(* The applications are reopened for acceptance only on exactly the checkpoint's data and
   configuration, with nothing withdrawn since that the independent journal knows of:
   whatever order of phases, failures and kills went before, a receipt never stands in for
   the live state (reopen_and_accept, actual_clean_gates). *)
AcceptedAsRestored ==
  phase.opened = "reopen" /\ "weknora" \in actors /\ InPhase("reopen", "accept") =>
    fixture = Original /\ ledger = "checkpoint"
=============================================================================
