---------------------------- MODULE DualRestore ----------------------------
(* The drill of a coordinated restore: isolated-dual-service-restore.py.  A disposable
   Nextcloud and WeKnora are checkpointed together, a published file is deleted, both are
   destroyed and restored from the stale checkpoint, and the deletion is replayed from a
   journal before WeKnora may start. *)
EXTENDS Integers, FiniteSets

CONSTANT MaxDualFaults     \* bound: damaged archives and foreign resources

VARIABLES
  vols,       \* the facts held by Nextcloud's database and files and by WeKnora's database
  running,    \* the running services
  dualStack,    \* the Compose project: created, and whether a foreign resource bears its name
  kept,       \* the evidence directory: archives, digests, checkpoint.json, the journal
  dual,       \* the drill
  dualFaults

dualVars == <<vols, running, dualStack, kept, dual, dualFaults>>

VolumeRoles == {"ncdb", "files", "wkdb"}
DualDatabases == {"ncdb", "wkdb"}
DualApps == {"nextcloud", "wk-app"}
DualServices == DualDatabases \cup DualApps
EmptyVolumes == [r \in VolumeRoles |-> {}]

DualInit ==
  /\ vols = EmptyVolumes /\ running = {}
  /\ dualStack = [created |-> FALSE, foreign |-> FALSE]
  /\ kept = [archive |-> EmptyVolumes, digest |-> EmptyVolumes,
             checkpoint |-> FALSE, journal |-> FALSE]
  /\ dual = [pc |-> "idle", left |-> VolumeRoles, passed |-> FALSE]
  /\ dualFaults = 0

Advance(from, to) == dual.pc = from /\ dual' = [dual EXCEPT !.pc = to]
SameData == UNCHANGED <<vols, kept, dualFaults>>
OnlyDrill == SameData /\ UNCHANGED <<running, dualStack>>
OneDualFault == dualFaults < MaxDualFaults /\ dualFaults' = dualFaults + 1

(* owned_resources, validate_owned_fixture, assert_project_unoccupied *)
DualOwned == ~dualStack.foreign
DualWhole == DualOwned /\ dualStack.created
DualUnoccupied == ~dualStack.created /\ DualOwned

(* source_decision: Nextcloud answers for a file that exists, is published and is not
   withdrawn. *)
CloudAnswers == {"nextcloud", "ncdb"} \subseteq running
SourceAllows ==
  CloudAnswers /\ "note" \in vols.files /\ "active" \in vols.ncdb /\ "excluded" \notin vols.ncdb

(* version_state and the probes: WeKnora returns a visible row only for a live grant. *)
Visible == "visible" \in vols.wkdb
NoteReadable == {"wk-app", "wkdb"} \subseteq running /\ Visible /\ SourceAllows

----------------------------------------------------------------------------
(* The fixture is prepared, started (a second time after a failed pass that left only
   resources of its own), filled and read once with the token that is kept. *)
PrepareDual ==
  /\ DualUnoccupied /\ Advance("idle", "up") /\ OnlyDrill
FirstPassFails ==
  /\ DualWhole \/ DualUnoccupied
  /\ Advance("up", "again") /\ SameData
  /\ running' \in {{}, DualDatabases}
  /\ dualStack' = [dualStack EXCEPT !.created = TRUE]
BringUp ==
  /\ \/ Advance("up", "bootstrap")
     \/ DualWhole /\ Advance("again", "bootstrap")
  /\ DualOwned /\ SameData
  /\ running' = DualServices
  /\ dualStack' = [dualStack EXCEPT !.created = TRUE]
Bootstrap ==
  /\ DualWhole /\ Advance("bootstrap", "baseline")
  /\ vols' = [ncdb |-> {"paired", "active"}, files |-> {"note"}, wkdb |-> {"visible"}]
  /\ UNCHANGED <<running, dualStack, kept, dualFaults>>
DualBaseline ==
  /\ NoteReadable /\ Advance("baseline", "stop") /\ OnlyDrill

(* Both applications stop and are seen stopped, both databases are dumped and stopped, the
   volumes are archived cold, and checkpoint.json is written last. *)
StopApps ==
  /\ DualWhole /\ Advance("stop", "stopped") /\ SameData
  /\ \E left \in SUBSET DualApps : running' = DualDatabases \cup left
  /\ UNCHANGED dualStack
DumpDatabases ==
  /\ running = DualDatabases /\ Advance("stopped", "dumped") /\ OnlyDrill
StopDualDatabases ==
  /\ DualWhole /\ Advance("dumped", "archive") /\ SameData
  /\ running' = {}
  /\ UNCHANGED dualStack
ArchiveRole ==
  /\ dual.pc = "archive"
  /\ \E r \in dual.left :
       /\ kept' = [kept EXCEPT !.archive[r] = vols[r], !.digest[r] = vols[r]]
       /\ dual' = [dual EXCEPT !.left = @ \ {r}]
  /\ UNCHANGED <<vols, running, dualStack, dualFaults>>
WriteCheckpoint ==
  /\ dual.left = {} /\ Advance("archive", "resume")
  /\ kept' = [kept EXCEPT !.checkpoint = TRUE]
  /\ UNCHANGED <<vols, running, dualStack, dualFaults>>

(* After the checkpoint the file is deleted, two scans leave a tombstone, and the journal
   says so; only then is the project destroyed. *)
StartAgain ==
  /\ DualWhole /\ Advance("resume", "delete") /\ SameData
  /\ running' = DualServices
  /\ UNCHANGED dualStack
DeleteNote ==
  /\ CloudAnswers /\ Advance("delete", "scan")
  /\ vols' = [vols EXCEPT !.files = @ \ {"note"}]
  /\ UNCHANGED <<running, dualStack, kept, dualFaults>>
(* sync_to_terminal: a scan that misses the file marks it, the next one tombstones it. *)
ScanSource ==
  /\ dual.pc \in {"scan", "reconcile"} /\ running = DualServices /\ Visible
  /\ vols' = [vols EXCEPT !.wkdb =
       IF SourceAllows THEN @ \ {"missed"}
       ELSE IF "missed" \in @ THEN (@ \ {"missed", "visible"}) \cup {"tombstone"}
       ELSE @ \cup {"missed"}]
  /\ UNCHANGED <<running, dualStack, kept, dual, dualFaults>>
WriteJournal ==
  /\ "tombstone" \in vols.wkdb /\ ~NoteReadable
  /\ Advance("scan", "destroy")
  /\ kept' = [kept EXCEPT !.journal = TRUE]
  /\ UNCHANGED <<vols, running, dualStack, dualFaults>>
DestroyDual ==
  /\ DualWhole /\ Advance("destroy", "checkpoint")
  /\ vols' = EmptyVolumes /\ running' = {}
  /\ dualStack' = [dualStack EXCEPT !.created = FALSE]
  /\ UNCHANGED <<kept, dualFaults>>

----------------------------------------------------------------------------
(* verify_archive over checkpoint.json, the control files, containers that are created and
   not started, the volumes from their archives. *)
VerifyDualCheckpoint ==
  /\ kept.checkpoint /\ kept.archive = kept.digest
  /\ Advance("checkpoint", "controls") /\ OnlyDrill
RestoreDualControls ==
  /\ DualOwned /\ Advance("controls", "create") /\ OnlyDrill
CreateStopped ==
  /\ DualOwned
  /\ dual.pc = "create"
  /\ dual' = [dual EXCEPT !.pc = "restore", !.left = VolumeRoles]
  /\ dualStack' = [dualStack EXCEPT !.created = TRUE]
  /\ SameData /\ UNCHANGED running
RestoreRole ==
  /\ dual.pc = "restore" /\ running \cap DualApps = {}
  /\ \E r \in dual.left :
       /\ vols' = [vols EXCEPT ![r] = @ \cup kept.archive[r]]
       /\ dual' = [dual EXCEPT !.left = @ \ {r}]
  /\ UNCHANGED <<running, dualStack, kept, dualFaults>>
StartDatabases ==
  /\ dual.left = {} /\ DualWhole
  /\ Advance("restore", "stale") /\ SameData
  /\ running' = DualDatabases
  /\ UNCHANGED dualStack
(* The old publication is back, no application runs, and the journal may be replayed. *)
StaleRestored ==
  /\ Visible /\ running \cap DualApps = {} /\ kept.journal
  /\ Advance("stale", "cloud") /\ OnlyDrill
StartCloud ==
  /\ DualWhole /\ Advance("cloud", "identify") /\ SameData
  /\ running' = running \cup {"nextcloud"}
  /\ UNCHANGED dualStack
CheckIdentities ==
  /\ "wk-app" \notin running /\ "paired" \in vols.ncdb /\ SourceAllows
  /\ Advance("identify", "fence") /\ OnlyDrill

(* The replay: publication stops, the file is withdrawn and deleted, publication resumes. *)
StopPublication ==
  /\ CloudAnswers /\ Advance("fence", "withdraw")
  /\ vols' = [vols EXCEPT !.ncdb = @ \ {"active"}]
  /\ UNCHANGED <<running, dualStack, kept, dualFaults>>
WithdrawNote ==
  /\ CloudAnswers /\ ~SourceAllows /\ Advance("withdraw", "remove")
  /\ vols' = [vols EXCEPT !.ncdb = @ \cup {"excluded"}]
  /\ UNCHANGED <<running, dualStack, kept, dualFaults>>
RemoveStale ==
  /\ CloudAnswers /\ Advance("remove", "reopen")
  /\ vols' = [vols EXCEPT !.files = @ \ {"note"}]
  /\ UNCHANGED <<running, dualStack, kept, dualFaults>>
ResumePublication ==
  /\ CloudAnswers /\ Advance("reopen", "denied")
  /\ vols' = [vols EXCEPT !.ncdb = @ \cup {"active"}]
  /\ UNCHANGED <<running, dualStack, kept, dualFaults>>
StartRag ==
  /\ DualWhole /\ ~SourceAllows /\ Advance("denied", "probe") /\ SameData
  /\ running' = running \cup {"wk-app"}
  /\ UNCHANGED dualStack
OldTokenDenied ==
  /\ ~NoteReadable /\ Advance("probe", "reconcile") /\ OnlyDrill
RemoveDual ==
  /\ dual.pc = "reconcile" /\ "tombstone" \in vols.wkdb /\ ~NoteReadable /\ DualWhole
  /\ vols' = EmptyVolumes /\ running' = {}
  /\ dualStack' = [dualStack EXCEPT !.created = FALSE]
  /\ dual' = [dual EXCEPT !.pc = "ended", !.passed = TRUE]
  /\ UNCHANGED <<kept, dualFaults>>
(* Any failure, or a kill, leaves the project as it is. *)
DualFails ==
  /\ dual.pc \notin {"idle", "ended"}
  /\ dual' = [dual EXCEPT !.pc = "ended"]
  /\ OnlyDrill

(* External: an archive is damaged; a foreign resource takes the project's name and goes. *)
ArchiveDamaged ==
  /\ OneDualFault
  /\ \E r \in VolumeRoles : kept.archive[r] # {} /\ kept' = [kept EXCEPT !.archive[r] = {}]
  /\ UNCHANGED <<vols, running, dualStack, dual>>
ForeignInDual ==
  /\ \/ dualStack.foreign /\ UNCHANGED dualFaults
     \/ ~dualStack.foreign /\ OneDualFault
  /\ dualStack' = [dualStack EXCEPT !.foreign = ~@]
  /\ UNCHANGED <<vols, running, kept, dual>>

DualStep ==
  \/ PrepareDual \/ FirstPassFails \/ BringUp \/ Bootstrap \/ DualBaseline \/ StopApps
  \/ DumpDatabases \/ StopDualDatabases \/ ArchiveRole \/ WriteCheckpoint \/ StartAgain
  \/ DeleteNote \/ ScanSource \/ WriteJournal \/ DestroyDual \/ VerifyDualCheckpoint
  \/ RestoreDualControls \/ CreateStopped \/ RestoreRole \/ StartDatabases \/ StaleRestored
  \/ StartCloud \/ CheckIdentities \/ StopPublication \/ WithdrawNote \/ RemoveStale
  \/ ResumePublication \/ StartRag \/ OldTokenDenied \/ RemoveDual \/ DualFails
  \/ ArchiveDamaged \/ ForeignInDual

----------------------------------------------------------------------------
(* A file whose deletion has been journalled is never readable again, though the checkpoint
   brings back the file, its publication and the rows WeKnora indexed, and wherever the
   drill stops. *)
DeletedStaysUnreadable == kept.journal => ~NoteReadable
=============================================================================
