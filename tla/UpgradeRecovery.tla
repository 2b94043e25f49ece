--------------------------- MODULE UpgradeRecovery ---------------------------
(* The failed-upgrade drill: isolated-upgrade-failure-recovery.py. A disposable stack takes
   a cold checkpoint of its two volumes, upgrades to an application whose last migration
   fails, throws the half-migrated volumes away and comes back from the checkpoint. *)
EXTENDS Integers, FiniteSets

CONSTANT MaxSetbacks     \* bound: damaged archives, foreign resources, failures, kills

VARIABLES
  drillApp,    \* the temporary copy of the application: "old", "new" or "faulted"
  volumes,     \* what the database and the html volume contain; {} before they are created
  services,    \* the running services
  ours,        \* the Compose project: created, and whether everything in it is ours
  cold,        \* the checkpoint: the archives, their digests, what was there when they were taken
  upgrade,     \* the drill
  setbacks

upgradeVars == <<drillApp, volumes, services, ours, cold, upgrade, setbacks>>

Roles == {"db", "html"}
StackServices == {"database", "redis", "cloud"}
Baseline == [db |-> {"tables", "rows"}, html |-> {"note", "config"}]
Stock == [db |-> {}, html |-> {"stock"}]           \* what the image puts into a new volume
NoVolumes == [r \in Roles |-> {}]
NoArchive == [archive |-> NoVolumes, digest |-> NoVolumes, taken |-> NoVolumes]

UpgradeInit ==
  /\ drillApp = "old" /\ volumes = NoVolumes /\ services = {}
  /\ ours = [created |-> FALSE, foreign |-> FALSE]
  /\ cold = NoArchive
  /\ upgrade = [pc |-> "idle", role |-> "db", passed |-> FALSE]
  /\ setbacks = 0

UpgradeAt(pc) == upgrade.pc = pc
UpgradeGoto(pc) == upgrade' = [upgrade EXCEPT !.pc = pc]
Setback == setbacks < MaxSetbacks /\ setbacks' = setbacks + 1
ServingUsers == "cloud" \in services /\ "maintenance" \notin volumes.html
OtherRole(r) == IF r = "db" THEN "html" ELSE "db"

(* assert_unoccupied, assert_owned: every container, volume and network bears our labels. *)
ProjectFree == ~ours.created /\ ~ours.foreign
ProjectOwned == ~ours.foreign
ProjectWhole == ProjectOwned /\ ours.created

----------------------------------------------------------------------------
(* The baseline is installed, and given a file, a binding and a publication row. *)
InstallBaseline ==
  /\ UpgradeAt("idle") /\ ProjectFree
  /\ ours' = [ours EXCEPT !.created = TRUE]
  /\ volumes' = Baseline /\ services' = StackServices
  /\ UpgradeGoto("stop")
  /\ UNCHANGED <<drillApp, cold, setbacks>>

(* Everything stops, and is checked to have stopped, before the first archive. *)
StopForCheckpoint ==
  /\ UpgradeAt("stop") /\ ProjectWhole
  /\ \E left \in SUBSET services : Cardinality(left) <= 1 /\ services' = left
  /\ UpgradeGoto("cold")
  /\ UNCHANGED <<drillApp, volumes, ours, cold, setbacks>>
CheckCold ==
  /\ UpgradeAt("cold") /\ services = {}
  /\ UpgradeGoto("archive")
  /\ UNCHANGED <<drillApp, volumes, services, ours, cold, setbacks>>
ArchiveVolume ==
  /\ UpgradeAt("archive")
  /\ LET r == upgrade.role IN
       /\ cold' = [cold EXCEPT !.archive[r] = volumes[r], !.digest[r] = volumes[r],
                               !.taken[r] = volumes[r]]
       /\ upgrade' = [upgrade EXCEPT !.pc = IF r = "db" THEN "archive" ELSE "maintain",
                                     !.role = OtherRole(@)]
  /\ UNCHANGED <<drillApp, volumes, services, ours, setbacks>>

(* The stack starts again, closes, and only then gets the new code with the fault in its
   last migration. *)
CloseForUpgrade ==
  /\ UpgradeAt("maintain")
  /\ IF services = {} THEN services' = StackServices /\ UNCHANGED <<volumes, upgrade>>
     ELSE /\ volumes' = [volumes EXCEPT !.html = @ \cup {"maintenance"}]
          /\ UpgradeGoto("replace") /\ UNCHANGED services
  /\ UNCHANGED <<drillApp, ours, cold, setbacks>>
ReplaceApp ==
  /\ UpgradeAt("replace")
  /\ drillApp' = IF drillApp = "old" THEN "new" ELSE "faulted"
  /\ UpgradeGoto(IF drillApp = "old" THEN "replace" ELSE "upgrade")
  /\ UNCHANGED <<volumes, services, ours, cold, setbacks>>
(* occ upgrade applies the schema and fails in the injected hook, still closed. *)
UpgradeStopsHalfway ==
  /\ UpgradeAt("upgrade") /\ drillApp = "faulted"
  /\ volumes' = [volumes EXCEPT !.db = @ \cup {"new-tables"}]
  /\ UpgradeGoto("halfway")
  /\ UNCHANGED <<drillApp, services, ours, cold, setbacks>>
CheckHalfway ==
  /\ UpgradeAt("halfway")
  /\ "maintenance" \in volumes.html /\ {"new-tables", "rows"} \subseteq volumes.db
  /\ UpgradeGoto("mutate")
  /\ UNCHANGED <<drillApp, volumes, services, ours, cold, setbacks>>
MutateAfterCheckpoint ==
  /\ UpgradeAt("mutate")
  /\ volumes' = [db |-> (volumes.db \ {"rows"}) \cup {"later rows"},
                 html |-> (volumes.html \ {"note"}) \cup {"later note"}]
  /\ services' = {}
  /\ UpgradeGoto("discard")
  /\ UNCHANGED <<drillApp, ours, cold, setbacks>>

(* compose down --volumes, the old code, and new volumes, which are cleared and filled one
   by one from archives that still have their digests. *)
DiscardStack ==
  /\ UpgradeAt("discard") /\ ProjectWhole
  /\ volumes' = NoVolumes /\ services' = {}
  /\ ours' = [ours EXCEPT !.created = FALSE]
  /\ UpgradeGoto("recreate")
  /\ UNCHANGED <<drillApp, cold, setbacks>>
RecreateStack ==
  /\ UpgradeAt("recreate")
  /\ drillApp' = "old"
  /\ volumes' = Stock
  /\ ours' = [ours EXCEPT !.created = TRUE]
  /\ upgrade' = [upgrade EXCEPT !.pc = "clear", !.role = "db"]
  /\ UNCHANGED <<services, cold, setbacks>>
ClearOwnedVolume ==
  /\ UpgradeAt("clear") /\ ProjectWhole
  /\ cold.archive[upgrade.role] = cold.digest[upgrade.role]
  /\ volumes' = [volumes EXCEPT ![upgrade.role] = {}]
  /\ UpgradeGoto("fill")
  /\ UNCHANGED <<drillApp, services, ours, cold, setbacks>>
FillVolume ==
  /\ UpgradeAt("fill")
  /\ volumes' = [volumes EXCEPT ![upgrade.role] = @ \cup cold.archive[upgrade.role]]
  /\ upgrade' = [upgrade EXCEPT !.pc = IF upgrade.role = "db" THEN "clear" ELSE "reopen",
                                !.role = OtherRole(@)]
  /\ UNCHANGED <<drillApp, services, ours, cold, setbacks>>
ReopenStack ==
  /\ UpgradeAt("reopen") /\ services = {}
  /\ services' = StackServices
  /\ UpgradeGoto("verify")
  /\ UNCHANGED <<drillApp, volumes, ours, cold, setbacks>>
VerifyRestored ==
  /\ UpgradeAt("verify")
  /\ drillApp = "old" /\ ServingUsers
  /\ "new-tables" \notin volumes.db /\ "rows" \in volumes.db
  /\ {"note", "config"} \subseteq volumes.html
  /\ upgrade' = [upgrade EXCEPT !.pc = "remove", !.passed = TRUE]
  /\ UNCHANGED <<drillApp, volumes, services, ours, cold, setbacks>>

(* finally: whatever happened, the marker-owned project is taken down. *)
RemoveProject ==
  /\ UpgradeAt("remove") /\ ProjectOwned
  /\ volumes' = NoVolumes /\ services' = {}
  /\ ours' = [ours EXCEPT !.created = FALSE]
  /\ UpgradeGoto("ended")
  /\ UNCHANGED <<drillApp, cold, setbacks>>
UpgradeFails ==
  /\ upgrade.pc \notin {"idle", "remove", "ended"} /\ Setback
  /\ UpgradeGoto("remove")
  /\ UNCHANGED <<drillApp, volumes, services, ours, cold>>

(* External: the running application writes rows and files that belong together; an
   archive rots, but not between its digest and its reading; a foreign resource bears the
   project's name. *)
CloudWrites ==
  /\ ServingUsers
  /\ volumes' = [r \in Roles |-> volumes[r] \cup {"both"}]
  /\ UNCHANGED <<drillApp, services, ours, cold, upgrade, setbacks>>
ArchiveRots ==
  /\ Setback /\ ~UpgradeAt("fill")
  /\ \E r \in Roles : cold.archive[r] # {} /\ cold' = [cold EXCEPT !.archive[r] = {}]
  /\ UNCHANGED <<drillApp, volumes, services, ours, upgrade>>
ForeignInProject ==
  /\ \/ ours.foreign /\ UNCHANGED setbacks
     \/ ~ours.foreign /\ Setback
  /\ ours' = [ours EXCEPT !.foreign = ~@]
  /\ UNCHANGED <<drillApp, volumes, services, cold, upgrade>>

UpgradeStep ==
  \/ InstallBaseline \/ StopForCheckpoint \/ CheckCold \/ ArchiveVolume \/ CloseForUpgrade
  \/ ReplaceApp \/ UpgradeStopsHalfway \/ CheckHalfway \/ MutateAfterCheckpoint \/ DiscardStack
  \/ RecreateStack \/ ClearOwnedVolume \/ FillVolume \/ ReopenStack \/ VerifyRestored
  \/ RemoveProject \/ UpgradeFails \/ CloudWrites \/ ArchiveRots \/ ForeignInProject

----------------------------------------------------------------------------
(* Users are never served by the new code or from half-migrated tables ("never resume
   ingress on the half-migrated database"). *)
NeverServesHalfMigrated == ServingUsers => drillApp = "old" /\ "new-tables" \notin volumes.db

(* A stack that was reopened is the checkpoint and nothing else, both halves of it taken at
   one point of the application's history, and no half of it from the failed upgrade. *)
RestoredIsCheckpoint ==
  (UpgradeAt("verify") \/ (upgrade.passed /\ UpgradeAt("remove"))) =>
    /\ \E later \in {{}, {"both"}} : volumes = [r \in Roles |-> cold.taken[r] \cup later]
    /\ ("both" \in cold.taken.db) = ("both" \in cold.taken.html)
=============================================================================
