----------------------------- MODULE Operations -----------------------------
(***************************************************************************)
(* The operators' tools, one after the other under one roof.  Every tool   *)
(* works on a deployment or a synthetic fixture of its own, so no step of  *)
(* one meets the state of another: a behaviour is the behaviour of the one *)
(* tool it began with, and what one tool promises is checked in the states *)
(* of that tool.                                                           *)
(***************************************************************************)
EXTENDS AssetDownload, ColdRecovery, RestoreDrill, NormalRestore, SyntheticFixture, LanAddress,
        PilotVolume, PilotLoad, UpgradeRecovery, SourceDriver, EventRebind, AbortSmoke,
        DualRestore, ResourceWatch

VARIABLE tool     \* the tool that is used

toolStates ==
    <<downloadVars, recoveryVars, drillVars, restoreVars, fixtureVars, lanVars, pilotVars,
      loadVars, upgradeVars, driverVars, rebindVars, smokeVars, dualVars, watchVars>>

Tools ==
    {"download", "recovery", "drill", "restore", "fixture", "lan", "pilot", "load",
     "upgrade", "driver", "rebind", "abort", "dual", "watch"}

OperationsInit ==
    /\ tool \in Tools
    /\ DownloadInit /\ RecoveryInit /\ DrillInit /\ NormalInit
    /\ FixtureInit /\ LanInit /\ PilotInit /\ LoadInit
    /\ UpgradeInit /\ DriverInit /\ RebindInit /\ SmokeInit
    /\ DualInit /\ WatchInit
    \* a tool that is not used begins in one way only
    /\ tool # "download" => asset[1] = <<>>
    /\ tool # "drill" => drill.mode = "volumes"
    /\ tool # "driver" => trust = "pairing"

\* The deployments and fixtures of the other tools stay as they were found.
OthersRest ==
    /\ IF tool = "download" THEN TRUE ELSE UNCHANGED downloadVars
    /\ IF tool = "recovery" THEN TRUE ELSE UNCHANGED recoveryVars
    /\ IF tool = "drill" THEN TRUE ELSE UNCHANGED drillVars
    /\ IF tool = "restore" THEN TRUE ELSE UNCHANGED restoreVars
    /\ IF tool = "fixture" THEN TRUE ELSE UNCHANGED fixtureVars
    /\ IF tool = "lan" THEN TRUE ELSE UNCHANGED lanVars
    /\ IF tool = "pilot" THEN TRUE ELSE UNCHANGED pilotVars
    /\ IF tool = "load" THEN TRUE ELSE UNCHANGED loadVars
    /\ IF tool = "upgrade" THEN TRUE ELSE UNCHANGED upgradeVars
    /\ IF tool = "driver" THEN TRUE ELSE UNCHANGED driverVars
    /\ IF tool = "rebind" THEN TRUE ELSE UNCHANGED rebindVars
    /\ IF tool = "abort" THEN TRUE ELSE UNCHANGED smokeVars
    /\ IF tool = "dual" THEN TRUE ELSE UNCHANGED dualVars
    /\ IF tool = "watch" THEN TRUE ELSE UNCHANGED watchVars

OperationsStep ==
    \/ tool = "download" /\ DownloadStep /\ OthersRest /\ UNCHANGED tool
    \/ tool = "recovery" /\ RecoveryNext /\ OthersRest /\ UNCHANGED tool
    \/ tool = "drill" /\ DrillStep /\ OthersRest /\ UNCHANGED tool
    \/ tool = "restore" /\ NormalStep /\ OthersRest /\ UNCHANGED tool
    \/ tool = "fixture" /\ FixtureStep /\ OthersRest /\ UNCHANGED tool
    \/ tool = "lan" /\ LanStep /\ OthersRest /\ UNCHANGED tool
    \/ tool = "pilot" /\ PilotStep /\ OthersRest /\ UNCHANGED tool
    \/ tool = "load" /\ LoadStep /\ OthersRest /\ UNCHANGED tool
    \/ tool = "upgrade" /\ UpgradeStep /\ OthersRest /\ UNCHANGED tool
    \/ tool = "driver" /\ DriverStep /\ OthersRest /\ UNCHANGED tool
    \/ tool = "rebind" /\ RebindStep /\ OthersRest /\ UNCHANGED tool
    \/ tool = "abort" /\ SmokeStep /\ OthersRest /\ UNCHANGED tool
    \/ tool = "dual" /\ DualStep /\ OthersRest /\ UNCHANGED tool
    \/ tool = "watch" /\ WatchStep /\ OthersRest /\ UNCHANGED tool

OperationsSpec == OperationsInit /\ [][OperationsStep]_<<tool, toolStates>>

-----------------------------------------------------------------------------
(* What the tools promise; each part is stated in the module of its tool.  *)

(* A recovery forgets no withdrawal, from one linear history and from a
   checkpoint that holds both services at one instant (shared-cold-checkpoint,
   publication-recovery-journal, coordinated-recovery-gate).               *)
RecoveryForgetsNothing ==
    CompleteMeansOneHistory /\ MatchedCheckpoint /\ NoRevocationForgotten

(* What is opened after a restoration is the checkpoint and nothing newer or
   older, in the normal restore, after a failed upgrade and when both
   services come back from one drill.                                      *)
OpenedAsRestored ==
    /\ AcceptedAsRestored /\ DeletedStaysUnreadable
    /\ NeverServesHalfMigrated /\ RestoredIsCheckpoint

(* Whatever a killed or failing tool leaves behind can still be found: it is
   removed, named in a report, or kept with the files that remove it.      *)
LeftoversAccounted ==
    /\ CompleteLeavesNothing /\ RetainedIsReported
    /\ ScratchOutlivesResources /\ PilotRemovable /\ ReportHolds

(* Nothing runs before what guards it: no restored task before the fence, no
   reader before its journal, no employee before the groups, and no removal
   under a PUT that is still in flight.                                    *)
GuardsComeFirst ==
    NoCapturedTaskRuns /\ JournalBeforeApp /\ UpMeansGranted /\ NoPutIntoCleanup

(* A changed LAN address or gateway address is changed everywhere, with a
   backup of what was there.                                               *)
AddressChangesLast == RotationLasts /\ BackupBeforeChange /\ ProxiesAccounted

(* A measurement is of the sample, the task and the container it names, and
   leaves neither credential nor marker of others behind.                  *)
MeasurementsSound ==
    /\ SamplesHaveOwnTask /\ HopsBelongToSample /\ CredentialsRevoked
    /\ SampledOneOwnContainer /\ RivalKeepsMarker

(* What the pairing, rotation, rebind and abort tools reported stays true,
   and what an operation still needs stays there.                          *)
ReportsHold == ClaimsHold /\ ReportedOnce /\ PendingKeepsFixture

(* A tool that is repeated goes on where it stopped: it fetches no block a
   second time, and resumes no sender that went on without it.             *)
RepeatedToolGoesOn ==
    [][FetchedBlocksKept /\ ResumesWhereItStopped]_<<tool, toolStates>>
=============================================================================
