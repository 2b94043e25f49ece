---------------------------- MODULE RestoreDrill ----------------------------
(* The restore drills of a cold checkpoint: OwnedDrill and apply_drill
   (shared-cold-restore-drill.py), ApplicationDrill and application_validation
   (shared-application-restore-drill.py). A drill makes Docker resources under a fresh
   label, proves at every step that it still owns exactly those, and removes them.
   The daemon, its other users and the drill take steps of their own. *)
EXTENDS Integers, FiniteSets, Sequences

CONSTANTS
  NArchives,     \* volume archives of the checkpoint: 1..NArchives
  Linked,        \* those with symbolic links, whose owners a second helper restores
  MaxForeignActs \* bound on what others do to the drill's resources

ASSUME DrillAssumption ==
  NArchives \in Nat \ {0} /\ Linked \subseteq 1..NArchives /\ MaxForeignActs \in Nat

VARIABLES
  docker,   \* the resources at the daemon
  drill     \* the process, and what it has recorded

drillVars == <<docker, drill>>

Modes == {"volumes", "databases", "application"}
Network == <<"network", 0>>
VolumeOf(n) == <<"volume", n>>

(* A resource with its label (by), and what a container mounts or has joined. *)
Resource(kind, role, by, uses) == [kind |-> kind, role |-> role, by |-> by, uses |-> uses]
Step(op, role, uses) == [op |-> op, role |-> role, uses |-> uses]

(* One archive after the other: volume, extraction, link owners where it has links, and a
   read-only audit *)
RestoreVolumes ==
  [i \in 1..(4 * NArchives) |->
     LET n == (i + 3) \div 4
         helper(op, job) == Step(op, <<job, n>>, {VolumeOf(n)})
     IN  CASE i % 4 = 1 -> Step("volume", VolumeOf(n), {})
           [] i % 4 = 2 -> helper("helper", "extract")
           [] i % 4 = 3 -> helper(IF n \in Linked THEN "helper" ELSE "skip", "links")
           [] OTHER -> helper("helper", "audit")]

(* Database processes without a listener *)
VerifyDatabases ==
  <<Step("network", Network, {}),
    Step("database", <<"postgres", 0>>, {Network, VolumeOf(1)}),
    Step("database", <<"redis", 0>>, {Network, VolumeOf(NArchives)})>>

(* Databases behind write fences, LDAP and Nextcloud over disposable caches, and WeKnora,
   whose workers register with the restored queue when it starts. *)
LdapCache == <<"volume", NArchives + 1>>
VerifyLdap ==
  <<Step("volume", LdapCache, {}), Step("helper", <<"extract", NArchives + 1>>, {LdapCache}),
    Step("runtime", <<"openldap", 0>>, {Network, LdapCache})>>
DataCache == <<"volume", NArchives + 2>>
PrepareDataCache ==
  <<Step("volume", DataCache, {}), Step("helper", <<"extract", NArchives + 2>>, {DataCache})>>
AuditDataCache == <<Step("helper", <<"audit", NArchives + 2>>, {DataCache})>>
ApplicationValidation ==
  <<Step("stage", <<"app-code", 0>>, {}),
    Step("network", Network, {}),
    Step("runtime", <<"postgres", 0>>, {Network, VolumeOf(1)}),
    Step("runtime", <<"redis", 0>>, {Network, VolumeOf(NArchives)}),
    Step("fence", <<"redis", 0>>, {})>>
  \o VerifyLdap \o PrepareDataCache
  \o <<Step("runtime", <<"nextcloud-app", 0>>, {Network, DataCache}),
       Step("runtime", <<"weknora-app", 0>>, {Network, VolumeOf(NArchives)}),
       Step("fences-hold", <<"redis", 0>>, {})>>
  \o AuditDataCache

Program ==
  [volumes |-> RestoreVolumes,
   databases |-> RestoreVolumes \o VerifyDatabases,
   application |-> RestoreVolumes \o ApplicationValidation]

DrillInit ==
  /\ docker = {}
  /\ \E mode \in Modes :
       drill = [mode |-> mode, at |-> 1, phase |-> "attempt", status |-> "INCOMPLETE",
                volumes |-> {}, containers |-> {}, network |-> {}, attempted |-> {},
                started |-> {}, staged |-> "none", fenced |-> FALSE, claimed |-> FALSE,
                failed |-> FALSE, cleaned |-> FALSE, foreignActs |-> 0]

----------------------------------------------------------------------------
Recorded == drill.volumes \cup drill.containers \cup drill.network
AtDaemon(kind, by) == {r.role : r \in {q \in docker : q.kind = kind /\ q.by = by}}
Peers == {r \in docker : r.by = "foreign" /\ r.kind = "container"}

(* OwnedDrill.verify: the labelled resources are the recorded ones, ... *)
AllowlistKept ==
  /\ AtDaemon("volume", "drill") = drill.volumes
  /\ AtDaemon("container", "drill") = drill.containers
  /\ AtDaemon("network", "drill") = drill.network
(* ... and no other container mounts a volume or joined the network. *)
NoForeignPeer == \A r \in Peers : r.uses \cap Recorded = {}
(* ApplicationDrill.verify: the staged inputs and the overlays are as written. *)
StagingKept == drill.staged # "changed"
DrillVerify == AllowlistKept /\ NoForeignPeer /\ StagingKept

Working == drill.status = "INCOMPLETE" /\ ~drill.failed
Steps == Program[drill.mode]
Current == Steps[drill.at]
DrillAt(phase) == Working /\ drill.at <= Len(Steps) /\ drill.phase = phase
NextStep(i) == IF i < Len(Steps) /\ Steps[i + 1].op = "skip" THEN i + 2 ELSE i + 1
Onward(d) == [d EXCEPT !.at = NextStep(@), !.phase = "attempt"]
Failing(d) == [d EXCEPT !.failed = TRUE, !.phase = "cleanup"]
Makes(op) == Current.op = op
NameFree == \A r \in docker : r.role # Current.role

(* The name enters attempted_resources before the daemon is asked. *)
Attempt ==
  drill' = IF DrillVerify /\ NameFree
           THEN [drill EXCEPT !.attempted = @ \cup {Current.role}, !.phase = "create"]
           ELSE Failing(drill)

CreateVolume == DrillAt("attempt") /\ Makes("volume") /\ Attempt /\ UNCHANGED docker
CreateNetwork == DrillAt("attempt") /\ Makes("network") /\ Attempt /\ UNCHANGED docker
CreateContainer ==
  DrillAt("attempt") /\ (Makes("helper") \/ Makes("database")) /\ Attempt /\ UNCHANGED docker
CreateRuntime ==
  /\ DrillAt("attempt") /\ Makes("runtime")
  /\ drill.network # {}
  /\ Attempt
  /\ UNCHANGED docker

Kind(op) == IF op \in {"volume", "network"} THEN op ELSE "container"

(* External: the daemon makes the resource; the answer may be lost all the same. *)
DaemonCreates ==
  /\ DrillAt("create")
  /\ docker' = docker \cup {Resource(Kind(Current.op), Current.role, "drill", Current.uses)}
  /\ drill' \in {[drill EXCEPT !.phase = "record"], Failing(drill)}

RecordResource ==
  /\ DrillAt("record")
  /\ LET known == CASE Kind(Current.op) = "volume" ->
                         [drill EXCEPT !.volumes = @ \cup {Current.role}]
                    [] Kind(Current.op) = "network" -> [drill EXCEPT !.network = {Current.role}]
                    [] OTHER -> [drill EXCEPT !.containers = @ \cup {Current.role}]
     IN  drill' = IF Kind(Current.op) = "container" THEN [known EXCEPT !.phase = "start"]
                  ELSE Onward(known)
  /\ UNCHANGED docker

(* execute: a helper runs to its end, and leaves an exact copy or the wrong one. *)
Execute ==
  /\ DrillAt("start") /\ Makes("helper")
  /\ drill' \in {IF DrillVerify THEN Onward(drill) ELSE Failing(drill), Failing(drill)}
  /\ UNCHANGED docker

StartDatabase ==
  /\ DrillAt("start") /\ (Makes("database") \/ Makes("runtime"))
  /\ drill' = IF DrillVerify THEN Onward([drill EXCEPT !.started = @ \cup {Current.role}])
              ELSE Failing(drill)
  /\ UNCHANGED docker

(* extract_private and verify_staging *)
StageInputs ==
  /\ DrillAt("attempt") /\ Makes("stage")
  /\ drill' = Onward([drill EXCEPT !.staged = "exact"])
  /\ UNCHANGED docker

(* Redis: no EVAL and no writes for its only user; a refusal of both is required. *)
FenceQueue ==
  /\ DrillAt("attempt") /\ Makes("fence")
  /\ drill' = Onward([drill EXCEPT !.fenced = TRUE])
  /\ UNCHANGED docker

FencesHold ==
  /\ DrillAt("attempt") /\ Makes("fences-hold")
  /\ drill' = IF drill.fenced THEN Onward(drill) ELSE Failing(drill)
  /\ UNCHANGED docker

(* External: a worker of the restored WeKnora takes a task of the restored queue. *)
WorkerClaims ==
  /\ {<<"weknora-app", 0>>, <<"redis", 0>>} \subseteq drill.started
  /\ ~drill.fenced
  /\ drill' = [drill EXCEPT !.claimed = TRUE]
  /\ UNCHANGED docker

ValidationEnds ==
  /\ Working /\ drill.at > Len(Steps) /\ drill.phase = "attempt"
  /\ drill' = [drill EXCEPT !.phase = "cleanup"]
  /\ UNCHANGED docker

(* Any command, readiness wait or comparison may fail. *)
CommandFails ==
  /\ Working
  /\ drill' = Failing(drill)
  /\ UNCHANGED docker

----------------------------------------------------------------------------
(* cleanup: containers, the network, volumes, each in the order of their creation;
   ownership is proved before each. *)
Cleaning == drill.status = "INCOMPLETE" /\ drill.phase \in {"cleanup", "remove"}
NextRemoved ==
  IF drill.containers # {} THEN drill.containers
  ELSE IF drill.network # {} THEN drill.network ELSE drill.volumes
Oldest(roles) ==
  LET steps == Steps
      first == CHOOSE i \in DOMAIN steps :
                 steps[i].role \in roles /\ \A j \in 1..(i - 1) : steps[j].role \notin roles
  IN  steps[first].role

(* A failure of the cleanup that follows a failure is reported, and ends the drill. *)
CleanupFails(d) ==
  IF d.failed THEN [d EXCEPT !.status = "failed"] ELSE Failing(d)

CleanupVerify ==
  /\ Cleaning /\ drill.phase = "cleanup"
  /\ drill' = IF ~DrillVerify THEN CleanupFails(drill)
              ELSE IF NextRemoved # {} THEN [drill EXCEPT !.phase = "remove"]
              ELSE IF drill.failed THEN [drill EXCEPT !.status = "failed", !.cleaned = TRUE]
              ELSE [drill EXCEPT !.status = "COMPLETE", !.cleaned = TRUE]
  /\ UNCHANGED docker

(* Docker refuses to remove a volume or network that a container uses. *)
InUse(role) == \E r \in docker : r.kind = "container" /\ role \in r.uses
RemoveResource ==
  /\ Cleaning /\ drill.phase = "remove"
  /\ LET role == Oldest(NextRemoved)
     IN  IF InUse(role) \/ role \notin {r.role : r \in docker}
         THEN drill' = CleanupFails(drill) /\ UNCHANGED docker
         ELSE /\ docker' = {r \in docker : r.role # role}
              /\ drill' \in {[drill EXCEPT !.phase = "cleanup", !.volumes = @ \ {role},
                                !.containers = @ \ {role}, !.network = @ \ {role},
                                !.started = @ \ {role}],
                             CleanupFails([drill EXCEPT !.started = @ \ {role}])}

(* External: somebody else uses, removes or replaces a resource, or edits an input. *)
ForeignAct ==
  /\ drill.foreignActs < MaxForeignActs
  /\ drill' = [drill EXCEPT !.foreignActs = @ + 1]
ForeignUser ==
  /\ ForeignAct
  /\ \E r \in docker : r.by = "drill" /\ r.kind # "container"
       /\ docker' = docker \cup {Resource("container", <<"peer", 0>>, "foreign", {r.role})}
ForeignLeaves == Peers # {} /\ docker' = docker \ Peers /\ UNCHANGED drill
ForeignReplaces ==
  /\ ForeignAct
  /\ \E r \in docker :
       /\ r.by = "drill" /\ r.kind = "volume" /\ ~InUse(r.role)
       /\ docker' = (docker \ {r}) \cup {[r EXCEPT !.by = "foreign"]}
ForeignEdit ==
  /\ drill.staged = "exact"
  /\ drill.foreignActs < MaxForeignActs
  /\ drill' = [drill EXCEPT !.staged = "changed", !.foreignActs = @ + 1]
  /\ UNCHANGED docker

DrillStep ==
  \/ CreateVolume \/ CreateNetwork \/ CreateContainer \/ CreateRuntime
  \/ DaemonCreates \/ RecordResource \/ Execute \/ StartDatabase
  \/ StageInputs \/ FenceQueue \/ FencesHold \/ WorkerClaims \/ ValidationEnds \/ CommandFails
  \/ CleanupVerify \/ RemoveResource
  \/ ForeignUser \/ ForeignLeaves \/ ForeignReplaces \/ ForeignEdit

----------------------------------------------------------------------------
(* A drill that reports COMPLETE has left nothing of its own behind, whatever failed to
   be recorded on the way (apply_drill, cleanup_verified). *)
CompleteLeavesNothing ==
  drill.cleaned => \A r \in docker : r.by # "drill"

(* What a failed drill leaves, because ownership could not be proved any more, is named in
   its failure report (retained_closed_resources, attempted_resources). *)
RetainedIsReported ==
  \A r \in docker : r.by = "drill" => r.role \in drill.attempted

(* Restored queue tasks are never executed: the fence is up before the restored
   WeKnora's workers register (application_validation). *)
NoCapturedTaskRuns == ~drill.claimed
=============================================================================
