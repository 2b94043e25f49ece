----------------------------- MODULE PilotVolume -----------------------------
(* The original-volume pilot: pilot-original-volume.py. "run" prepares a private state
   directory, starts its own stack, uploads a corpus of originals from a pool of workers,
   compares it on disk, in the file cache and in the manifests, and removes everything
   unless it passed and was asked to stay. "cleanup" removes what a run left behind. *)
EXTENDS Integers, FiniteSets

CONSTANTS NOriginals,      \* --file-count
          Workers,         \* --workers
          BatchSize,       \* PUTs between two looks at the capacity
          MaxUpsets        \* bound: lost originals, full disks, foreign resources, kills

(* parse_args: an even number of originals, and between one and four workers *)
ASSUME PilotArguments ==
  /\ NOriginals \in Nat /\ NOriginals >= 2 /\ NOriginals % 2 = 0 /\ Workers \in 1..4
  /\ BatchSize \in Nat \ {0}

VARIABLES
  pilotDir,    \* the private files of the state directory
  report,      \* report.json: the result, and what became of the resources
  stack,       \* the pilot's Docker resources, and whether a foreign one is among them
  originals,   \* where each original is: on disk, in the file cache
  sharing,     \* the departments' folders, the comparison folder, the app
  pilot,       \* the running command
  upsets

pilotVars == <<pilotDir, report, stack, originals, sharing, pilot, upsets>>

Originals == 0 .. NOriginals - 1
Departments == {0, 1}
DepartmentOf(index) == index % 2
Kinds == {"container", "volume", "network"}
Private == {"state", "compose", "credentials"}
NoReport == [result |-> "none", cleanup |-> "none"]

PilotInit ==
  /\ pilotDir = {} /\ report = NoReport
  /\ stack = [owned |-> {}, foreign |-> FALSE]
  /\ originals = [disk |-> {}, cache |-> {}]
  /\ sharing = [folders |-> {}, bound |-> {}, compare |-> FALSE, app |-> TRUE]
  /\ pilot = [command |-> "none", pc |-> "none", retain |-> FALSE, compare |-> FALSE,
              next |-> 0, flying |-> {}, done |-> {}, seen |-> {}, passed |-> FALSE]
  /\ upsets = 0

PilotAt(pc) == pilot.pc = pc
PilotGoto(pc) == pilot' = [pilot EXCEPT !.pc = pc]
Upset == upsets < MaxUpsets /\ upsets' = upsets + 1
PilotOnly == UNCHANGED <<pilotDir, report, stack, originals, sharing, upsets>>

----------------------------------------------------------------------------
(* assert_owned_resources and load_state: names alone never own data *)
OwnedPilot == ~stack.foreign
NoPilotResources == stack.owned = {} /\ ~stack.foreign
StateIntact == {"state", "compose"} \subseteq pilotDir

(* prepare: the private files exist before anything else does; state.json goes last. *)
PreparePilot ==
  /\ pilot.command = "none" /\ pilotDir = {} /\ report = NoReport
  /\ NoPilotResources
  /\ \E retain, compare \in BOOLEAN :
       pilot' = [pilot EXCEPT !.command = "run", !.pc = "compose", !.retain = retain,
                              !.compare = compare, !.next = 0, !.done = {}, !.seen = {},
                              !.passed = FALSE]
  /\ UNCHANGED <<pilotDir, report, stack, originals, sharing, upsets>>
WritePrivate ==
  \E file \in Private :
    /\ PilotAt(file)
    /\ pilotDir' = pilotDir \cup {file}
    /\ PilotGoto(CASE file = "compose" -> "credentials"
                   [] file = "credentials" -> "state" [] OTHER -> "start")
    /\ UNCHANGED <<report, stack, originals, sharing, upsets>>

(* execute: the stack starts on names nobody holds, and is looked at again when it runs. *)
StartStack ==
  /\ PilotAt("start") /\ NoPilotResources
  /\ stack' = [stack EXCEPT !.owned = Kinds]
  /\ originals' = [disk |-> {}, cache |-> {}]
  /\ sharing' = [folders |-> {}, bound |-> {}, compare |-> FALSE, app |-> TRUE]
  /\ PilotGoto("ready")
  /\ UNCHANGED <<pilotDir, report, upsets>>
StackReady ==
  /\ PilotAt("ready") /\ OwnedPilot
  /\ PilotGoto(IF pilot.compare THEN "disabled" ELSE "departments")
  /\ PilotOnly

(* measure_upload_impact: PUTs with the app disabled, then enabled, into a folder of their
   own; whatever happens the app is enabled and the folder removed. *)
CompareUploads ==
  /\ pilot.pc \in {"disabled", "enabled"}
  /\ sharing' = [sharing EXCEPT !.compare = TRUE, !.app = PilotAt("enabled")]
  /\ PilotGoto(IF PilotAt("disabled") THEN "enabled" ELSE "compared")
  /\ UNCHANGED <<pilotDir, report, stack, originals, upsets>>
EndComparison ==
  /\ PilotAt("compared")
  /\ sharing' = [sharing EXCEPT !.app = TRUE, !.compare = FALSE]
  /\ PilotGoto("departments")
  /\ UNCHANGED <<pilotDir, report, stack, originals, upsets>>

(* create_departments: folder and read-only share, then the binding with its key *)
CreateDepartment ==
  /\ PilotAt("departments")
  /\ \E d \in Departments :
       /\ d \notin sharing.folders /\ \A e \in Departments : e < d => e \in sharing.bound
       /\ sharing' = [sharing EXCEPT !.folders = @ \cup {d}, !.bound = @ \cup {d}]
       /\ PilotGoto(IF d = 1 THEN "batch" ELSE "departments")
  /\ UNCHANGED <<pilotDir, report, stack, originals, upsets>>

(* upload_corpus: a batch starts after a look at host and Docker capacity; the workers take
   its PUTs in order, and finish them in any order. *)
Batch == {i \in Originals : i >= pilot.next /\ i < pilot.next + BatchSize}
StartBatch ==
  /\ PilotAt("batch")
  /\ PilotGoto("put")
  /\ PilotOnly
Waiting == Batch \ (pilot.flying \cup pilot.done)
StartPut ==
  /\ PilotAt("put") /\ Cardinality(pilot.flying) < Workers
  /\ \E i \in Waiting :
       /\ \A j \in Waiting : i <= j
       /\ pilot' = [pilot EXCEPT !.flying = @ \cup {i}]
  /\ PilotOnly
EndPut ==
  \E i \in pilot.flying :
    /\ originals' = [disk |-> originals.disk \cup {i}, cache |-> originals.cache \cup {i}]
    /\ pilot' = [pilot EXCEPT !.flying = @ \ {i}, !.done = @ \cup {i}]
    /\ UNCHANGED <<pilotDir, report, stack, sharing, upsets>>
EndBatch ==
  /\ PilotAt("put") /\ Batch \subseteq pilot.done
  /\ pilot' = [pilot EXCEPT !.next = @ + BatchSize,
                            !.pc = IF pilot.next + BatchSize < NOriginals THEN "batch" ELSE "disk"]
  /\ PilotOnly

(* verify_inventory: regular files, the file cache, then both manifests page by page *)
CheckDisk ==
  /\ PilotAt("disk") /\ originals.disk = Originals
  /\ PilotGoto("cache") /\ PilotOnly
CheckCache ==
  /\ PilotAt("cache") /\ originals.cache = Originals
  /\ PilotGoto("manifest") /\ PilotOnly
ManifestOf(d) == IF d \in sharing.bound THEN {i \in originals.cache : DepartmentOf(i) = d} ELSE {}
ReadManifest ==
  /\ PilotAt("manifest")
  /\ \E d \in Departments :
       /\ \A e \in Departments : e < d => ManifestOf(e) \subseteq pilot.seen
       /\ \E i \in ManifestOf(d) \ pilot.seen :
            /\ \A j \in ManifestOf(d) \ pilot.seen : i <= j
            /\ pilot' = [pilot EXCEPT !.seen = @ \cup {i}]
  /\ PilotOnly
CheckManifests ==
  /\ PilotAt("manifest")
  /\ \A d \in Departments :
       /\ ManifestOf(d) \subseteq pilot.seen
       /\ Cardinality({i \in pilot.seen : DepartmentOf(i) = d}) = NOriginals \div 2
  /\ PilotGoto("permissions") /\ PilotOnly
(* verify_permissions: members read their own department's sample and not the other's *)
Allowed(member, d) == member = d /\ d \in sharing.folders
CheckPermissions ==
  /\ PilotAt("permissions")
  /\ \A member, d \in Departments : Allowed(member, d) <=> member = d
  /\ pilot' = [pilot EXCEPT !.passed = TRUE, !.pc = IF pilot.retain THEN "report" ELSE "cleanup"]
  /\ PilotOnly

(* Any stage raises. The pool is left only when no PUT is in flight any more; inside the
   comparison the app and the folder are put right first. *)
PilotFails ==
  /\ pilot.command = "run" /\ pilotDir = Private
  /\ pilot.pc \notin {"cleanup", "rm", "wipe", "report"} /\ pilot.flying = {}
  /\ sharing' = [sharing EXCEPT !.app = TRUE, !.compare = FALSE]
  /\ PilotGoto("cleanup")
  /\ UNCHANGED <<pilotDir, report, stack, originals, upsets>>

----------------------------------------------------------------------------
(* cleanup: containers, then volumes, then the network, each by its validated name *)
StartCleanup ==
  /\ PilotAt("cleanup") /\ OwnedPilot
  /\ PilotGoto("rm") /\ PilotOnly
RemoveOrder == [container |-> {}, volume |-> {"container"}, network |-> {"container", "volume"}]
RemoveOwned ==
  /\ PilotAt("rm")
  /\ \E kind \in stack.owned :
       /\ RemoveOrder[kind] \cap stack.owned = {}
       /\ stack' = [stack EXCEPT !.owned = @ \ {kind}]
  /\ UNCHANGED <<pilotDir, report, originals, sharing, pilot, upsets>>
WipePrivateAtOnce ==   \* mutant: the resources are not looked for again
  /\ PilotAt("rm")
  /\ pilotDir' = pilotDir \ {"credentials"}
  /\ PilotGoto("wipe")
  /\ UNCHANGED <<report, stack, originals, sharing, upsets>>
WipePrivate ==
  /\ PilotAt("rm") /\ NoPilotResources
  /\ pilotDir' = pilotDir \ {"credentials"}
  /\ PilotGoto("wipe")
  /\ UNCHANGED <<report, stack, originals, sharing, upsets>>
WipeCompose ==
  /\ PilotAt("wipe")
  /\ pilotDir' = pilotDir \ {"compose"}
  /\ PilotGoto("report")
  /\ UNCHANGED <<report, stack, originals, sharing, upsets>>

Ended == pilot' = [pilot EXCEPT !.command = "none", !.pc = "none", !.flying = {}]
(* A run writes its report in any case; the cleanup command only updates one that exists. *)
WriteReport ==
  /\ PilotAt("report")
  /\ report' =
       IF pilot.command = "run"
       THEN [result |-> IF pilot.passed THEN "passed" ELSE "failed",
             cleanup |-> IF pilot.passed /\ pilot.retain THEN "retained" ELSE "removed"]
       ELSE IF report = NoReport THEN report ELSE [report EXCEPT !.cleanup = "removed"]
  /\ Ended
  /\ UNCHANGED <<pilotDir, stack, originals, sharing, upsets>>
(* A foreign resource, a failing removal, or private state that cannot be unlinked. *)
CleanupRefused ==
  /\ pilot.pc \in {"cleanup", "rm", "wipe"}
  /\ PilotAt("cleanup") => ~OwnedPilot
  /\ report' = IF pilot.command = "run" THEN [result |-> "failed", cleanup |-> "refused"] ELSE report
  /\ Ended
  /\ UNCHANGED <<pilotDir, stack, originals, sharing, upsets>>
CleanupCommand ==
  /\ pilot.command = "none" /\ StateIntact
  /\ pilot' = [pilot EXCEPT !.command = "cleanup", !.pc = "cleanup"]
  /\ PilotOnly

(* External: the storage loses an original or its cache row; a foreign resource takes or
   frees one of the project's names; the command is killed. *)
StoreLoses ==
  /\ Upset
  /\ \E i \in Originals :
       \/ originals' = [originals EXCEPT !.disk = @ \ {i}]
       \/ originals' = [originals EXCEPT !.cache = @ \ {i}]
  /\ UNCHANGED <<pilotDir, report, stack, sharing, pilot>>
ForeignResource ==
  /\ \/ stack.foreign /\ UNCHANGED upsets
     \/ ~stack.foreign /\ Upset
  /\ stack' = [stack EXCEPT !.foreign = ~@]
  /\ UNCHANGED <<pilotDir, report, originals, sharing, pilot>>
PilotKilled ==
  /\ pilot.command # "none" /\ Upset
  /\ Ended
  /\ UNCHANGED <<pilotDir, report, stack, originals, sharing>>

PilotStep ==
  \/ PreparePilot \/ WritePrivate \/ StartStack \/ StackReady \/ CompareUploads \/ EndComparison
  \/ CreateDepartment \/ StartBatch \/ StartPut \/ EndPut \/ EndBatch \/ CheckDisk \/ CheckCache
  \/ ReadManifest \/ CheckManifests \/ CheckPermissions \/ PilotFails \/ StartCleanup
  \/ RemoveOwned \/ WipePrivate \/ WipeCompose \/ WriteReport \/ CleanupRefused
  \/ CleanupCommand \/ StoreLoses \/ ForeignResource \/ PilotKilled

----------------------------------------------------------------------------
(* While Docker holds anything of the pilot, the files the cleanup command needs are there,
   whatever was killed (prepare, cleanup, load_state). *)
PilotRemovable == stack.owned # {} => StateIntact /\ "credentials" \in pilotDir

(* A report that says the resources were removed is right, whoever meddled with the
   project's names and however often "cleanup" was repeated (execute, cleanup, main). *)
ReportHolds == report.cleanup = "removed" => stack.owned = {}

(* No PUT is in flight when a command begins to remove the stack. *)
NoPutIntoCleanup == pilot.pc \in {"cleanup", "rm", "wipe"} => pilot.flying = {}
=============================================================================
