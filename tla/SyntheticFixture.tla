-------------------------- MODULE SyntheticFixture --------------------------
(* One disposable fixture: synthetic-ldap-fixture.py. "prepare" writes the scratch
   directory, "up" starts the Compose project, initializes the body journal and adapts
   the LDAP server, "destroy" removes everything. Each command may be killed at any step
   and repeated. *)
EXTENDS Integers, FiniteSets

VARIABLES
  scratch,     \* the scratch directory: its frozen configuration and ownership state
  project,     \* the Compose project at the daemon
  body,        \* the body journal's volumes
  directory,   \* the LDAP server's configuration
  job          \* the running command

fixtureVars == <<scratch, project, body, directory, job>>

Users == {"alice", "bob", "charlie"}
MatchModes == {"direct", "primary", "nested"}

(* compose_data: the services, and what each waits for *)
ComposeServices ==
  {"cert-init", "openldap", "nc-db", "nc-redis", "nextcloud", "wk-db", "wk-redis", "wk-app"}
DependsOn ==
  [s \in ComposeServices |->
     CASE s = "openldap" -> {"cert-init"}
       [] s = "nextcloud" -> {"nc-db", "nc-redis", "openldap"}
       [] s = "wk-app" -> {"wk-db", "wk-redis", "openldap"}
       [] OTHER -> {}]

(* make_ldif: how each mode makes alice, and only her, a member of the granted group *)
PrimaryGroup(mode, user) == IF mode = "primary" /\ user = "alice" THEN "grant" ELSE "domain"
DirectMembers(mode) ==
  IF mode = "direct" THEN {"alice"} ELSE IF mode = "primary" THEN {"charlie"} ELSE {}
NestedMembers(mode) == IF mode = "nested" THEN {"alice"} ELSE {}

NoScratch == [present |-> FALSE, mode |-> "direct", journal |-> FALSE, initialized |-> FALSE]
NoProject == [running |-> {}, volumes |-> FALSE, stray |-> FALSE]
NoBody == [key |-> 0, journal |-> 0, verified |-> FALSE]
PlainDirectory == [module |-> FALSE, overlay |-> FALSE]
NoJob == [name |-> "none", pc |-> "none", keys |-> 0, up |-> FALSE]

FixtureInit ==
  /\ scratch = NoScratch /\ project = NoProject /\ body = NoBody
  /\ directory = PlainDirectory /\ job = NoJob

----------------------------------------------------------------------------
Resources == project.running # {} \/ project.volumes
Unoccupied == ~Resources /\ ~project.stray            \* assert_project_unoccupied
OwnedResources == ~project.stray                       \* assert_owned_resources
OwnedState == scratch.present                          \* owned_state, assert_state_matches_compose
JobAt(name, pc) == job.name = name /\ job.pc = pc
JobGoto(pc) == job' = [job EXCEPT !.pc = pc]
JobStart(name) == job' = [job EXCEPT !.name = name, !.pc = "start", !.up = FALSE]
JobEnds == job' = [job EXCEPT !.name = "none", !.pc = "none"]

Prepare ==
  /\ job.name = "none" /\ ~scratch.present /\ Unoccupied
  /\ \E mode \in MatchModes, journal \in BOOLEAN :
       scratch' = [present |-> TRUE, mode |-> mode, journal |-> journal, initialized |-> FALSE]
  /\ directory' = PlainDirectory
  /\ UNCHANGED <<project, body, job>>

(* up: ownership first, then the journal when the fixture has one *)
UpBegins ==
  /\ job.name = "none" /\ OwnedState /\ OwnedResources
  /\ job' = [job EXCEPT !.name = "up", !.up = FALSE,
                        !.pc = IF scratch.journal THEN "journal" ELSE "compose"]
  /\ UNCHANGED <<scratch, project, body, directory>>

JournalDatabaseOnly ==   \* mutant: the journal is neither provisioned nor verified
  /\ JobAt("up", "journal")
  /\ project' = [project EXCEPT !.running = @ \cup {"wk-db"}, !.volumes = TRUE]
  /\ JobGoto("compose")
  /\ UNCHANGED <<scratch, body, directory>>
(* initialize_body_journal: only the database runs *)
JournalDatabase ==
  /\ JobAt("up", "journal")
  /\ project' = [project EXCEPT !.running = @ \cup {"wk-db"}, !.volumes = TRUE]
  /\ JobGoto(IF scratch.initialized THEN "verify" ELSE "provision")
  /\ UNCHANGED <<scratch, body, directory>>
(* The volumes must be empty: an existing key or journal is never replaced. *)
ProvisionKey ==
  /\ JobAt("up", "provision")
  /\ body.key = 0 /\ body.journal = 0
  /\ body' = [body EXCEPT !.key = job.keys + 1]
  /\ job' = [job EXCEPT !.keys = 1, !.pc = "init"]
  /\ UNCHANGED <<scratch, project, directory>>
InitJournal ==
  /\ JobAt("up", "init")
  /\ body' = [body EXCEPT !.journal = body.key]
  /\ JobGoto("verify")
  /\ UNCHANGED <<scratch, project, directory>>
VerifyJournal ==
  /\ JobAt("up", "verify")
  /\ body.key # 0 /\ body.journal = body.key
  /\ body' = [body EXCEPT !.verified = TRUE]
  /\ scratch' = [scratch EXCEPT !.initialized = TRUE]
  /\ JobGoto("compose")
  /\ UNCHANGED <<project, directory>>

(* External: Compose starts what is ready, in any order. *)
ComposeUp ==
  /\ JobAt("up", "compose")
  /\ \E s \in ComposeServices \ project.running :
       /\ DependsOn[s] \subseteq project.running
       /\ project' = [project EXCEPT !.running = @ \cup {s}, !.volumes = TRUE]
  /\ UNCHANGED <<scratch, body, directory, job>>
ComposeHealthy ==
  /\ JobAt("up", "compose")
  /\ project.running = ComposeServices /\ OwnedResources
  /\ IF scratch.mode = "primary" THEN JobGoto("module")
     ELSE job' = [job EXCEPT !.name = "none", !.pc = "none", !.up = TRUE]
  /\ UNCHANGED <<scratch, project, body, directory>>

(* configure_primary_sid_match: the rewrite module and its one exact rule, each only when
   it is missing; then the textual SID must find exactly the granted group. *)
LoadRewrite ==
  /\ JobAt("up", "module")
  /\ directory' = [directory EXCEPT !.module = TRUE]
  /\ JobGoto("overlay")
  /\ UNCHANGED <<scratch, project, body>>
AddRewrite ==
  /\ JobAt("up", "overlay")
  /\ directory' = [directory EXCEPT !.overlay = directory.module]
  /\ JobGoto("exact")
  /\ UNCHANGED <<scratch, project, body>>
TextSidMatches == directory.module /\ directory.overlay
RewriteExact ==
  /\ JobAt("up", "exact")
  /\ TextSidMatches
  /\ job' = [job EXCEPT !.name = "none", !.pc = "none", !.up = TRUE]
  /\ UNCHANGED <<scratch, project, body, directory>>

(* destroy: the directory with the proof of ownership goes last. *)
DestroyBegins ==
  /\ job.name = "none" /\ OwnedState /\ OwnedResources
  /\ JobStart("destroy")
  /\ UNCHANGED <<scratch, project, body, directory>>
ComposeDown ==
  /\ JobAt("destroy", "start")
  /\ \/ /\ \E s \in project.running : project' = [project EXCEPT !.running = @ \ {s}]
        /\ UNCHANGED <<body, directory, job>>
     \/ /\ project.running = {}
        /\ project' = [project EXCEPT !.volumes = FALSE]
        /\ body' = NoBody /\ directory' = PlainDirectory
        /\ job' = [job EXCEPT !.pc = "empty", !.keys = 0]
  /\ UNCHANGED scratch
RemoveScratch ==
  /\ JobAt("destroy", "empty")
  /\ Unoccupied
  /\ scratch' = NoScratch
  /\ JobEnds
  /\ UNCHANGED <<project, body, directory>>

(* A command is killed or fails; somebody occupies one of the project's names. *)
JobFails == job.name # "none" /\ JobEnds /\ UNCHANGED <<scratch, project, body, directory>>
StrayResource ==
  /\ project' = [project EXCEPT !.stray = ~@]
  /\ UNCHANGED <<scratch, body, directory, job>>

FixtureStep ==
  \/ Prepare \/ UpBegins \/ JournalDatabase \/ ProvisionKey \/ InitJournal \/ VerifyJournal
  \/ ComposeUp \/ ComposeHealthy \/ LoadRewrite \/ AddRewrite \/ RewriteExact
  \/ DestroyBegins \/ ComposeDown \/ RemoveScratch \/ JobFails \/ StrayResource

----------------------------------------------------------------------------
(* LDAP answers that user belongs to the granted group: nested groups by recursion,
   primary groups by the textual SID that Nextcloud asks for. *)
Granted(user) ==
  \/ user \in DirectMembers(scratch.mode) \cup NestedMembers(scratch.mode)
  \/ PrimaryGroup(scratch.mode, user) = "grant" /\ TextSidMatches

(* No reader or builder runs over a body journal that was not initialized and verified
   under the key that is there, however often "up" was interrupted and repeated
   (initialize_body_journal: "existing anchors are not replaced"). *)
JournalBeforeApp ==
  scratch.journal /\ "wk-app" \in project.running =>
    body.verified /\ body.journal = body.key /\ body.key # 0

(* Whatever the fixture has at the daemon, the directory that proves its ownership is
   still there to remove it (destroy, prepare). *)
ScratchOutlivesResources == Resources => scratch.present

(* After an "up" that reports success alice, and no active other user, is in the granted
   group; an interrupted "up" before it changes nothing about that. *)
UpMeansGranted == job.up /\ scratch.present => Granted("alice") /\ ~Granted("bob")
=============================================================================
