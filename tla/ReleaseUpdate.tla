---------------------------- MODULE ReleaseUpdate ----------------------------
(* The production updater (deploy/production/release.py): a timer starts `check`,
   the boot service starts `--recover-only` and then the whole stack, both under
   one file lock, so one process runs at a time. Every external command and every
   durable write is a step; between any two of them the process may be killed
   (TimeoutStartSec, reboot), and any command may fail.

   A release is the number of its tag, in the order of publication; release 0 is
   the deployment that install.sh left, without a success record.             *)
EXTENDS Integers

CONSTANTS
  NTags,         \* release tags are 1..NTags
  NoRelease,
  NewCore,       \* the releases that ship the approved new Nextcloud core image
  MaxWrites,     \* bound on user writes
  MaxDisruptions,  \* bound on killed processes and failing commands
  MaxAttempts    \* transient download failures before a tag is rejected (3)

Tags == 1..NTags
Releases == 0..NTags
MaybeRelease == Releases \cup {NoRelease}

ASSUME ReleaseAssumption ==
  /\ NTags \in Nat \ {0} /\ NoRelease \notin Releases
  /\ NewCore \subseteq Releases
  /\ MaxWrites \in Nat /\ MaxDisruptions \in Nat /\ MaxAttempts \in Nat \ {0}

Services == {"app", "workers", "proxy"}
Settled == {"success", "rejected", "failed-before-change", "failed-restored",
            "interrupted-before-change", "interrupted-restored",
            "manual-recovery-required"}
Statuses == Settled \cup {"unseen", "applying"}
Phases == {"preparing", "changing", "traffic_committed", "manual-recovery"}

VARIABLES
  published, \* GitHub: the published tags
  state,     \* release-state.json: seen, success, download_attempts
  tx,        \* transaction.json
  host,      \* current, images.env, bin/, releases/, the local image store
  live,      \* the database and config, maintenance mode, the running services
  backup,    \* per tag, <tag>-preupdate
  acked,     \* writes acknowledged to users; exposed: while the journal says "changing"
  proc,      \* the updater process and what it holds in memory
  budget     \* disruptions left; is the boot service due after a reboot? torn: history, did
             \* a process die in a recovery that the journal knew nothing of?

durable == <<state, tx, host, backup>>
vars == <<published, durable, live, acked, proc, budget>>

NoTx == [tag |-> 0, phase |-> "none"]
NoBackup == [complete |-> FALSE]
NoProc == [pc |-> "idle", job |-> "none", tag |-> 0, caller |-> "none"]

(* A fresh host, or one that runs the manually installed release 0. *)
Deployment(present) ==
  /\ host = [current |-> IF present THEN 0 ELSE NoRelease,
             env |-> IF present THEN 0 ELSE NoRelease,
             main |-> 0, deps |-> 0, staged |-> IF present THEN {0} ELSE {},
             images |-> IF present THEN {0} ELSE {}]
  /\ live = [schema |-> IF present THEN 0 ELSE NoRelease, writes |-> 0,
             config |-> IF present THEN 0 ELSE NoRelease, maintenance |-> FALSE,
             up |-> IF present THEN Services ELSE {},
             runs |-> IF present THEN 0 ELSE NoRelease]

Init ==
  /\ published = {}
  /\ state = [seen |-> [t \in Tags |-> "unseen"], success |-> 0,
              attempts |-> [t \in Tags |-> 0]]
  /\ tx = NoTx
  /\ \E present \in BOOLEAN : Deployment(present)
  /\ backup = [t \in Tags |-> NoBackup]
  /\ acked = [kept |-> 0, exposed |-> 0]
  /\ proc = NoProc
  /\ budget = [left |-> MaxDisruptions, boot |-> FALSE, torn |-> FALSE]

----------------------------------------------------------------------------
(* Helpers *)

At(pc) == proc.pc = pc
Goto(pc) == proc' = [proc EXCEPT !.pc = pc]
Quit == proc' = NoProc
Mark(t, status) == state' = [state EXCEPT !.seen[t] = status]
Phase(p) == tx' = [tx EXCEPT !.phase = p]
Start(services) == live' = [live EXCEPT !.up = @ \cup services]
Stop(services) == live' = [live EXCEPT !.up = @ \ services]

(* approved_core_transition: exactly the reviewed change, never back *)
ApprovedTransition(old, new) == old \notin NewCore /\ new \in NewCore
CoreAccepted(old, new) ==
  (old \in NewCore <=> new \in NewCore) \/ ApprovedTransition(old, new)

(* select_release: the newest published tag, never one seen or not newer *)
Candidates ==
  {t \in published : state.seen[t] = "unseen" /\ t > state.success}

Recoverable == tx.previous # NoRelease /\ backup[tx.tag].complete

(* recover has emptied the database or the config, and the journal says "preparing": the
   write of "changing" failed, and the exception led to recover all the same. *)
Unannounced ==
  /\ tx.phase = "preparing" /\ tx.previous # NoRelease
  /\ live.schema = NoRelease \/ live.config = NoRelease

----------------------------------------------------------------------------
(* The world around the updater *)

Publish(t) ==
  /\ t \notin published /\ \A s \in 1..(t - 1) : s \in published
  /\ published' = published \cup {t}
  /\ UNCHANGED <<durable, live, acked, proc, budget>>

UserWrite ==
  /\ acked.kept + acked.exposed < MaxWrites
  /\ {"app", "proxy"} \subseteq live.up /\ ~live.maintenance
  /\ live.schema # NoRelease
  /\ acked' = IF tx.phase = "changing" THEN [acked EXCEPT !.exposed = @ + 1]
              ELSE [acked EXCEPT !.kept = @ + 1]
  /\ live' = [live EXCEPT !.writes = @ + 1]
  /\ UNCHANGED <<published, durable, proc, budget>>

(* The process dies; containers keep running or restart (unless-stopped). After a
   reboot the boot service runs too. *)
Crash(reboot) ==
  /\ proc.pc # "idle" \/ reboot
  /\ budget.left > 0
  /\ proc' = NoProc
  /\ budget' = [budget EXCEPT !.left = @ - 1, !.boot = @ \/ reboot, !.torn = @ \/ Unannounced]
  /\ UNCHANGED <<published, durable, live, acked>>

----------------------------------------------------------------------------
(* main, check, interrupted *)

Begin(job) ==
  proc' = [NoProc EXCEPT !.job = job, !.pc =
             IF tx # NoTx THEN "interrupted" ELSE IF job = "boot" THEN "boot" ELSE "select"]

TimerFires ==
  /\ At("idle")
  /\ tx # NoTx \/ Candidates # {}
  /\ Begin("check")
  /\ UNCHANGED <<published, durable, live, acked, budget>>

BootService ==
  /\ At("idle") /\ budget.boot
  /\ host.current # NoRelease
  /\ Begin("boot")
  /\ budget' = [budget EXCEPT !.boot = FALSE]
  /\ UNCHANGED <<published, durable, live, acked>>

Continue == Goto(IF proc.job = "boot" THEN "boot" ELSE "select")

BootStack ==
  /\ At("boot")
  /\ Start(Services)
  /\ Quit
  /\ UNCHANGED <<published, durable, acked, budget>>

(* A success record is authoritative; past the traffic boundary nothing is rolled
   back; before the change the old release resumes; during it, recover. *)
Interrupted ==
  /\ At("interrupted")
  /\ \/ /\ state.success = tx.tag
        /\ tx' = NoTx
        /\ Continue
        /\ UNCHANGED state
     \/ /\ state.success # tx.tag
        /\ tx.phase \in {"traffic_committed", "manual-recovery"}
        /\ Mark(tx.tag, "manual-recovery-required")
        /\ Quit
        /\ UNCHANGED tx
     \/ /\ state.success # tx.tag
        /\ tx.phase = "preparing"
        /\ proc' = [proc EXCEPT !.caller = "interrupted", !.pc =
                      IF tx.previous # NoRelease THEN "resume" ELSE "unprepared"]
        /\ UNCHANGED <<state, tx>>
     \/ /\ state.success # tx.tag
        /\ tx.phase = "changing"
        /\ proc' = [proc EXCEPT !.caller = "interrupted", !.pc =
                      IF Recoverable THEN "recover" ELSE "give_up"]
        /\ UNCHANGED <<state, tx>>
  /\ UNCHANGED <<published, host, live, backup, acked, budget>>

(* The transaction is over: its status is marked, then its file unlinked. *)
Conclude ==
  /\ proc.pc \in {"unprepared", "restored"}
  /\ Mark(tx.tag, CASE proc.caller = "apply" /\ At("unprepared") -> "failed-before-change"
                    [] proc.caller = "apply" /\ At("restored") -> "failed-restored"
                    [] At("unprepared") -> "interrupted-before-change"
                    [] At("restored") -> "interrupted-restored")
  /\ Goto("unlink")
  /\ UNCHANGED <<published, tx, host, backup, live, acked, budget>>

Unlink ==
  /\ At("unlink")
  /\ tx' = NoTx
  /\ IF proc.caller = "interrupted" THEN Continue ELSE Quit
  /\ UNCHANGED <<published, state, host, backup, live, acked, budget>>

(* Recovery impossible, failed or refused: marked, then the journal says manual-recovery.
   Where the write of the success record failed, the record is still in memory, and the
   mark writes it (mark). *)
GiveUp ==
  /\ \/ At("give_up") /\ Mark(tx.tag, "manual-recovery-required")
     \/ /\ At("unsaved")
        /\ state' = [state EXCEPT !.success = tx.tag,
                                  !.seen[tx.tag] = "manual-recovery-required"]
  /\ Goto("gave_up")
  /\ UNCHANGED <<published, tx, host, backup, live, acked, budget>>

RecordManual ==
  /\ At("gave_up")
  /\ Phase("manual-recovery")
  /\ Quit
  /\ UNCHANGED <<published, state, host, backup, live, acked, budget>>

----------------------------------------------------------------------------
ResumeUnopened ==   \* mutant: workers and proxy stay down
  /\ \/ /\ At("resume")
        /\ host' = [host EXCEPT !.current = tx.previous]
        /\ Goto("resume_app")
        /\ UNCHANGED live
     \/ /\ At("resume_app")
        /\ Start({"app"})
        /\ Goto("resume_maintenance")
        /\ UNCHANGED host
     \/ /\ At("resume_maintenance")
        /\ live' = [live EXCEPT !.maintenance = FALSE]
        /\ Goto("unprepared")
        /\ UNCHANGED host
  /\ UNCHANGED <<published, state, tx, backup, acked, budget>>

(* resume_previous *)
ResumePrevious ==
  /\ \/ /\ At("resume")
        /\ host' = [host EXCEPT !.current = tx.previous]
        /\ Goto("resume_app")
        /\ UNCHANGED live
     \/ /\ At("resume_app")
        /\ Start({"app"})
        /\ Goto("resume_maintenance")
        /\ UNCHANGED host
     \/ /\ At("resume_maintenance")
        /\ live' = [live EXCEPT !.maintenance = FALSE]
        /\ Goto("resume_open")
        /\ UNCHANGED host
     \/ /\ At("resume_open")
        /\ Start({"workers", "proxy"})
        /\ Goto("unprepared")
        /\ UNCHANGED host
  /\ UNCHANGED <<published, state, tx, backup, acked, budget>>

(* recover: the database and the config are restored as one checkpoint while
   nothing writes, then the old release is started, opened and checked. *)
RecoverStop ==
  /\ At("recover")
  /\ Stop(Services)
  /\ Goto("recover_release")
  /\ UNCHANGED <<published, durable, acked, budget>>

RecoverRelease ==
  /\ \/ /\ At("recover_release")
        /\ host' = [host EXCEPT !.current = tx.previous]
        /\ Goto("recover_env")
     \/ /\ At("recover_env")
        /\ host' = [host EXCEPT !.env = backup[tx.tag].env]
        /\ Goto("recover_drop")
  /\ UNCHANGED <<published, state, tx, backup, live, acked, budget>>

RecoverDatabase ==
  /\ \/ /\ At("recover_drop")
        /\ live' = [live EXCEPT !.schema = NoRelease, !.writes = 0]
        /\ Goto("recover_load")
     \/ /\ At("recover_load")
        /\ live' = [live EXCEPT !.schema = backup[tx.tag].schema,
                                !.writes = backup[tx.tag].writes]
        /\ Goto("recover_wipe")
  /\ UNCHANGED <<published, durable, acked, budget>>

RecoverConfig ==
  /\ \/ /\ At("recover_wipe")
        /\ live' = [live EXCEPT !.config = NoRelease]
        /\ Goto("recover_unpack")
     \/ /\ At("recover_unpack")
        /\ live' = [live EXCEPT !.config = backup[tx.tag].config, !.maintenance = TRUE]
        /\ Goto("recover_app")
  /\ UNCHANGED <<published, durable, acked, budget>>

RecoverApp ==
  /\ \/ /\ At("recover_app")
        /\ live' = [live EXCEPT !.up = {"app"}, !.runs = host.current]
        /\ Goto("recover_maintenance")
     \/ /\ At("recover_maintenance")
        /\ live' = [live EXCEPT !.maintenance = FALSE]
        /\ Goto("recover_open")
  /\ UNCHANGED <<published, durable, acked, budget>>

RecoverOpen ==
  /\ \/ /\ At("recover_open")
        /\ Start({"workers", "proxy"})
        /\ Goto("recover_health")
     \/ /\ At("recover_health")
        /\ Goto("restored")
        /\ UNCHANGED live
  /\ UNCHANGED <<published, durable, acked, budget>>

----------------------------------------------------------------------------
(* apply: everything before the transaction. A refusal is a ReleaseError: the tag
   is rejected; a DownloadError is retried on the next timers.               *)

Select ==
  /\ At("select")
  /\ \/ Candidates = {} /\ Quit
     \/ \E t \in Candidates :
          /\ \A s \in Candidates : s <= t
          /\ proc' = [proc EXCEPT !.pc = "pin", !.tag = t]
  /\ UNCHANGED <<published, durable, live, acked, budget>>

(* tag_commit and ancestor: a tag that was moved since it was first observed, a
   commit outside main and an API that fails three times are refused alike. *)
ResolveTag ==
  /\ At("pin")
  /\ Goto("validate") \/ Goto("reject")
  /\ UNCHANGED <<published, durable, live, acked, budget>>

(* validate_manifest and the checksum inventory, against the release
   that succeeded last or the baseline that was installed by hand *)
ValidateRelease ==
  /\ At("validate")
  /\ \/ /\ state.success # 0 => CoreAccepted(state.success, proc.tag)
        /\ state.success = 0 /\ host.current # NoRelease => CoreAccepted(0, proc.tag)
        /\ Goto("assets")
     \/ Goto("reject")
  /\ UNCHANGED <<published, durable, live, acked, budget>>

(* SHA256SUMS, manifest.json or the deployment cannot be read three times. *)
SmallAssetFails ==
  /\ At("validate")
  /\ Goto("retry_later")
  /\ UNCHANGED <<published, durable, live, acked, budget>>

(* local_images_available: a complete set of verified images needs no download *)
FetchAssets ==
  /\ At("assets")
  /\ \/ Goto("stage")
     \/ proc.tag \notin host.images /\ Goto("reject")        \* the wrong SHA-256
     \/ proc.tag \notin host.images /\ Goto("retry_later")   \* DownloadError
  /\ UNCHANGED <<published, durable, live, acked, budget>>

RetryLaterUncounted ==   \* mutant: the attempt is not remembered
  /\ At("retry_later")
  /\ IF state.attempts[proc.tag] + 1 < MaxAttempts THEN Quit ELSE Goto("reject")
  /\ UNCHANGED <<published, durable, live, acked, budget>>

RetryLaterForever ==   \* mutant: no attempt is the last one
  /\ At("retry_later")
  /\ state' = [state EXCEPT !.attempts[proc.tag] = @ + 1]
  /\ Quit
  /\ UNCHANGED <<published, tx, host, backup, live, acked, budget>>

(* check: a transient failure counts an attempt; the third one rejects the tag. *)
RetryLater ==
  /\ At("retry_later")
  /\ state' = [state EXCEPT !.attempts[proc.tag] = @ + 1]
  /\ IF state.attempts[proc.tag] + 1 < MaxAttempts THEN Quit ELSE Goto("reject")
  /\ UNCHANGED <<published, tx, host, backup, live, acked, budget>>

Reject ==
  /\ At("reject")
  /\ Mark(proc.tag, "rejected")
  /\ Quit
  /\ UNCHANGED <<published, tx, host, backup, live, acked, budget>>

(* releases/<tag> must not exist; it is filled and, unless the images are local,
   docker load imports them. A failure removes it again. *)
Stage ==
  /\ \/ /\ At("stage")
        /\ IF proc.tag \in host.staged
           THEN Goto("reject") /\ UNCHANGED host
           ELSE /\ host' = [host EXCEPT !.staged = @ \cup {proc.tag}]
                /\ Goto("import")
     \/ /\ At("import")
        /\ host' = [host EXCEPT !.images = @ \cup {proc.tag}]
        /\ Goto("open_tx")
  /\ UNCHANGED <<published, state, tx, backup, live, acked, budget>>

UnstageFailed ==
  /\ At("import") /\ budget.left > 0
  /\ host' = [host EXCEPT !.staged = @ \ {proc.tag}]
  /\ budget' = [budget EXCEPT !.left = @ - 1]
  /\ Goto("reject")
  /\ UNCHANGED <<published, state, tx, backup, live, acked>>

----------------------------------------------------------------------------
(* apply: the transaction *)

OpenTransaction ==
  /\ \/ /\ At("open_tx")
        /\ tx' = [tag |-> proc.tag, previous |-> host.current,
                  phase |-> "preparing"]
        /\ Goto("applying")
        /\ UNCHANGED state
     \/ /\ At("applying")
        /\ Mark(proc.tag, "applying")
        /\ Goto(IF tx.previous = NoRelease THEN "change" ELSE "core")
        /\ UNCHANGED tx
  /\ UNCHANGED <<published, host, backup, live, acked, budget>>

(* The running core must be the new one or the approved old one. *)
CheckRunningCore ==
  /\ At("core")
  /\ Goto(IF "app" \in live.up /\ ~CoreAccepted(live.runs, proc.tag)
          THEN "failed" ELSE "maintenance")
  /\ UNCHANGED <<published, durable, live, acked, budget>>

QuiesceUnfenced ==   \* mutant: the backup runs next to the users
  /\ At("maintenance")
  /\ Goto("backup")
  /\ UNCHANGED <<published, durable, live, acked, budget>>

(* Maintenance on, ingress fenced, then the application and its jobs drained *)
Quiesce ==
  /\ \/ /\ At("maintenance")
        /\ live' = [live EXCEPT !.maintenance = TRUE]
        /\ Goto("fence")
     \/ At("fence") /\ Stop({"proxy"}) /\ Goto("drain")
     \/ At("drain") /\ Stop({"app", "workers"}) /\ Goto("backup")
  /\ UNCHANGED <<published, durable, acked, budget>>

(* backup.sh --quiesced: COMPLETE is written after the dumps and checksums. *)
Backup ==
  /\ At("backup")
  /\ backup' = [backup EXCEPT ![proc.tag] =
       [complete |-> TRUE, schema |-> live.schema, writes |-> live.writes,
        config |-> live.config, env |-> host.env]]
  /\ Goto("change")
  /\ UNCHANGED <<published, state, tx, host, live, acked, budget>>

Change ==
  /\ At("change")
  /\ Phase("changing")
  /\ Goto("switch")
  /\ UNCHANGED <<published, state, host, backup, live, acked, budget>>

SwitchRelease ==
  /\ \/ /\ At("switch")
        /\ host' = [host EXCEPT !.current = proc.tag]
        /\ Goto("switch_env")
     \/ /\ At("switch_env")
        /\ host' = [host EXCEPT !.env = proc.tag]
        /\ Goto(IF tx.previous = NoRelease THEN "bootstrap" ELSE "recreate")
  /\ UNCHANGED <<published, state, tx, backup, live, acked, budget>>

RecreateRestarted ==   \* mutant: a restart keeps the previous bind mounts
  /\ At("recreate")
  /\ live' = [live EXCEPT !.up = {"app"}]
  /\ Goto("bootstrap")
  /\ UNCHANGED <<published, durable, acked, budget>>

(* Bind mounts keep the previous release until the containers are recreated. *)
Recreate ==
  /\ At("recreate")
  /\ live' = [live EXCEPT !.up = {"app"}, !.runs = host.current]
  /\ Goto("bootstrap")
  /\ UNCHANGED <<published, durable, acked, budget>>

(* bootstrap.sh without proxy and workers: the upgrade, then maintenance off *)
Bootstrap ==
  /\ \/ /\ At("bootstrap")
        /\ live' = [live EXCEPT !.up = {"app"}, !.schema = proc.tag,
                      !.runs = IF @ = NoRelease THEN host.current ELSE @]
        /\ Goto("bootstrap_config")
     \/ /\ At("bootstrap_config")
        /\ live' = [live EXCEPT !.config = proc.tag, !.maintenance = FALSE]
        /\ Goto("internal_health")
  /\ UNCHANGED <<published, durable, acked, budget>>

(* From here on real user writes may arrive. *)
CommitTraffic ==
  /\ At("internal_health")
  /\ Phase("traffic_committed")
  /\ Goto("open_traffic")
  /\ UNCHANGED <<published, state, host, backup, live, acked, budget>>

OpenTraffic ==
  /\ At("open_traffic")
  /\ Start({"workers", "proxy"})
  /\ Goto("install_deps")
  /\ UNCHANGED <<published, durable, acked, budget>>

InstallMainFirst ==   \* mutant: release.py before what it imports
  /\ \/ /\ At("install_deps")
        /\ host' = [host EXCEPT !.main = proc.tag]
        /\ Goto("install_main")
     \/ /\ At("install_main")
        /\ host' = [host EXCEPT !.deps = proc.tag]
        /\ Goto("succeed")
  /\ UNCHANGED <<published, state, tx, backup, live, acked, budget>>

(* After the public health check, bin/: the dependencies first, release.py last *)
InstallUpdater ==
  /\ \/ /\ At("install_deps")
        /\ host' = [host EXCEPT !.deps = proc.tag]
        /\ Goto("install_main")
     \/ /\ At("install_main")
        /\ host' = [host EXCEPT !.main = proc.tag]
        /\ Goto("succeed")
  /\ UNCHANGED <<published, state, tx, backup, live, acked, budget>>

(* One write of release-state.json holds both the success record and the mark. *)
Succeed ==
  /\ At("succeed")
  /\ state' = [state EXCEPT !.success = proc.tag, !.seen[proc.tag] = "success"]
  /\ Goto("unlink_success")
  /\ UNCHANGED <<published, tx, host, backup, live, acked, budget>>

UnlinkSuccess ==
  /\ At("unlink_success")
  /\ tx' = NoTx
  /\ Quit
  /\ UNCHANGED <<published, state, host, backup, live, acked, budget>>

----------------------------------------------------------------------------
(* Failures *)

ApplySteps == {"applying", "core", "maintenance", "fence", "drain", "backup", "change",
               "switch", "switch_env", "recreate", "bootstrap", "bootstrap_config",
               "internal_health", "open_traffic", "install_deps", "install_main",
               "succeed", "unlink_success"}
RecoverSteps == {"recover", "recover_release", "recover_env", "recover_drop",
                 "recover_load", "recover_wipe", "recover_unpack", "recover_app",
                 "recover_maintenance", "recover_open", "recover_health", "restored"}
ResumeSteps == {"resume", "resume_app", "resume_maintenance", "resume_open"}

(* A command or a write fails: apply's handler takes over; recover's caller gives up; an
   exception in resume_previous ends the process with the transaction open. The handler
   knows the phase that could not be written: traffic_committed is never rolled back. *)
CommandFails ==
  /\ budget.left > 0
  /\ budget' = [budget EXCEPT !.left = @ - 1]
  /\ \/ At("open_tx") /\ Goto("reject")
     \/ At("applying") /\ Quit
     \/ proc.pc \in ApplySteps \ {"applying", "succeed"} /\ Goto("failed")
     \/ At("internal_health") /\ Goto("give_up")
     \/ At("succeed") /\ Goto("unsaved")
     \/ proc.pc \in RecoverSteps /\ Goto("give_up")
     \/ At("unlink") /\ state.seen[tx.tag] = "failed-restored" /\ Goto("give_up")
     \/ proc.pc \in ResumeSteps /\ Quit
  /\ UNCHANGED <<published, durable, live, acked>>

HandleFailureAnyPhase ==   \* mutant: the traffic boundary is not looked at
  /\ At("failed")
  /\ proc' = [proc EXCEPT !.caller = "apply", !.pc =
       IF Recoverable THEN "recover"
       ELSE IF tx.phase = "preparing" /\ tx.previous # NoRelease THEN "resume"
       ELSE "give_up"]
  /\ UNCHANGED <<published, durable, live, acked, budget>>

(* apply's except: never a rollback once traffic was committed *)
HandleFailure ==
  /\ At("failed")
  /\ proc' = [proc EXCEPT !.caller = "apply", !.pc =
       IF tx.phase = "traffic_committed" THEN "give_up"
       ELSE IF Recoverable THEN "recover"
       ELSE IF tx.phase = "preparing" /\ tx.previous # NoRelease THEN "resume"
       ELSE "give_up"]
  /\ UNCHANGED <<published, durable, live, acked, budget>>

----------------------------------------------------------------------------
UpdaterStep ==
  \/ BootStack \/ Interrupted \/ Conclude \/ Unlink \/ GiveUp \/ RecordManual
  \/ ResumePrevious
  \/ RecoverStop \/ RecoverRelease \/ RecoverDatabase \/ RecoverConfig \/ RecoverApp
  \/ RecoverOpen
  \/ Select \/ ResolveTag \/ ValidateRelease \/ SmallAssetFails \/ FetchAssets \/ RetryLater \/ Reject
  \/ Stage
  \/ OpenTransaction \/ CheckRunningCore \/ Quiesce \/ Backup \/ Change
  \/ SwitchRelease \/ Recreate \/ Bootstrap \/ CommitTraffic \/ OpenTraffic
  \/ InstallUpdater \/ Succeed \/ UnlinkSuccess
  \/ HandleFailure

Next ==
  \/ \E t \in Tags : Publish(t)
  \/ UserWrite
  \/ \E reboot \in BOOLEAN : Crash(reboot)
  \/ TimerFires \/ BootService
  \/ UpdaterStep \/ UnstageFailed \/ CommandFails

Spec == Init /\ [][Next]_vars

(* The timer comes back every two minutes; every command ends, by itself or by its
   timeout. Nothing is assumed of the users, of GitHub, of crashes or of faults. *)
FairSpec == Spec /\ WF_vars(TimerFires) /\ WF_vars(UpdaterStep)

----------------------------------------------------------------------------
(* Properties *)

TypeOK ==
  /\ published \subseteq Tags
  /\ state \in [seen : [Tags -> Statuses], success : Releases,
                attempts : [Tags -> 0..(MaxAttempts + MaxDisruptions)]]
  /\ tx = NoTx \/ tx \in [tag : Tags, previous : MaybeRelease, phase : Phases]
  /\ host \in [current : MaybeRelease, env : MaybeRelease, main : Releases,
               deps : Releases, staged : SUBSET Releases, images : SUBSET Releases]
  /\ live \in [schema : MaybeRelease, writes : 0..MaxWrites, config : MaybeRelease,
               maintenance : BOOLEAN, up : SUBSET Services, runs : MaybeRelease]
  /\ backup \in [Tags -> {NoBackup} \cup
       [complete : {TRUE}, schema : MaybeRelease, writes : 0..MaxWrites,
        config : MaybeRelease, env : MaybeRelease]]
  /\ acked \in [kept : 0..MaxWrites, exposed : 0..MaxWrites]
  /\ budget \in [left : 0..MaxDisruptions, boot : BOOLEAN, torn : BOOLEAN]

OneVersion(r) ==
  /\ host.current = r /\ host.env = r
  /\ live.schema = r /\ live.config = r /\ live.runs = r

(* The next three hold until a process dies in the one recovery that the journal knew nothing
   of (torn): the next start takes its host for an untouched one. The run of
   FailedUpdateRestores shows what follows. *)

(* Whenever users can reach the application (ingress up, maintenance off), code,
   images, database and config are of one release: a reboot, a kill or a failing
   command never opens the ingress on a half-changed host (apply, recover,
   resume_previous, update.sh --start-production). *)
TrafficSeesOneVersion ==
  {"app", "proxy"} \subseteq live.up /\ ~live.maintenance /\ ~budget.torn =>
    OneVersion(host.current)

(* With no transaction open, the host serves the last successful release, or the
   installed one when none succeeded yet: unlinking transaction.json is always the
   last thing a successful update, a rollback or a resumption does. *)
ClosedMeansServing ==
  tx = NoTx /\ host.current # NoRelease /\ ~budget.torn =>
    /\ OneVersion(state.success)
    /\ live.up = Services /\ ~live.maintenance

(* A write acknowledged outside a recovery is never rolled back: the checkpoint is
   taken after the ingress was fenced, and past the traffic boundary nothing is
   restored (recover, apply's except, interrupted). While the database is being
   replaced, the checkpoint holds the write. *)
WritesKept ==
  IF live.schema # NoRelease THEN live.writes >= acked.kept
  ELSE acked.kept > 0 => tx # NoTx /\ backup[tx.tag].complete
                         /\ backup[tx.tag].writes >= acked.kept
AcknowledgedWritesKept == ~budget.torn => WritesKept

(* What deploy/production/README.md:70 says of every update that failed before its internal
   check succeeded: the old code, the database and the config of before it are restored
   (recover, resume_previous, interrupted). *)
FailedUpdateRestores ==
  tx = NoTx /\ host.current # NoRelease
    /\ (\E t \in Tags : state.seen[t] \in {"failed-restored", "interrupted-before-change",
                                         "failed-before-change", "interrupted-restored"}) =>
  OneVersion(state.success)

(* What apply's comment promises of every accepted write, at any time: no rollback
   to a checkpoint that predates it. *)
NoAcceptedWriteLost ==
  live.schema # NoRelease => live.writes >= acked.kept + acked.exposed

(* bin/ never holds a release.py newer than the modules it imports, whatever step
   of the installation was the last (updater_files in apply). *)
UpdaterRunnable == host.main <= host.deps

(* The database goes back only to the checkpoint of the open transaction, and never
   once that transaction let traffic in. *)
RollbackOnlyBeforeTraffic ==
  [][live'.schema # live.schema \/ live'.writes < live.writes =>
       /\ tx # NoTx /\ tx.phase \in {"preparing", "changing"}
       /\ \/ live'.schema = tx.tag
          \/ Recoverable /\ live'.schema \in {NoRelease, backup[tx.tag].schema}]_vars

(* The updater never keeps a release waiting or a transaction open: in the end every
   candidate is installed, rejected, rolled back or overtaken and the journal is
   closed, or the release waits for an operator. *)
Manual == \E t \in Tags : state.seen[t] = "manual-recovery-required"
Decided == Candidates = {} /\ tx = NoTx
ReleaseDecided == ~Decided ~> (Decided \/ Manual)
=============================================================================
