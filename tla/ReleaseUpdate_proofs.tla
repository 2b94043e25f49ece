------------------------ MODULE ReleaseUpdate_proofs ------------------------
(* Proofs about the production updater, for every number of releases, writes,
   disruptions and download attempts. What is said of the host's services and data holds
   until a process dies in the recovery that the journal knew nothing of; the rest holds
   after that too. *)
EXTENDS ReleaseUpdate, TLAPS

----------------------------------------------------------------------------
(* The inductive invariant: what the journal says of the host, whoever died, and
   what each place in the updater adds to it. *)

Choosing == {"pin", "validate", "assets", "retry_later", "reject", "stage", "import", "open_tx"}
Preparing == {"applying", "core", "maintenance", "fence", "drain", "backup", "change",
              "resume", "resume_app", "resume_maintenance", "resume_open", "unprepared"}
Changing == {"switch", "switch_env", "recreate", "bootstrap", "bootstrap_config",
             "internal_health"} \cup RecoverSteps
Committed == {"open_traffic", "install_deps", "install_main", "succeed", "unlink_success"}
Ending == {"failed", "give_up", "gave_up", "unsaved"}
GivingUp == {"give_up", "gave_up"}
Places == {"idle", "interrupted", "boot", "select", "unlink"}
            \cup Choosing \cup Preparing \cup Changing \cup Committed \cup Ending

Checkpoint ==
  [complete : {TRUE}, schema : MaybeRelease, writes : 0..MaxWrites,
   config : MaybeRelease, env : MaybeRelease]

StateSet == [seen : [Tags -> Statuses], success : Releases, attempts : [Tags -> Nat]]
TxSet == {NoTx} \cup [tag : Tags, previous : MaybeRelease, phase : Phases]
HostSet ==
  [current : MaybeRelease, env : MaybeRelease, main : Releases, deps : Releases,
   staged : SUBSET Releases, images : SUBSET Releases]
LiveSet ==
  [schema : MaybeRelease, writes : 0..MaxWrites, config : MaybeRelease,
   maintenance : BOOLEAN, up : SUBSET Services, runs : MaybeRelease]
BackupSet == [Tags -> {NoBackup} \cup Checkpoint]
AckedSet == [kept : 0..MaxWrites, exposed : 0..MaxWrites]
BudgetSet == [left : 0..MaxDisruptions, boot : BOOLEAN, torn : BOOLEAN]
ProcSet ==
  [pc : Places, job : {"none", "check", "boot"}, tag : Releases,
   caller : {"none", "apply", "interrupted"}]

Typed ==
  /\ published \subseteq Tags
  /\ state \in StateSet /\ tx \in TxSet /\ host \in HostSet /\ live \in LiveSet
  /\ backup \in BackupSet /\ acked \in AckedSet /\ budget \in BudgetSet
  /\ proc \in ProcSet

(* Nothing was ever installed. *)
Fresh ==
  /\ OneVersion(NoRelease)
  /\ live.up = {} /\ live.writes = 0 /\ acked.kept = 0

Serving(r) == OneVersion(r) /\ live.up = Services /\ ~live.maintenance
AsBefore == IF tx.previous = NoRelease THEN Fresh ELSE Serving(tx.previous)

(* Where the updater is, and what the journal says then: "changing" whenever it changes
   or recovers the host, unless that write itself failed. *)
PlaceInv ==
  /\ proc.pc \in {"boot", "select"} \cup Choosing => tx = NoTx
  /\ proc.pc \in Preparing => tx.phase = "preparing"
  /\ proc.pc \in Changing =>
       tx.phase = "changing" \/ (proc.pc \in RecoverSteps /\ tx.phase = "preparing")
  /\ proc.pc \in RecoverSteps => backup[tx.tag].complete
  /\ proc.pc \in Committed => tx.phase = "traffic_committed"
  /\ proc.pc \in Ending => tx.phase \in {"preparing", "changing", "traffic_committed"}
  /\ At("unsaved") => tx.phase = "traffic_committed"
  /\ At("unlink") => tx.phase \in {"preparing", "changing"} /\ state.seen[tx.tag] # "unseen"
  /\ At("interrupted") => tx # NoTx
  /\ proc.pc \in ApplySteps => proc.tag = tx.tag
  /\ proc.pc \in Choosing =>
       proc.tag \in Tags /\ state.seen[proc.tag] = "unseen" /\ proc.tag > state.success
  /\ proc.pc \in ResumeSteps \cup RecoverSteps
       \cup {"core", "maintenance", "fence", "drain", "backup", "recreate"} =>
       tx.previous # NoRelease
  /\ proc.job = "boot" /\ ~At("idle") => host.current # NoRelease
  /\ At("boot") => proc.job = "boot"

(* The tag under way: newer than the last success, its checkpoint its own *)
TagInv ==
  /\ \A t \in Tags : backup[t].complete => state.seen[t] # "unseen" \/ (tx # NoTx /\ t = tx.tag)
  /\ tx # NoTx /\ state.success # tx.tag =>
       tx.tag > state.success /\ (budget.torn \/ tx.previous \in {NoRelease, state.success})
  /\ tx # NoTx /\ state.success = tx.tag =>
       /\ tx.phase \in {"traffic_committed", "manual-recovery"}
       /\ state.seen[tx.tag] # "unseen" /\ (budget.torn \/ Serving(tx.tag))
  /\ At("unlink_success") => state.success = tx.tag
  /\ tx.phase = "preparing" /\ proc.pc \in {"applying", "core", "maintenance", "fence", "drain", "backup", "failed"}
       => ~backup[tx.tag].complete \/ At("failed")

(* Under "preparing" the host is as before, but for what a recovery has emptied that follows
   the failed write of "changing". *)
Prepared(r) ==
  /\ host.current = r /\ host.env = r /\ live.runs = r
  /\ live.schema \in {r, NoRelease} /\ live.config \in {r, NoRelease}
  /\ OneVersion(r) \/ proc.pc \in RecoverSteps \cup GivingUp

(* The checkpoint is the host of before the change. *)
Checkpointed(r) ==
  /\ backup[tx.tag].complete
  /\ backup[tx.tag].schema = r /\ backup[tx.tag].config = r /\ backup[tx.tag].env = r

(* What every phase of the journal promises of the host. A recovery may run under "preparing"
   as well: where the process dies in it, neither this nor the next two parts hold. *)
HostInv == ~budget.torn =>
  /\ tx = NoTx => IF host.current = NoRelease THEN Fresh ELSE Serving(state.success)
  /\ tx.phase = "preparing" =>
       IF tx.previous = NoRelease THEN Fresh ELSE Prepared(tx.previous)
  /\ tx.phase = "preparing" /\ proc.pc \in RecoverSteps => Checkpointed(tx.previous)
  /\ tx.phase = "preparing" /\ proc.pc \in RecoverSteps \ {"recover_health", "restored"} =>
       backup[tx.tag].writes >= acked.kept /\ "proxy" \notin live.up
  /\ tx.phase = "preparing" /\ proc.pc \in RecoverSteps \cup GivingUp /\ "proxy" \in live.up =>
       OneVersion(tx.previous)
  /\ tx.phase = "changing" =>
       IF tx.previous = NoRelease
       THEN "proxy" \notin live.up /\ acked.kept = 0
       ELSE /\ Checkpointed(tx.previous) /\ backup[tx.tag].writes >= acked.kept
            /\ "proxy" \in live.up => OneVersion(tx.previous)
  /\ tx.phase = "traffic_committed" => OneVersion(tx.tag) /\ ~live.maintenance
  /\ tx.phase = "manual-recovery" /\ "proxy" \in live.up => OneVersion(host.current)

(* What each step of apply and recover has reached *)
Unwritten == At("failed") /\ tx.phase = "preparing" /\ backup[tx.tag].complete
ApplyInv == ~budget.torn =>
  /\ proc.pc \in {"drain", "backup", "change", "switch", "switch_env", "recreate",
                  "bootstrap", "bootstrap_config", "internal_health"} => "proxy" \notin live.up
  /\ (At("change") \/ Unwritten) /\ tx.previous # NoRelease =>
       /\ Checkpointed(tx.previous) /\ backup[tx.tag].writes = live.writes
       /\ "proxy" \notin live.up
  /\ proc.pc \in {"switch_env", "recreate", "bootstrap", "bootstrap_config", "internal_health"} =>
       host.current = tx.tag
  /\ proc.pc \in {"recreate", "bootstrap", "bootstrap_config", "internal_health"} =>
       host.env = tx.tag
  /\ proc.pc \in {"switch", "switch_env", "bootstrap"} /\ tx.previous = NoRelease =>
       live.runs = NoRelease
  /\ At("bootstrap") /\ tx.previous # NoRelease => live.runs = tx.tag
  /\ proc.pc \in {"switch", "switch_env", "recreate", "bootstrap"} => live.schema = tx.previous
  /\ proc.pc \in {"bootstrap_config", "internal_health"} =>
       live.runs = tx.tag /\ live.schema = tx.tag
  /\ At("internal_health") => live.config = tx.tag /\ ~live.maintenance
  /\ proc.pc \in {"bootstrap_config", "internal_health"} => "app" \in live.up
  /\ tx.phase = "traffic_committed" => "app" \in live.up
  /\ proc.pc \in {"install_deps", "install_main", "succeed", "unsaved"} => live.up = Services

RecoverInv == ~budget.torn =>
  /\ proc.pc \in RecoverSteps \ {"recover", "recover_health", "restored"} => "proxy" \notin live.up
  /\ proc.pc \in RecoverSteps \ {"recover", "recover_release"} => host.current = tx.previous
  /\ proc.pc \in RecoverSteps \ {"recover", "recover_release", "recover_env"} =>
       host.env = tx.previous
  /\ proc.pc \in {"recover_wipe", "recover_unpack", "recover_app", "recover_maintenance",
                  "recover_open"} => live.schema = tx.previous
  /\ proc.pc \in {"recover_app", "recover_maintenance", "recover_open"} =>
       live.config = tx.previous
  /\ proc.pc \in {"recover_maintenance", "recover_open"} =>
       live.runs = tx.previous /\ live.up = {"app"}
  /\ At("recover_open") => ~live.maintenance
  /\ proc.pc \in {"recover_health", "restored"} => Serving(tx.previous)
  /\ proc.pc \in {"resume_maintenance", "resume_open"} => "app" \in live.up
  /\ At("resume_open") => ~live.maintenance
  /\ proc.pc \in {"unprepared", "unlink"} => AsBefore

(* The modules of the updater, its writes and its attempts *)
InstalledInv ==
  /\ host.main <= host.deps
  /\ tx = NoTx \/ tx.phase \in {"preparing", "changing"} => host.deps <= state.success
  /\ tx.phase \in {"traffic_committed", "manual-recovery"} => host.deps <= tx.tag
  /\ At("install_main") => host.deps = tx.tag

WritesInv ==
  /\ AcknowledgedWritesKept
  /\ live.writes <= acked.kept + acked.exposed
  /\ acked.kept + acked.exposed <= MaxWrites
  /\ \A t \in Tags : backup[t].complete => backup[t].writes <= acked.kept + acked.exposed

Used == MaxDisruptions - budget.left
AttemptsInv ==
  \A t \in Tags :
    /\ state.attempts[t] <= MaxAttempts + Used
    /\ state.seen[t] = "unseen" /\ ~(At("reject") /\ proc.tag = t) =>
         state.attempts[t] <= MaxAttempts + Used - 1

IInv ==
  /\ Typed /\ PlaceInv /\ TagInv /\ HostInv /\ ApplyInv /\ RecoverInv
  /\ InstalledInv /\ WritesInv /\ AttemptsInv

----------------------------------------------------------------------------
(* What the updater's writes do to the record they write *)

Moved(places) ==
  /\ proc' \in ProcSet
  /\ proc'.pc \in places
  /\ proc'.tag = proc.tag \/ proc'.pc = "idle"
  /\ proc'.job = proc.job \/ proc'.pc = "idle"
Chosen ==
  /\ proc' \in ProcSet
  /\ proc'.pc = "pin" /\ proc'.job = proc.job
  /\ proc'.tag \in Tags /\ state.seen[proc'.tag] = "unseen" /\ proc'.tag > state.success
Begun ==
  /\ proc' \in ProcSet
  /\ proc'.pc \in {"interrupted", "boot", "select"}
  /\ proc'.pc = "interrupted" <=> tx # NoTx
  /\ proc'.pc = "boot" => proc'.job = "boot"
  /\ proc'.job = "boot" => host.current # NoRelease
Marked(t, status) ==
  /\ t \in Tags
  /\ state' \in StateSet
  /\ state'.success = state.success /\ state'.attempts = state.attempts
  /\ state'.seen[t] = status
  /\ \A s \in Tags \ {t} : state'.seen[s] = state.seen[s]
Counted(t) ==
  /\ t \in Tags
  /\ state' \in StateSet
  /\ state'.success = state.success /\ state'.seen = state.seen
  /\ state'.attempts[t] = state.attempts[t] + 1
  /\ \A s \in Tags \ {t} : state'.attempts[s] = state.attempts[s]
Succeeded(t, status) ==
  /\ t \in Tags
  /\ state' \in StateSet
  /\ state'.success = t /\ state'.attempts = state.attempts
  /\ state'.seen[t] = status
  /\ \A s \in Tags \ {t} : state'.seen[s] = state.seen[s]
Phased(p) ==
  /\ tx' \in TxSet
  /\ tx # NoTx /\ tx' # NoTx
  /\ tx'.phase = p /\ tx'.tag = tx.tag /\ tx'.previous = tx.previous

USE ReleaseAssumption
USE DEF Tags, Releases, MaybeRelease, Services, Settled, Statuses, Phases, NoTx, NoBackup,
        At, Choosing, Preparing, Changing, Committed, Ending, Places, Checkpoint, Fresh,
        Serving, AsBefore, OneVersion, ApplySteps, RecoverSteps, ResumeSteps, GivingUp,
        Prepared, Checkpointed, Unwritten, Recoverable, WritesKept, AcknowledgedWritesKept,
        Used

LEMMA MarkEffect ==
  ASSUME state \in StateSet, NEW t \in Tags, NEW s \in Statuses, Mark(t, s)
  PROVE  Marked(t, s)
BY DEF Mark, Marked, StateSet

LEMMA PhaseEffect ==
  ASSUME tx \in TxSet, tx # NoTx, NEW p \in Phases, Phase(p)
  PROVE  Phased(p)
BY DEF Phase, Phased, TxSet

LEMMA CountEffect ==
  ASSUME state \in StateSet, NEW t \in Tags,
         state' = [state EXCEPT !.attempts[t] = @ + 1]
  PROVE  Counted(t)
<1>1. /\ state'.seen = state.seen /\ state'.success = state.success
      /\ state'.attempts = [state.attempts EXCEPT ![t] = @ + 1]
  BY DEF StateSet
<1>2. state'.attempts \in [Tags -> Nat]
  BY <1>1 DEF StateSet
<1>3. state' = [seen |-> state'.seen, success |-> state'.success, attempts |-> state'.attempts]
  BY DEF StateSet
<1>4. state' \in StateSet
  BY <1>1, <1>2, <1>3 DEF StateSet
<1> QED
  BY <1>1, <1>4 DEF Counted, StateSet

LEMMA SuccessEffect ==
  ASSUME state \in StateSet, NEW t \in Tags, NEW s \in Statuses,
         state' = [state EXCEPT !.success = t, !.seen[t] = s]
  PROVE  Succeeded(t, s)
<1>1. /\ state'.seen = [state.seen EXCEPT ![t] = s] /\ state'.success = t
      /\ state'.attempts = state.attempts
  BY DEF StateSet
<1>2. state'.seen \in [Tags -> Statuses]
  BY <1>1 DEF StateSet
<1>3. state' = [seen |-> state'.seen, success |-> state'.success, attempts |-> state'.attempts]
  BY DEF StateSet
<1>4. state' \in StateSet
  BY <1>1, <1>2, <1>3 DEF StateSet
<1> QED
  BY <1>1, <1>4 DEF Succeeded, StateSet

LEMMA CheckpointType ==
  ASSUME backup \in BackupSet, NEW t \in Tags, backup[t].complete
  PROVE  backup[t] \in Checkpoint
<1>1. backup[t] \in {NoBackup} \cup Checkpoint
  BY DEF BackupSet
<1>2. backup[t] # NoBackup
  OBVIOUS
<1> HIDE DEF Checkpoint, NoBackup
<1> QED
  BY <1>1, <1>2

LEMMA WorldInductive ==
  ASSUME IInv,
         (\E t \in Tags : Publish(t)) \/ UserWrite
         \/ (\E reboot \in BOOLEAN : Crash(reboot)) \/ TimerFires \/ BootService
  PROVE  IInv'
<1>1. CASE \E t \in Tags : Publish(t)
  <2> USE <1>1
  <2>1. published' \subseteq Tags
    BY DEF Publish, IInv, Typed, PlaceInv
  <2>2. UNCHANGED <<state, tx, host, backup, live, acked, proc, budget>>
    BY DEF Publish, durable
  <2>3. PlaceInv' /\ TagInv' /\ HostInv' /\ ApplyInv' /\ RecoverInv' /\ InstalledInv' /\ WritesInv' /\ AttemptsInv'
    BY <2>2 DEF IInv, PlaceInv, TagInv, HostInv, ApplyInv, RecoverInv, InstalledInv,
       WritesInv, AttemptsInv
  <2>4. Typed'
    BY <2>1, <2>2 DEF Typed, IInv
  <2> QED
    BY <2>3, <2>4 DEF IInv
<1>2. CASE UserWrite
  <2> USE <1>2
  <2>1. /\ live' \in LiveSet
        /\ live'.schema = live.schema
        /\ live'.writes = live.writes + 1
        /\ live'.config = live.config
        /\ live'.maintenance = live.maintenance
        /\ live'.up = live.up
        /\ live'.runs = live.runs
        /\ acked' \in AckedSet
        /\ acked'.kept + acked'.exposed = acked.kept + acked.exposed + 1
        /\ acked'.kept \in {acked.kept, acked.kept + 1}
        /\ (tx.phase = "changing" => acked'.kept = acked.kept)
    BY DEF UserWrite, IInv, Typed, PlaceInv, LiveSet, Start, Stop, AckedSet, WritesInv, TxSet
  <2>2. /\ acked.kept + acked.exposed < MaxWrites
        /\ {"app", "proxy"} \subseteq live.up /\ ~live.maintenance /\ live.schema # NoRelease
        /\ UNCHANGED <<published, state, tx, host, backup, proc, budget>>
    BY DEF UserWrite, durable
  <2>3. PlaceInv' /\ InstalledInv' /\ AttemptsInv'
    BY <2>2 DEF IInv, PlaceInv, InstalledInv, AttemptsInv
  <2>4. Typed'
    BY <2>1, <2>2 DEF Typed, IInv, WritesInv, LiveSet, AckedSet
  <2>5. TagInv'
    BY <2>1, <2>2 DEF IInv, PlaceInv, TagInv, HostInv, ApplyInv, RecoverInv, Typed,
       StateSet, TxSet
  <2>6. HostInv'
    BY <2>1, <2>2 DEF IInv, PlaceInv, TagInv, HostInv, ApplyInv, RecoverInv, WritesInv,
       Typed, TxSet
  <2>7. ApplyInv'
    BY <2>1, <2>2 DEF IInv, PlaceInv, TagInv, HostInv, ApplyInv, RecoverInv
  <2>8. RecoverInv'
    BY <2>1, <2>2 DEF IInv, PlaceInv, TagInv, HostInv, ApplyInv, RecoverInv
  <2>9. WritesInv'
    <3>1. /\ budget.torn \/ live.writes >= acked.kept
          /\ live.writes <= acked.kept + acked.exposed
          /\ \A t \in Tags : backup[t].complete => backup[t].writes <= acked.kept + acked.exposed
      BY <2>1, <2>2 DEF IInv, WritesInv
    <3>2. /\ live.writes \in Nat /\ acked.kept \in Nat /\ acked.exposed \in Nat
          /\ acked'.kept \in Nat /\ acked'.exposed \in Nat
      BY <2>1, <2>2 DEF IInv, Typed, LiveSet, AckedSet
    <3>3. \A t \in Tags : backup[t].complete => backup[t].writes \in Nat
      <4>1. backup \in BackupSet
        BY DEF IInv, Typed
      <4> SUFFICES ASSUME NEW t \in Tags, backup[t].complete PROVE backup[t].writes \in Nat
        OBVIOUS
      <4>2. backup[t] \in Checkpoint
        BY CheckpointType, <4>1
      <4>3. backup[t].writes \in 0..MaxWrites
        BY <4>2
      <4> QED
        BY <4>3
    <3> QED
      BY <2>1, <2>2, <3>1, <3>2, <3>3 DEF WritesInv
  <2> QED
    BY <2>3, <2>4, <2>5, <2>6, <2>7, <2>8, <2>9 DEF IInv
<1>3. CASE \E reboot \in BOOLEAN : Crash(reboot)
  <2> USE <1>3
  <2>1. Moved({"idle"})
    <3>1. proc' = NoProc
      BY DEF Crash
    <3> QED
      BY <3>1 DEF Moved, ProcSet, NoProc
  <2>2. /\ budget' \in BudgetSet
        /\ budget'.left = budget.left - 1
        /\ budget'.torn = (budget.torn \/ Unannounced)
    <3>1. PICK reboot \in BOOLEAN :
             /\ budget.left > 0
             /\ budget' = [budget EXCEPT !.left = @ - 1, !.boot = @ \/ reboot,
                                        !.torn = @ \/ Unannounced]
      BY DEF Crash
    <3>2. budget \in BudgetSet
      BY DEF IInv, Typed
    <3>3. budget.left - 1 \in 0..MaxDisruptions
      BY <3>1, <3>2 DEF BudgetSet
    <3>4. (budget.boot \/ reboot) \in BOOLEAN /\ (budget.torn \/ Unannounced) \in BOOLEAN
      OBVIOUS
    <3>5. /\ budget'.left = budget.left - 1 /\ budget'.boot = (budget.boot \/ reboot)
          /\ budget'.torn = (budget.torn \/ Unannounced)
          /\ budget' = [left |-> budget'.left, boot |-> budget'.boot, torn |-> budget'.torn]
      BY <3>1, <3>2 DEF BudgetSet
    <3> QED
      BY <3>3, <3>4, <3>5 DEF BudgetSet
  <2>3. UNCHANGED <<published, state, tx, host, backup, live, acked>>
    BY DEF Crash, durable
  <2>4. HostInv' /\ WritesInv'
    <3>1. WritesInv'
      BY <2>1, <2>2, <2>3 DEF IInv, WritesInv
    <3>2. HostInv'
      BY <2>1, <2>2, <2>3 DEF IInv, PlaceInv, HostInv, Moved, Unannounced
    <3> QED
      BY <3>1, <3>2
  <2>5. Typed'
    BY <2>1, <2>2, <2>3 DEF Typed, IInv, Moved
  <2>6. PlaceInv'
    BY <2>1, <2>2, <2>3 DEF IInv, PlaceInv, TagInv, HostInv, Moved
  <2>7. TagInv'
    BY <2>1, <2>2, <2>3 DEF IInv, PlaceInv, TagInv, HostInv, ApplyInv, RecoverInv, Typed,
       StateSet, TxSet, Moved
  <2>8. ApplyInv'
    BY <2>1, <2>2, <2>3 DEF IInv, PlaceInv, TagInv, HostInv, ApplyInv, RecoverInv, Moved
  <2>9. RecoverInv'
    BY <2>1, <2>2, <2>3 DEF IInv, PlaceInv, TagInv, HostInv, ApplyInv, RecoverInv, Moved
  <2>10. InstalledInv'
    BY <2>1, <2>2, <2>3 DEF IInv, PlaceInv, TagInv, InstalledInv, Typed, StateSet, TxSet,
       HostSet, Moved
  <2>11. AttemptsInv'
    <3> SUFFICES ASSUME NEW t \in Tags
             PROVE  /\ state'.attempts[t] <= MaxAttempts + Used'
                    /\ state'.seen[t] = "unseen" /\ ~(At("reject")' /\ proc'.tag = t) =>
                         state'.attempts[t] <= MaxAttempts + Used' - 1
      BY DEF AttemptsInv
    <3>1. state.attempts[t] \in Nat /\ budget.left \in 0..MaxDisruptions /\ t \in Nat
      BY DEF IInv, Typed, StateSet, BudgetSet
    <3> QED
      BY <2>1, <2>2, <2>3, <3>1 DEF IInv, AttemptsInv, BudgetSet
  <2> QED
    BY <2>4, <2>5, <2>6, <2>7, <2>8, <2>9, <2>10, <2>11 DEF IInv
<1>4. CASE TimerFires
  <2> USE <1>4
  <2>1. Begun
    <3>1. proc' = [pc |-> IF tx # NoTx THEN "interrupted" ELSE "select",
                    job |-> "check", tag |-> 0, caller |-> "none"]
      BY DEF TimerFires, Begin, NoProc
    <3> QED
      BY <3>1 DEF Begun, ProcSet
  <2>2. /\ At("idle")
        /\ UNCHANGED <<published, state, tx, host, backup, live, acked, budget>>
    BY DEF TimerFires, durable
  <2>3. HostInv' /\ WritesInv'
    <3>1. WritesInv'
      BY <2>1, <2>2 DEF IInv, WritesInv
    <3>2. HostInv'
      BY <2>1, <2>2 DEF IInv, PlaceInv, HostInv, Begun
    <3> QED
      BY <3>1, <3>2
  <2>4. Typed'
    BY <2>1, <2>2 DEF Typed, IInv, Begun
  <2>5. PlaceInv'
    BY <2>1, <2>2 DEF IInv, PlaceInv, TagInv, HostInv, Begun
  <2>6. TagInv'
    BY <2>1, <2>2 DEF IInv, PlaceInv, TagInv, HostInv, ApplyInv, RecoverInv, Typed,
       StateSet, TxSet, Begun
  <2>7. ApplyInv'
    BY <2>1, <2>2 DEF IInv, PlaceInv, TagInv, HostInv, ApplyInv, RecoverInv, Begun
  <2>8. RecoverInv'
    BY <2>1, <2>2 DEF IInv, PlaceInv, TagInv, HostInv, ApplyInv, RecoverInv, Begun
  <2>9. InstalledInv'
    BY <2>1, <2>2 DEF IInv, PlaceInv, TagInv, InstalledInv, Typed, StateSet, TxSet, HostSet,
       Begun
  <2>10. AttemptsInv'
    BY <2>1, <2>2 DEF IInv, PlaceInv, AttemptsInv, Typed, StateSet, BudgetSet, Begun
  <2> QED
    BY <2>3, <2>4, <2>5, <2>6, <2>7, <2>8, <2>9, <2>10 DEF IInv
<1>5. CASE BootService
  <2> USE <1>5
  <2>1. Begun
    <3>1. /\ proc' = [pc |-> IF tx # NoTx THEN "interrupted" ELSE "boot",
                       job |-> "boot", tag |-> 0, caller |-> "none"]
          /\ host.current # NoRelease
      BY DEF BootService, Begin, NoProc
    <3> QED
      BY <3>1 DEF Begun, ProcSet
  <2>2. /\ budget' \in BudgetSet
        /\ budget'.left = budget.left /\ budget'.torn = budget.torn
    BY DEF BootService, IInv, Typed, PlaceInv, BudgetSet
  <2>3. /\ At("idle")
        /\ UNCHANGED <<published, state, tx, host, backup, live, acked>>
    BY DEF BootService, durable
  <2>4. HostInv' /\ WritesInv'
    <3>1. WritesInv'
      BY <2>1, <2>2, <2>3 DEF IInv, WritesInv
    <3>2. HostInv'
      BY <2>1, <2>2, <2>3 DEF IInv, PlaceInv, HostInv, Begun
    <3> QED
      BY <3>1, <3>2
  <2>5. Typed'
    BY <2>1, <2>2, <2>3 DEF Typed, IInv, Begun
  <2>6. PlaceInv'
    BY <2>1, <2>2, <2>3 DEF IInv, PlaceInv, TagInv, HostInv, Begun
  <2>7. TagInv'
    BY <2>1, <2>2, <2>3 DEF IInv, PlaceInv, TagInv, HostInv, ApplyInv, RecoverInv, Typed,
       StateSet, TxSet, Begun
  <2>8. ApplyInv'
    BY <2>1, <2>2, <2>3 DEF IInv, PlaceInv, TagInv, HostInv, ApplyInv, RecoverInv, Begun
  <2>9. RecoverInv'
    BY <2>1, <2>2, <2>3 DEF IInv, PlaceInv, TagInv, HostInv, ApplyInv, RecoverInv, Begun
  <2>10. InstalledInv'
    BY <2>1, <2>2, <2>3 DEF IInv, PlaceInv, TagInv, InstalledInv, Typed, StateSet, TxSet,
       HostSet, Begun
  <2>11. AttemptsInv'
    BY <2>1, <2>2, <2>3 DEF IInv, PlaceInv, AttemptsInv, Typed, StateSet, BudgetSet, Begun
  <2> QED
    BY <2>4, <2>5, <2>6, <2>7, <2>8, <2>9, <2>10, <2>11 DEF IInv
<1> QED
  BY <1>1, <1>2, <1>3, <1>4, <1>5

LEMMA ClosingInductive ==
  ASSUME IInv,
         BootStack \/ Interrupted \/ Conclude \/ Unlink \/ GiveUp \/ RecordManual
         \/ ResumePrevious
  PROVE  IInv'
<1>1. CASE BootStack
  <2> USE <1>1
  <2>1. Moved({"idle"})
    BY DEF BootStack, IInv, Typed, ProcSet, Goto, Quit, NoProc, Moved
  <2>2. /\ live' \in LiveSet
        /\ live'.schema = live.schema
        /\ live'.writes = live.writes
        /\ live'.config = live.config
        /\ live'.maintenance = live.maintenance
        /\ live'.up = Services
        /\ live'.runs = live.runs
    BY DEF BootStack, IInv, Typed, PlaceInv, LiveSet, Start, Stop
  <2>3. /\ At("boot")
        /\ UNCHANGED <<published, state, tx, host, backup, acked, budget>>
    BY DEF BootStack, durable
  <2>4. Typed'
    BY <2>1, <2>2, <2>3 DEF Typed, IInv, Moved
  <2>5. PlaceInv'
    BY <2>1, <2>2, <2>3 DEF IInv, PlaceInv, TagInv, HostInv, Moved
  <2>6. TagInv'
    BY <2>1, <2>2, <2>3 DEF IInv, PlaceInv, TagInv, HostInv, ApplyInv, RecoverInv, Typed,
       StateSet, TxSet, Moved
  <2>7. HostInv'
    BY <2>1, <2>2, <2>3 DEF IInv, PlaceInv, TagInv, HostInv, ApplyInv, RecoverInv,
       WritesInv, Typed, TxSet, Moved
  <2>8. ApplyInv'
    BY <2>1, <2>2, <2>3 DEF IInv, PlaceInv, TagInv, HostInv, ApplyInv, RecoverInv, Moved
  <2>9. RecoverInv'
    BY <2>1, <2>2, <2>3 DEF IInv, PlaceInv, TagInv, HostInv, ApplyInv, RecoverInv, Moved
  <2>10. InstalledInv'
    BY <2>1, <2>2, <2>3 DEF IInv, PlaceInv, TagInv, InstalledInv, Typed, StateSet, TxSet,
       HostSet, Moved
  <2>11. WritesInv'
    BY <2>1, <2>2, <2>3 DEF IInv, PlaceInv, TagInv, HostInv, ApplyInv, WritesInv, Typed,
       LiveSet, AckedSet, BackupSet, TxSet, Moved
  <2>12. AttemptsInv'
    BY <2>1, <2>2, <2>3 DEF IInv, PlaceInv, AttemptsInv, Typed, StateSet, BudgetSet, Moved
  <2> QED
    BY <2>4, <2>5, <2>6, <2>7, <2>8, <2>9, <2>10, <2>11, <2>12 DEF IInv
<1>2. CASE Interrupted
  <2>1. CASE state.success = tx.tag
    <3> USE <1>2, <2>1
    <3>1. /\ Moved({"boot", "select"})
          /\ (proc'.pc = "boot" <=> proc.job = "boot")
      BY DEF Interrupted, IInv, Typed, ProcSet, Goto, Quit, NoProc, Moved, Continue
    <3>2. tx' = NoTx
      BY DEF Interrupted, IInv, Typed, PlaceInv, TxSet
    <3>3. /\ At("interrupted")
          /\ UNCHANGED <<published, state, host, backup, live, acked, budget>>
      BY DEF Interrupted, durable
    <3>4. Typed'
      BY <3>1, <3>2, <3>3 DEF Typed, IInv, Moved, TxSet
    <3>5. PlaceInv'
      BY <3>1, <3>2, <3>3 DEF IInv, PlaceInv, TagInv, HostInv, Moved
    <3>6. TagInv'
      BY <3>1, <3>2, <3>3 DEF IInv, PlaceInv, TagInv, HostInv, ApplyInv, RecoverInv, Typed,
         StateSet, TxSet, Moved
    <3>7. HostInv'
      BY <3>1, <3>2, <3>3 DEF IInv, PlaceInv, TagInv, HostInv, ApplyInv, RecoverInv,
         WritesInv, Typed, TxSet, Moved
    <3>8. ApplyInv'
      BY <3>1, <3>2, <3>3 DEF IInv, PlaceInv, TagInv, HostInv, ApplyInv, RecoverInv, Moved
    <3>9. RecoverInv'
      BY <3>1, <3>2, <3>3 DEF IInv, PlaceInv, TagInv, HostInv, ApplyInv, RecoverInv, Moved
    <3>10. InstalledInv'
      BY <3>1, <3>2, <3>3 DEF IInv, PlaceInv, TagInv, InstalledInv, Typed, StateSet, TxSet,
         HostSet, Moved
    <3>11. WritesInv'
      BY <3>1, <3>2, <3>3 DEF IInv, PlaceInv, TagInv, HostInv, ApplyInv, WritesInv, Typed,
         LiveSet, AckedSet, BackupSet, TxSet, Moved
    <3>12. AttemptsInv'
      BY <3>1, <3>2, <3>3 DEF IInv, PlaceInv, AttemptsInv, Typed, StateSet, BudgetSet, Moved
    <3> QED
      BY <3>4, <3>5, <3>6, <3>7, <3>8, <3>9, <3>10, <3>11, <3>12 DEF IInv
  <2>2. CASE state.success # tx.tag /\ tx.phase \in {"traffic_committed", "manual-recovery"}
    <3> USE <1>2, <2>2
    <3>1. Moved({"idle"})
      BY DEF Interrupted, IInv, Typed, ProcSet, Goto, Quit, NoProc, Moved
    <3>2. Marked(tx.tag, "manual-recovery-required")
      BY MarkEffect DEF Interrupted, IInv, Typed, PlaceInv, TxSet
    <3>3. /\ At("interrupted")
          /\ UNCHANGED <<published, tx, host, backup, live, acked, budget>>
      BY DEF Interrupted, durable
    <3>4. WritesInv'
      BY <3>3 DEF IInv, WritesInv
    <3>5. Typed'
      BY <3>1, <3>2, <3>3 DEF Typed, IInv, Moved, Marked
    <3>6. PlaceInv'
      BY <3>1, <3>2, <3>3 DEF IInv, PlaceInv, TagInv, HostInv, Moved, Marked
    <3>7. TagInv'
      BY <3>1, <3>2, <3>3 DEF IInv, PlaceInv, TagInv, HostInv, ApplyInv, RecoverInv, Typed,
         StateSet, TxSet, Moved, Marked
    <3>8. HostInv'
      BY <3>1, <3>2, <3>3 DEF IInv, PlaceInv, TagInv, HostInv, ApplyInv, RecoverInv,
         WritesInv, Typed, TxSet, Moved, Marked
    <3>9. ApplyInv'
      BY <3>1, <3>2, <3>3 DEF IInv, PlaceInv, TagInv, HostInv, ApplyInv, RecoverInv, Moved,
         Marked
    <3>10. RecoverInv'
      BY <3>1, <3>2, <3>3 DEF IInv, PlaceInv, TagInv, HostInv, ApplyInv, RecoverInv, Moved,
         Marked
    <3>11. InstalledInv'
      BY <3>1, <3>2, <3>3 DEF IInv, PlaceInv, TagInv, InstalledInv, Typed, StateSet, TxSet,
         HostSet, Moved, Marked
    <3>12. AttemptsInv'
      BY <3>1, <3>2, <3>3 DEF IInv, PlaceInv, AttemptsInv, Typed, StateSet, BudgetSet,
         Moved, Marked
    <3> QED
      BY <3>4, <3>5, <3>6, <3>7, <3>8, <3>9, <3>10, <3>11, <3>12 DEF IInv
  <2>3. CASE state.success # tx.tag /\ tx.phase = "preparing"
    <3> USE <1>2, <2>3
    <3>1. /\ Moved({"resume", "unprepared"})
          /\ (proc'.pc = "resume" <=> tx.previous # NoRelease)
      BY DEF Interrupted, IInv, Typed, ProcSet, Goto, Quit, NoProc, Moved
    <3>2. /\ At("interrupted")
          /\ UNCHANGED <<published, state, tx, host, backup, live, acked, budget>>
      BY DEF Interrupted, durable
    <3>3. HostInv' /\ WritesInv'
      <4>1. WritesInv'
        BY <3>1, <3>2 DEF IInv, WritesInv
      <4>2. HostInv'
        BY <3>1, <3>2 DEF IInv, PlaceInv, HostInv, Moved
      <4> QED
        BY <4>1, <4>2
    <3>4. Typed'
      BY <3>1, <3>2 DEF Typed, IInv, Moved
    <3>5. PlaceInv'
      BY <3>1, <3>2 DEF IInv, PlaceInv, TagInv, HostInv, Moved
    <3>6. TagInv'
      BY <3>1, <3>2 DEF IInv, PlaceInv, TagInv, HostInv, ApplyInv, RecoverInv, Typed,
         StateSet, TxSet, Moved
    <3>7. ApplyInv'
      BY <3>1, <3>2 DEF IInv, PlaceInv, TagInv, HostInv, ApplyInv, RecoverInv, Moved
    <3>8. RecoverInv'
      BY <3>1, <3>2 DEF IInv, PlaceInv, TagInv, HostInv, ApplyInv, RecoverInv, Moved
    <3>9. InstalledInv'
      BY <3>1, <3>2 DEF IInv, PlaceInv, TagInv, InstalledInv, Typed, StateSet, TxSet,
         HostSet, Moved
    <3>10. AttemptsInv'
      BY <3>1, <3>2 DEF IInv, PlaceInv, AttemptsInv, Typed, StateSet, BudgetSet, Moved
    <3> QED
      BY <3>3, <3>4, <3>5, <3>6, <3>7, <3>8, <3>9, <3>10 DEF IInv
  <2>4. CASE state.success # tx.tag /\ tx.phase = "changing"
    <3> USE <1>2, <2>4
    <3>1. /\ Moved({"recover", "give_up"})
          /\ (proc'.pc = "recover" <=> Recoverable)
      BY DEF Interrupted, IInv, Typed, ProcSet, Goto, Quit, NoProc, Moved
    <3>2. /\ At("interrupted")
          /\ UNCHANGED <<published, state, tx, host, backup, live, acked, budget>>
      BY DEF Interrupted, durable
    <3>3. HostInv' /\ WritesInv'
      <4>1. WritesInv'
        BY <3>1, <3>2 DEF IInv, WritesInv
      <4>2. HostInv'
        BY <3>1, <3>2 DEF IInv, PlaceInv, HostInv, Moved
      <4> QED
        BY <4>1, <4>2
    <3>4. Typed'
      BY <3>1, <3>2 DEF Typed, IInv, Moved
    <3>5. PlaceInv'
      BY <3>1, <3>2 DEF IInv, PlaceInv, TagInv, HostInv, Moved
    <3>6. TagInv'
      BY <3>1, <3>2 DEF IInv, PlaceInv, TagInv, HostInv, ApplyInv, RecoverInv, Typed,
         StateSet, TxSet, Moved
    <3>7. ApplyInv'
      BY <3>1, <3>2 DEF IInv, PlaceInv, TagInv, HostInv, ApplyInv, RecoverInv, Moved
    <3>8. RecoverInv'
      BY <3>1, <3>2 DEF IInv, PlaceInv, TagInv, HostInv, ApplyInv, RecoverInv, Moved
    <3>9. InstalledInv'
      BY <3>1, <3>2 DEF IInv, PlaceInv, TagInv, InstalledInv, Typed, StateSet, TxSet,
         HostSet, Moved
    <3>10. AttemptsInv'
      BY <3>1, <3>2 DEF IInv, PlaceInv, AttemptsInv, Typed, StateSet, BudgetSet, Moved
    <3> QED
      BY <3>3, <3>4, <3>5, <3>6, <3>7, <3>8, <3>9, <3>10 DEF IInv
  <2> QED
    BY <1>2, <2>1, <2>2, <2>3, <2>4 DEF Interrupted, IInv, Typed, TxSet, PlaceInv, At
<1>3. CASE Conclude
  <2>1. CASE At("unprepared")
    <3> USE <1>3, <2>1
    <3>1. Moved({"unlink"})
      BY DEF Conclude, IInv, Typed, ProcSet, Goto, Quit, NoProc, Moved
    <3>2. \E s \in Settled : Marked(tx.tag, s)
      BY MarkEffect DEF Conclude, IInv, Typed, PlaceInv, TxSet
    <3>3. /\ At("unprepared")
          /\ UNCHANGED <<published, tx, host, backup, live, acked, budget>>
      BY Zenon DEF Conclude, durable
    <3>4. WritesInv'
      BY <3>3 DEF IInv, WritesInv
    <3>5. Typed'
      BY <3>1, <3>2, <3>3 DEF Typed, IInv, Moved, Marked
    <3>6. PlaceInv'
      BY <3>1, <3>2, <3>3 DEF IInv, PlaceInv, TagInv, HostInv, Moved, Marked
    <3>7. TagInv'
      BY <3>1, <3>2, <3>3 DEF IInv, PlaceInv, TagInv, HostInv, ApplyInv, RecoverInv, Typed,
         StateSet, TxSet, Moved, Marked
    <3>8. HostInv'
      BY <3>1, <3>2, <3>3 DEF IInv, PlaceInv, TagInv, HostInv, ApplyInv, RecoverInv,
         WritesInv, Typed, TxSet, Moved, Marked
    <3>9. ApplyInv'
      BY <3>1, <3>2, <3>3 DEF IInv, PlaceInv, TagInv, HostInv, ApplyInv, RecoverInv, Moved,
         Marked
    <3>10. RecoverInv'
      BY <3>1, <3>2, <3>3 DEF IInv, PlaceInv, TagInv, HostInv, ApplyInv, RecoverInv, Moved,
         Marked
    <3>11. InstalledInv'
      BY <3>1, <3>2, <3>3 DEF IInv, PlaceInv, TagInv, InstalledInv, Typed, StateSet, TxSet,
         HostSet, Moved, Marked
    <3>12. AttemptsInv'
      BY <3>1, <3>2, <3>3 DEF IInv, PlaceInv, AttemptsInv, Typed, StateSet, BudgetSet,
         Moved, Marked
    <3> QED
      BY <3>4, <3>5, <3>6, <3>7, <3>8, <3>9, <3>10, <3>11, <3>12 DEF IInv
  <2>2. CASE At("restored")
    <3> USE <1>3, <2>2
    <3>1. Moved({"unlink"})
      BY DEF Conclude, IInv, Typed, ProcSet, Goto, Quit, NoProc, Moved
    <3>2. \E s \in Settled : Marked(tx.tag, s)
      BY MarkEffect DEF Conclude, IInv, Typed, PlaceInv, TxSet
    <3>3. /\ At("restored")
          /\ UNCHANGED <<published, tx, host, backup, live, acked, budget>>
      BY Zenon DEF Conclude, durable
    <3>4. WritesInv'
      BY <3>3 DEF IInv, WritesInv
    <3>5. Typed'
      BY <3>1, <3>2, <3>3 DEF Typed, IInv, Moved, Marked
    <3>6. PlaceInv'
      BY <3>1, <3>2, <3>3 DEF IInv, PlaceInv, TagInv, HostInv, Moved, Marked
    <3>7. TagInv'
      BY <3>1, <3>2, <3>3 DEF IInv, PlaceInv, TagInv, HostInv, ApplyInv, RecoverInv, Typed,
         StateSet, TxSet, Moved, Marked
    <3>8. HostInv'
      BY <3>1, <3>2, <3>3 DEF IInv, PlaceInv, TagInv, HostInv, ApplyInv, RecoverInv,
         WritesInv, Typed, TxSet, Moved, Marked
    <3>9. ApplyInv'
      BY <3>1, <3>2, <3>3 DEF IInv, PlaceInv, TagInv, HostInv, ApplyInv, RecoverInv, Moved,
         Marked
    <3>10. RecoverInv'
      BY <3>1, <3>2, <3>3 DEF IInv, PlaceInv, TagInv, HostInv, ApplyInv, RecoverInv, Moved,
         Marked
    <3>11. InstalledInv'
      BY <3>1, <3>2, <3>3 DEF IInv, PlaceInv, TagInv, InstalledInv, Typed, StateSet, TxSet,
         HostSet, Moved, Marked
    <3>12. AttemptsInv'
      BY <3>1, <3>2, <3>3 DEF IInv, PlaceInv, AttemptsInv, Typed, StateSet, BudgetSet,
         Moved, Marked
    <3> QED
      BY <3>4, <3>5, <3>6, <3>7, <3>8, <3>9, <3>10, <3>11, <3>12 DEF IInv
  <2> QED
    BY <1>3, <2>1, <2>2 DEF Conclude
<1>4. CASE Unlink
  <2> USE <1>4
  <2>1. /\ Moved({"boot", "select", "idle"})
        /\ (proc'.pc = "boot" => proc.job = "boot")
    BY DEF Unlink, IInv, Typed, ProcSet, Goto, Quit, NoProc, Moved, Continue
  <2>2. tx' = NoTx
    BY DEF Unlink, IInv, Typed, PlaceInv, TxSet
  <2>3. /\ At("unlink")
        /\ UNCHANGED <<published, state, host, backup, live, acked, budget>>
    BY DEF Unlink, durable
  <2>4. Typed'
    BY <2>1, <2>2, <2>3 DEF Typed, IInv, Moved, TxSet
  <2>5. PlaceInv'
    BY <2>1, <2>2, <2>3 DEF IInv, PlaceInv, TagInv, HostInv, Moved
  <2>6. TagInv'
    BY <2>1, <2>2, <2>3 DEF IInv, PlaceInv, TagInv, HostInv, ApplyInv, RecoverInv, Typed,
       StateSet, TxSet, Moved
  <2>7. HostInv'
    BY <2>1, <2>2, <2>3 DEF IInv, PlaceInv, TagInv, HostInv, ApplyInv, RecoverInv,
       WritesInv, Typed, TxSet, Moved
  <2>8. ApplyInv'
    BY <2>1, <2>2, <2>3 DEF IInv, PlaceInv, TagInv, HostInv, ApplyInv, RecoverInv, Moved
  <2>9. RecoverInv'
    BY <2>1, <2>2, <2>3 DEF IInv, PlaceInv, TagInv, HostInv, ApplyInv, RecoverInv, Moved
  <2>10. InstalledInv'
    BY <2>1, <2>2, <2>3 DEF IInv, PlaceInv, TagInv, InstalledInv, Typed, StateSet, TxSet,
       HostSet, Moved
  <2>11. WritesInv'
    BY <2>1, <2>2, <2>3 DEF IInv, PlaceInv, TagInv, HostInv, ApplyInv, WritesInv, Typed,
       LiveSet, AckedSet, BackupSet, TxSet, Moved, RecoverInv
  <2>12. AttemptsInv'
    BY <2>1, <2>2, <2>3 DEF IInv, PlaceInv, AttemptsInv, Typed, StateSet, BudgetSet, Moved
  <2> QED
    BY <2>4, <2>5, <2>6, <2>7, <2>8, <2>9, <2>10, <2>11, <2>12 DEF IInv
<1>5. CASE GiveUp
  <2>1. CASE At("give_up")
    <3> USE <1>5, <2>1
    <3>1. Moved({"gave_up"})
      BY DEF GiveUp, IInv, Typed, ProcSet, Goto, Quit, NoProc, Moved
    <3>2. Marked(tx.tag, "manual-recovery-required")
      BY MarkEffect DEF GiveUp, IInv, Typed, PlaceInv, TxSet
    <3>3. /\ At("give_up")
          /\ UNCHANGED <<published, tx, host, backup, live, acked, budget>>
      BY DEF GiveUp, durable
    <3>4. WritesInv'
      BY <3>3 DEF IInv, WritesInv
    <3>5. Typed'
      BY <3>1, <3>2, <3>3 DEF Typed, IInv, Moved, Marked
    <3>6. PlaceInv'
      BY <3>1, <3>2, <3>3 DEF IInv, PlaceInv, TagInv, HostInv, Moved, Marked
    <3>7. TagInv'
      BY <3>1, <3>2, <3>3 DEF IInv, PlaceInv, TagInv, HostInv, ApplyInv, RecoverInv, Typed,
         StateSet, TxSet, Moved, Marked
    <3>8. HostInv'
      BY <3>1, <3>2, <3>3 DEF IInv, PlaceInv, TagInv, HostInv, ApplyInv, RecoverInv,
         WritesInv, Typed, TxSet, Moved, Marked
    <3>9. ApplyInv'
      BY <3>1, <3>2, <3>3 DEF IInv, PlaceInv, TagInv, HostInv, ApplyInv, RecoverInv, Moved, Marked
    <3>10. RecoverInv'
      BY <3>1, <3>2, <3>3 DEF IInv, PlaceInv, TagInv, HostInv, ApplyInv, RecoverInv, Moved, Marked
    <3>11. InstalledInv'
      BY <3>1, <3>2, <3>3 DEF IInv, PlaceInv, TagInv, InstalledInv, Typed, StateSet, TxSet,
         HostSet, Moved, Marked
    <3>12. AttemptsInv'
      BY <3>1, <3>2, <3>3 DEF IInv, PlaceInv, AttemptsInv, Typed, StateSet, BudgetSet, Moved,
         Marked
    <3> QED
      BY <3>4, <3>5, <3>6, <3>7, <3>8, <3>9, <3>10, <3>11, <3>12 DEF IInv
  <2>2. CASE At("unsaved")
    <3> USE <1>5, <2>2
    <3>1. Moved({"gave_up"})
      BY DEF GiveUp, IInv, Typed, ProcSet, Goto, Quit, NoProc, Moved
    <3>2. Succeeded(tx.tag, "manual-recovery-required")
      <4>1. tx.tag \in Tags /\ state \in StateSet
        BY DEF IInv, Typed, PlaceInv, TxSet
      <4>2. state' = [state EXCEPT !.success = tx.tag, !.seen[tx.tag] = "manual-recovery-required"]
        BY DEF GiveUp
      <4> QED
        BY <4>1, <4>2, SuccessEffect
    <3>3. /\ At("unsaved")
          /\ UNCHANGED <<published, tx, host, backup, live, acked, budget>>
      BY DEF GiveUp, durable
    <3>4. WritesInv'
      BY <3>3 DEF IInv, WritesInv
    <3>5. Typed'
      BY <3>1, <3>2, <3>3 DEF Typed, IInv, Moved, Succeeded
    <3>6. PlaceInv'
      BY <3>1, <3>2, <3>3 DEF IInv, PlaceInv, TagInv, HostInv, Moved, Succeeded
    <3>7. TagInv'
      BY <3>1, <3>2, <3>3 DEF IInv, PlaceInv, TagInv, HostInv, ApplyInv, RecoverInv, Typed,
         StateSet, TxSet, Moved, Succeeded
    <3>8. HostInv'
      BY <3>1, <3>2, <3>3 DEF IInv, PlaceInv, TagInv, HostInv, ApplyInv, RecoverInv,
         WritesInv, Typed, TxSet, Moved, Succeeded
    <3>9. ApplyInv'
      BY <3>1, <3>2, <3>3 DEF IInv, PlaceInv, TagInv, HostInv, ApplyInv, RecoverInv, Moved, Succeeded
    <3>10. RecoverInv'
      BY <3>1, <3>2, <3>3 DEF IInv, PlaceInv, TagInv, HostInv, ApplyInv, RecoverInv, Moved, Succeeded
    <3>11. InstalledInv'
      BY <3>1, <3>2, <3>3 DEF IInv, PlaceInv, TagInv, InstalledInv, Typed, StateSet, TxSet,
         HostSet, Moved, Succeeded
    <3>12. AttemptsInv'
      BY <3>1, <3>2, <3>3 DEF IInv, PlaceInv, AttemptsInv, Typed, StateSet, BudgetSet, Moved,
         Succeeded
    <3> QED
      BY <3>4, <3>5, <3>6, <3>7, <3>8, <3>9, <3>10, <3>11, <3>12 DEF IInv
  <2> QED
    BY <1>5, <2>1, <2>2 DEF GiveUp
<1>6. CASE RecordManual
  <2> USE <1>6
  <2>1. Moved({"idle"})
    BY DEF RecordManual, IInv, Typed, ProcSet, Goto, Quit, NoProc, Moved
  <2>2. Phased("manual-recovery")
    BY PhaseEffect DEF RecordManual, IInv, Typed, PlaceInv, TxSet
  <2>3. /\ At("gave_up")
        /\ UNCHANGED <<published, state, host, backup, live, acked, budget>>
    BY DEF RecordManual, durable
  <2>4. Typed'
    BY <2>1, <2>2, <2>3 DEF Typed, IInv, Moved, Phased
  <2>5. PlaceInv'
    BY <2>1, <2>2, <2>3 DEF IInv, PlaceInv, TagInv, HostInv, Moved, Phased
  <2>6. TagInv'
    BY <2>1, <2>2, <2>3 DEF IInv, PlaceInv, TagInv, HostInv, ApplyInv, RecoverInv, Typed,
       StateSet, TxSet, Moved, Phased
  <2>7. HostInv'
    BY <2>1, <2>2, <2>3 DEF IInv, PlaceInv, TagInv, HostInv, ApplyInv, RecoverInv,
       WritesInv, Typed, TxSet, Moved, Phased
  <2>8. ApplyInv'
    BY <2>1, <2>2, <2>3 DEF IInv, PlaceInv, TagInv, HostInv, ApplyInv, RecoverInv, Moved, Phased
  <2>9. RecoverInv'
    BY <2>1, <2>2, <2>3 DEF IInv, PlaceInv, TagInv, HostInv, ApplyInv, RecoverInv, Moved, Phased
  <2>10. InstalledInv'
    BY <2>1, <2>2, <2>3 DEF IInv, PlaceInv, TagInv, InstalledInv, Typed, StateSet, TxSet,
       HostSet, Moved, Phased
  <2>11. WritesInv'
    BY <2>1, <2>2, <2>3 DEF IInv, PlaceInv, TagInv, HostInv, ApplyInv, WritesInv, Typed,
       LiveSet, AckedSet, BackupSet, TxSet, Moved, Phased
  <2>12. AttemptsInv'
    BY <2>1, <2>2, <2>3 DEF IInv, PlaceInv, AttemptsInv, Typed, StateSet, BudgetSet, Moved,
       Phased
  <2> QED
    BY <2>4, <2>5, <2>6, <2>7, <2>8, <2>9, <2>10, <2>11, <2>12 DEF IInv
<1>7. CASE ResumePrevious
  <2>1. CASE At("resume")
    <3> USE <1>7, <2>1
    <3>1. Moved({"resume_app"})
      BY DEF ResumePrevious, IInv, Typed, ProcSet, Goto, Quit, NoProc, Moved
    <3>2. /\ host' \in HostSet
          /\ host'.current = tx.previous
          /\ host'.env = host.env
          /\ host'.main = host.main
          /\ host'.deps = host.deps
      BY DEF ResumePrevious, IInv, Typed, PlaceInv, HostSet, TxSet
    <3>3. /\ At("resume")
          /\ UNCHANGED <<published, state, tx, backup, live, acked, budget>>
      BY DEF ResumePrevious, durable
    <3>4. WritesInv'
      BY <3>3 DEF IInv, WritesInv
    <3>5. Typed'
      BY <3>1, <3>2, <3>3 DEF Typed, IInv, Moved
    <3>6. PlaceInv'
      BY <3>1, <3>2, <3>3 DEF IInv, PlaceInv, TagInv, HostInv, Moved
    <3>7. TagInv'
      BY <3>1, <3>2, <3>3 DEF IInv, PlaceInv, TagInv, HostInv, ApplyInv, RecoverInv, Typed,
         StateSet, TxSet, Moved
    <3>8. HostInv'
      BY <3>1, <3>2, <3>3 DEF IInv, PlaceInv, TagInv, HostInv, ApplyInv, RecoverInv,
         WritesInv, Typed, TxSet, Moved
    <3>9. ApplyInv'
      BY <3>1, <3>2, <3>3 DEF IInv, PlaceInv, TagInv, HostInv, ApplyInv, RecoverInv, Moved
    <3>10. RecoverInv'
      BY <3>1, <3>2, <3>3 DEF IInv, PlaceInv, TagInv, HostInv, ApplyInv, RecoverInv, Moved
    <3>11. InstalledInv'
      BY <3>1, <3>2, <3>3 DEF IInv, PlaceInv, TagInv, InstalledInv, Typed, StateSet, TxSet,
         HostSet, Moved
    <3>12. AttemptsInv'
      BY <3>1, <3>2, <3>3 DEF IInv, PlaceInv, AttemptsInv, Typed, StateSet, BudgetSet, Moved
    <3> QED
      BY <3>4, <3>5, <3>6, <3>7, <3>8, <3>9, <3>10, <3>11, <3>12 DEF IInv
  <2>2. CASE At("resume_app")
    <3> USE <1>7, <2>2
    <3>1. Moved({"resume_maintenance"})
      BY DEF ResumePrevious, IInv, Typed, ProcSet, Goto, Quit, NoProc, Moved
    <3>2. /\ live' \in LiveSet
          /\ live'.schema = live.schema
          /\ live'.writes = live.writes
          /\ live'.config = live.config
          /\ live'.maintenance = live.maintenance
          /\ live'.up = live.up \cup {"app"}
          /\ live'.runs = live.runs
      BY DEF ResumePrevious, IInv, Typed, PlaceInv, LiveSet, Start, Stop
    <3>3. /\ At("resume_app")
          /\ UNCHANGED <<published, state, tx, host, backup, acked, budget>>
      BY DEF ResumePrevious, durable
    <3>4. Typed'
      BY <3>1, <3>2, <3>3 DEF Typed, IInv, Moved
    <3>5. PlaceInv'
      BY <3>1, <3>2, <3>3 DEF IInv, PlaceInv, TagInv, HostInv, Moved
    <3>6. TagInv'
      BY <3>1, <3>2, <3>3 DEF IInv, PlaceInv, TagInv, HostInv, ApplyInv, RecoverInv, Typed,
         StateSet, TxSet, Moved
    <3>7. HostInv'
      BY <3>1, <3>2, <3>3 DEF IInv, PlaceInv, TagInv, HostInv, ApplyInv, RecoverInv,
         WritesInv, Typed, TxSet, Moved
    <3>8. ApplyInv'
      BY <3>1, <3>2, <3>3 DEF IInv, PlaceInv, TagInv, HostInv, ApplyInv, RecoverInv, Moved
    <3>9. RecoverInv'
      BY <3>1, <3>2, <3>3 DEF IInv, PlaceInv, TagInv, HostInv, ApplyInv, RecoverInv, Moved
    <3>10. InstalledInv'
      BY <3>1, <3>2, <3>3 DEF IInv, PlaceInv, TagInv, InstalledInv, Typed, StateSet, TxSet,
         HostSet, Moved
    <3>11. WritesInv'
      BY <3>1, <3>2, <3>3 DEF IInv, PlaceInv, TagInv, HostInv, ApplyInv, WritesInv, Typed,
         LiveSet, AckedSet, BackupSet, TxSet, Moved
    <3>12. AttemptsInv'
      BY <3>1, <3>2, <3>3 DEF IInv, PlaceInv, AttemptsInv, Typed, StateSet, BudgetSet, Moved
    <3> QED
      BY <3>4, <3>5, <3>6, <3>7, <3>8, <3>9, <3>10, <3>11, <3>12 DEF IInv
  <2>3. CASE At("resume_maintenance")
    <3> USE <1>7, <2>3
    <3>1. Moved({"resume_open"})
      BY DEF ResumePrevious, IInv, Typed, ProcSet, Goto, Quit, NoProc, Moved
    <3>2. /\ live' \in LiveSet
          /\ live'.schema = live.schema
          /\ live'.writes = live.writes
          /\ live'.config = live.config
          /\ live'.maintenance = FALSE
          /\ live'.up = live.up
          /\ live'.runs = live.runs
      BY DEF ResumePrevious, IInv, Typed, PlaceInv, LiveSet, Start, Stop
    <3>3. /\ At("resume_maintenance")
          /\ UNCHANGED <<published, state, tx, host, backup, acked, budget>>
      BY DEF ResumePrevious, durable
    <3>4. Typed'
      BY <3>1, <3>2, <3>3 DEF Typed, IInv, Moved
    <3>5. PlaceInv'
      BY <3>1, <3>2, <3>3 DEF IInv, PlaceInv, TagInv, HostInv, Moved
    <3>6. TagInv'
      BY <3>1, <3>2, <3>3 DEF IInv, PlaceInv, TagInv, HostInv, ApplyInv, RecoverInv, Typed,
         StateSet, TxSet, Moved
    <3>7. HostInv'
      BY <3>1, <3>2, <3>3 DEF IInv, PlaceInv, TagInv, HostInv, ApplyInv, RecoverInv,
         WritesInv, Typed, TxSet, Moved
    <3>8. ApplyInv'
      BY <3>1, <3>2, <3>3 DEF IInv, PlaceInv, TagInv, HostInv, ApplyInv, RecoverInv, Moved
    <3>9. RecoverInv'
      BY <3>1, <3>2, <3>3 DEF IInv, PlaceInv, TagInv, HostInv, ApplyInv, RecoverInv, Moved
    <3>10. InstalledInv'
      BY <3>1, <3>2, <3>3 DEF IInv, PlaceInv, TagInv, InstalledInv, Typed, StateSet, TxSet,
         HostSet, Moved
    <3>11. WritesInv'
      BY <3>1, <3>2, <3>3 DEF IInv, PlaceInv, TagInv, HostInv, ApplyInv, WritesInv, Typed,
         LiveSet, AckedSet, BackupSet, TxSet, Moved
    <3>12. AttemptsInv'
      BY <3>1, <3>2, <3>3 DEF IInv, PlaceInv, AttemptsInv, Typed, StateSet, BudgetSet, Moved
    <3> QED
      BY <3>4, <3>5, <3>6, <3>7, <3>8, <3>9, <3>10, <3>11, <3>12 DEF IInv
  <2>4. CASE At("resume_open")
    <3> USE <1>7, <2>4
    <3>1. Moved({"unprepared"})
      BY DEF ResumePrevious, IInv, Typed, ProcSet, Goto, Quit, NoProc, Moved
    <3>2. /\ live' \in LiveSet
          /\ live'.schema = live.schema
          /\ live'.writes = live.writes
          /\ live'.config = live.config
          /\ live'.maintenance = live.maintenance
          /\ live'.up = live.up \cup {"workers", "proxy"}
          /\ live'.runs = live.runs
      BY DEF ResumePrevious, IInv, Typed, PlaceInv, LiveSet, Start, Stop
    <3>3. /\ At("resume_open")
          /\ UNCHANGED <<published, state, tx, host, backup, acked, budget>>
      BY DEF ResumePrevious, durable
    <3>4. Typed'
      BY <3>1, <3>2, <3>3 DEF Typed, IInv, Moved
    <3>5. PlaceInv'
      BY <3>1, <3>2, <3>3 DEF IInv, PlaceInv, TagInv, HostInv, Moved
    <3>6. TagInv'
      BY <3>1, <3>2, <3>3 DEF IInv, PlaceInv, TagInv, HostInv, ApplyInv, RecoverInv, Typed,
         StateSet, TxSet, Moved
    <3>7. HostInv'
      BY <3>1, <3>2, <3>3 DEF IInv, PlaceInv, TagInv, HostInv, ApplyInv, RecoverInv,
         WritesInv, Typed, TxSet, Moved
    <3>8. ApplyInv'
      BY <3>1, <3>2, <3>3 DEF IInv, PlaceInv, TagInv, HostInv, ApplyInv, RecoverInv, Moved
    <3>9. RecoverInv'
      BY <3>1, <3>2, <3>3 DEF IInv, PlaceInv, TagInv, HostInv, ApplyInv, RecoverInv, Moved,
         Typed, LiveSet
    <3>10. InstalledInv'
      BY <3>1, <3>2, <3>3 DEF IInv, PlaceInv, TagInv, InstalledInv, Typed, StateSet, TxSet,
         HostSet, Moved
    <3>11. WritesInv'
      BY <3>1, <3>2, <3>3 DEF IInv, PlaceInv, TagInv, HostInv, ApplyInv, WritesInv, Typed,
         LiveSet, AckedSet, BackupSet, TxSet, Moved
    <3>12. AttemptsInv'
      BY <3>1, <3>2, <3>3 DEF IInv, PlaceInv, AttemptsInv, Typed, StateSet, BudgetSet, Moved
    <3> QED
      BY <3>4, <3>5, <3>6, <3>7, <3>8, <3>9, <3>10, <3>11, <3>12 DEF IInv
  <2> QED
    BY <1>7, <2>1, <2>2, <2>3, <2>4 DEF ResumePrevious
<1> QED
  BY <1>1, <1>2, <1>3, <1>4, <1>5, <1>6, <1>7

LEMMA RecoveringInductive ==
  ASSUME IInv,
         RecoverStop \/ RecoverRelease \/ RecoverDatabase \/ RecoverConfig
         \/ RecoverApp \/ RecoverOpen
  PROVE  IInv'
<1>1. CASE RecoverStop
  <2> USE <1>1
  <2>1. Moved({"recover_release"})
    BY DEF RecoverStop, IInv, Typed, ProcSet, Goto, Quit, NoProc, Moved
  <2>2. /\ live' \in LiveSet
        /\ live'.schema = live.schema
        /\ live'.writes = live.writes
        /\ live'.config = live.config
        /\ live'.maintenance = live.maintenance
        /\ live'.up = live.up \ Services
        /\ live'.runs = live.runs
    BY DEF RecoverStop, IInv, Typed, PlaceInv, LiveSet, Start, Stop, HostInv
  <2>3. /\ At("recover")
        /\ UNCHANGED <<published, state, tx, host, backup, acked, budget>>
    BY DEF RecoverStop, durable
  <2>4. Typed'
    BY <2>1, <2>2, <2>3 DEF Typed, IInv, Moved
  <2>5. PlaceInv'
    BY <2>1, <2>2, <2>3 DEF IInv, PlaceInv, TagInv, HostInv, Moved
  <2>6. TagInv'
    BY <2>1, <2>2, <2>3 DEF IInv, PlaceInv, TagInv, HostInv, ApplyInv, RecoverInv, Typed,
       StateSet, TxSet, Moved
  <2>7. HostInv'
    BY <2>1, <2>2, <2>3 DEF IInv, PlaceInv, TagInv, HostInv, ApplyInv, RecoverInv,
       WritesInv, Typed, TxSet, Moved
  <2>8. ApplyInv'
    BY <2>1, <2>2, <2>3 DEF IInv, PlaceInv, TagInv, HostInv, ApplyInv, RecoverInv, Moved
  <2>9. RecoverInv'
    BY <2>1, <2>2, <2>3 DEF IInv, PlaceInv, TagInv, HostInv, ApplyInv, RecoverInv, Moved
  <2>10. InstalledInv'
    BY <2>1, <2>2, <2>3 DEF IInv, PlaceInv, TagInv, InstalledInv, Typed, StateSet, TxSet,
       HostSet, Moved
  <2>11. WritesInv'
    BY <2>1, <2>2, <2>3 DEF IInv, PlaceInv, TagInv, HostInv, ApplyInv, WritesInv, Typed,
       LiveSet, AckedSet, BackupSet, TxSet, Moved
  <2>12. AttemptsInv'
    BY <2>1, <2>2, <2>3 DEF IInv, PlaceInv, AttemptsInv, Typed, StateSet, BudgetSet, Moved
  <2> QED
    BY <2>4, <2>5, <2>6, <2>7, <2>8, <2>9, <2>10, <2>11, <2>12 DEF IInv
<1>2. CASE RecoverRelease
  <2>1. CASE At("recover_release")
    <3> USE <1>2, <2>1
    <3>1. Moved({"recover_env"})
      BY DEF RecoverRelease, IInv, Typed, ProcSet, Goto, Quit, NoProc, Moved
    <3>2. /\ host' \in HostSet
          /\ host'.current = tx.previous
          /\ host'.env = host.env
          /\ host'.main = host.main
          /\ host'.deps = host.deps
      BY DEF RecoverRelease, IInv, Typed, PlaceInv, HostSet, TxSet, HostInv
    <3>3. /\ At("recover_release")
          /\ UNCHANGED <<published, state, tx, backup, live, acked, budget>>
      BY DEF RecoverRelease, durable
    <3>4. WritesInv'
      BY <3>3 DEF IInv, WritesInv
    <3>5. Typed'
      BY <3>1, <3>2, <3>3 DEF Typed, IInv, Moved
    <3>6. PlaceInv'
      BY <3>1, <3>2, <3>3 DEF IInv, PlaceInv, TagInv, HostInv, Moved
    <3>7. TagInv'
      BY <3>1, <3>2, <3>3 DEF IInv, PlaceInv, TagInv, HostInv, ApplyInv, RecoverInv, Typed,
         StateSet, TxSet, Moved
    <3>8. HostInv'
      BY <3>1, <3>2, <3>3 DEF IInv, PlaceInv, TagInv, HostInv, ApplyInv, RecoverInv,
         WritesInv, Typed, TxSet, Moved
    <3>9. ApplyInv'
      BY <3>1, <3>2, <3>3 DEF IInv, PlaceInv, TagInv, HostInv, ApplyInv, RecoverInv, Moved
    <3>10. RecoverInv'
      BY <3>1, <3>2, <3>3 DEF IInv, PlaceInv, TagInv, HostInv, ApplyInv, RecoverInv, Moved
    <3>11. InstalledInv'
      BY <3>1, <3>2, <3>3 DEF IInv, PlaceInv, TagInv, InstalledInv, Typed, StateSet, TxSet,
         HostSet, Moved
    <3>12. AttemptsInv'
      BY <3>1, <3>2, <3>3 DEF IInv, PlaceInv, AttemptsInv, Typed, StateSet, BudgetSet, Moved
    <3> QED
      BY <3>4, <3>5, <3>6, <3>7, <3>8, <3>9, <3>10, <3>11, <3>12 DEF IInv
  <2>2. CASE At("recover_env")
    <3> USE <1>2, <2>2
    <3>1. Moved({"recover_drop"})
      BY DEF RecoverRelease, IInv, Typed, ProcSet, Goto, Quit, NoProc, Moved
    <3>2. /\ host' \in HostSet
          /\ host'.current = host.current
          /\ ~budget.torn => host'.env = tx.previous
          /\ host'.main = host.main
          /\ host'.deps = host.deps
      <4>1. /\ host \in HostSet /\ tx.tag \in Tags /\ backup \in BackupSet
            /\ backup[tx.tag].complete
            /\ ~budget.torn => backup[tx.tag].env = tx.previous
        BY DEF IInv, Typed, PlaceInv, TxSet, HostInv
      <4>2. backup[tx.tag].env \in MaybeRelease
        BY <4>1, CheckpointType
      <4>3. host' = [host EXCEPT !.env = backup[tx.tag].env]
        BY DEF RecoverRelease
      <4> QED
        BY <4>1, <4>2, <4>3 DEF HostSet
    <3>3. /\ At("recover_env")
          /\ UNCHANGED <<published, state, tx, backup, live, acked, budget>>
      BY DEF RecoverRelease, durable
    <3>4. WritesInv'
      BY <3>3 DEF IInv, WritesInv
    <3>5. Typed'
      BY <3>1, <3>2, <3>3 DEF Typed, IInv, Moved
    <3>6. PlaceInv'
      BY <3>1, <3>2, <3>3 DEF IInv, PlaceInv, TagInv, HostInv, Moved
    <3>7. TagInv'
      BY <3>1, <3>2, <3>3 DEF IInv, PlaceInv, TagInv, HostInv, ApplyInv, RecoverInv, Typed,
         StateSet, TxSet, Moved
    <3>8. HostInv'
      BY <3>1, <3>2, <3>3 DEF IInv, PlaceInv, TagInv, HostInv, ApplyInv, RecoverInv,
         WritesInv, Typed, TxSet, Moved
    <3>9. ApplyInv'
      BY <3>1, <3>2, <3>3 DEF IInv, PlaceInv, TagInv, HostInv, ApplyInv, RecoverInv, Moved
    <3>10. RecoverInv'
      BY <3>1, <3>2, <3>3 DEF IInv, PlaceInv, TagInv, HostInv, ApplyInv, RecoverInv, Moved
    <3>11. InstalledInv'
      BY <3>1, <3>2, <3>3 DEF IInv, PlaceInv, TagInv, InstalledInv, Typed, StateSet, TxSet,
         HostSet, Moved
    <3>12. AttemptsInv'
      BY <3>1, <3>2, <3>3 DEF IInv, PlaceInv, AttemptsInv, Typed, StateSet, BudgetSet, Moved
    <3> QED
      BY <3>4, <3>5, <3>6, <3>7, <3>8, <3>9, <3>10, <3>11, <3>12 DEF IInv
  <2> QED
    BY <1>2, <2>1, <2>2 DEF RecoverRelease
<1>3. CASE RecoverDatabase
  <2>1. CASE At("recover_drop")
    <3> USE <1>3, <2>1
    <3>1. Moved({"recover_load"})
      BY DEF RecoverDatabase, IInv, Typed, ProcSet, Goto, Quit, NoProc, Moved
    <3>2. /\ live' \in LiveSet
          /\ live'.schema = NoRelease
          /\ live'.writes = 0
          /\ live'.config = live.config
          /\ live'.maintenance = live.maintenance
          /\ live'.up = live.up
          /\ live'.runs = live.runs
      <4>1. live \in LiveSet /\ NoRelease \in MaybeRelease /\ 0 \in 0..MaxWrites
        BY DEF IInv, Typed, PlaceInv, HostInv, TxSet, BackupSet, HostSet
      <4>2. live' = [live EXCEPT !.schema = NoRelease, !.writes = 0]
        BY DEF RecoverDatabase, IInv, PlaceInv, HostInv
      <4> QED
        BY <4>1, <4>2 DEF LiveSet
    <3>3. /\ At("recover_drop")
          /\ UNCHANGED <<published, state, tx, host, backup, acked, budget>>
      BY DEF RecoverDatabase, durable
    <3>4. Typed'
      BY <3>1, <3>2, <3>3 DEF Typed, IInv, Moved
    <3>5. PlaceInv'
      BY <3>1, <3>2, <3>3 DEF IInv, PlaceInv, TagInv, HostInv, Moved
    <3>6. TagInv'
      BY <3>1, <3>2, <3>3 DEF IInv, PlaceInv, TagInv, HostInv, ApplyInv, RecoverInv, Typed,
         StateSet, TxSet, Moved
    <3>7. HostInv'
      BY <3>1, <3>2, <3>3 DEF IInv, PlaceInv, TagInv, HostInv, ApplyInv, RecoverInv,
         WritesInv, Typed, TxSet, Moved
    <3>8. ApplyInv'
      BY <3>1, <3>2, <3>3 DEF IInv, PlaceInv, TagInv, HostInv, ApplyInv, RecoverInv, Moved
    <3>9. RecoverInv'
      BY <3>1, <3>2, <3>3 DEF IInv, PlaceInv, TagInv, HostInv, ApplyInv, RecoverInv, Moved
    <3>10. InstalledInv'
      BY <3>1, <3>2, <3>3 DEF IInv, PlaceInv, TagInv, InstalledInv, Typed, StateSet, TxSet,
         HostSet, Moved
    <3>11. WritesInv'
      BY <3>1, <3>2, <3>3 DEF IInv, PlaceInv, TagInv, HostInv, ApplyInv, WritesInv, Typed,
         LiveSet, AckedSet, BackupSet, TxSet, Moved
    <3>12. AttemptsInv'
      BY <3>1, <3>2, <3>3 DEF IInv, PlaceInv, AttemptsInv, Typed, StateSet, BudgetSet, Moved
    <3> QED
      BY <3>4, <3>5, <3>6, <3>7, <3>8, <3>9, <3>10, <3>11, <3>12 DEF IInv
  <2>2. CASE At("recover_load")
    <3> USE <1>3, <2>2
    <3>1. Moved({"recover_wipe"})
      BY DEF RecoverDatabase, IInv, Typed, ProcSet, Goto, Quit, NoProc, Moved
    <3>2. /\ live' \in LiveSet
          /\ ~budget.torn => live'.schema = tx.previous
          /\ live'.writes = backup[tx.tag].writes
          /\ live'.config = live.config
          /\ live'.maintenance = live.maintenance
          /\ live'.up = live.up
          /\ live'.runs = live.runs
      <4>1. /\ live \in LiveSet /\ tx.tag \in Tags /\ backup \in BackupSet
        BY DEF IInv, Typed, PlaceInv, TxSet
      <4>2. /\ backup[tx.tag].complete
            /\ ~budget.torn => backup[tx.tag].schema = tx.previous
        BY DEF IInv, PlaceInv, HostInv
      <4>3. backup[tx.tag] \in Checkpoint
        BY <4>1, <4>2, CheckpointType
      <4>4. live' = [live EXCEPT !.schema = backup[tx.tag].schema,
                                 !.writes = backup[tx.tag].writes]
        BY DEF RecoverDatabase
      <4> QED
        BY <4>1, <4>2, <4>3, <4>4 DEF LiveSet
    <3>3. /\ At("recover_load")
          /\ UNCHANGED <<published, state, tx, host, backup, acked, budget>>
      BY DEF RecoverDatabase, durable
    <3>4. Typed'
      BY <3>1, <3>2, <3>3 DEF Typed, IInv, Moved
    <3>5. PlaceInv'
      BY <3>1, <3>2, <3>3 DEF IInv, PlaceInv, TagInv, HostInv, Moved
    <3>6. TagInv'
      BY <3>1, <3>2, <3>3 DEF IInv, PlaceInv, TagInv, HostInv, ApplyInv, RecoverInv, Typed,
         StateSet, TxSet, Moved
    <3>7. HostInv'
      BY <3>1, <3>2, <3>3 DEF IInv, PlaceInv, TagInv, HostInv, ApplyInv, RecoverInv,
         WritesInv, Typed, TxSet, Moved
    <3>8. ApplyInv'
      BY <3>1, <3>2, <3>3 DEF IInv, PlaceInv, TagInv, HostInv, ApplyInv, RecoverInv, Moved
    <3>9. RecoverInv'
      BY <3>1, <3>2, <3>3 DEF IInv, PlaceInv, TagInv, HostInv, ApplyInv, RecoverInv, Moved
    <3>10. InstalledInv'
      BY <3>1, <3>2, <3>3 DEF IInv, PlaceInv, TagInv, InstalledInv, Typed, StateSet, TxSet,
         HostSet, Moved
    <3>11. WritesInv'
      BY <3>1, <3>2, <3>3 DEF IInv, PlaceInv, TagInv, HostInv, ApplyInv, WritesInv, Typed,
         LiveSet, AckedSet, BackupSet, TxSet, Moved
    <3>12. AttemptsInv'
      BY <3>1, <3>2, <3>3 DEF IInv, PlaceInv, AttemptsInv, Typed, StateSet, BudgetSet, Moved
    <3> QED
      BY <3>4, <3>5, <3>6, <3>7, <3>8, <3>9, <3>10, <3>11, <3>12 DEF IInv
  <2> QED
    BY <1>3, <2>1, <2>2 DEF RecoverDatabase
<1>4. CASE RecoverConfig
  <2>1. CASE At("recover_wipe")
    <3> USE <1>4, <2>1
    <3>1. Moved({"recover_unpack"})
      BY DEF RecoverConfig, IInv, Typed, ProcSet, Goto, Quit, NoProc, Moved
    <3>2. /\ live' \in LiveSet
          /\ live'.schema = live.schema
          /\ live'.writes = live.writes
          /\ live'.config = NoRelease
          /\ live'.maintenance = live.maintenance
          /\ live'.up = live.up
          /\ live'.runs = live.runs
      <4>1. live \in LiveSet /\ NoRelease \in MaybeRelease
        BY DEF IInv, Typed, PlaceInv, HostInv, TxSet, BackupSet, HostSet
      <4>2. live' = [live EXCEPT !.config = NoRelease]
        BY DEF RecoverConfig, IInv, PlaceInv, HostInv
      <4> QED
        BY <4>1, <4>2 DEF LiveSet
    <3>3. /\ At("recover_wipe")
          /\ UNCHANGED <<published, state, tx, host, backup, acked, budget>>
      BY DEF RecoverConfig, durable
    <3>4. Typed'
      BY <3>1, <3>2, <3>3 DEF Typed, IInv, Moved
    <3>5. PlaceInv'
      BY <3>1, <3>2, <3>3 DEF IInv, PlaceInv, TagInv, HostInv, Moved
    <3>6. TagInv'
      BY <3>1, <3>2, <3>3 DEF IInv, PlaceInv, TagInv, HostInv, ApplyInv, RecoverInv, Typed,
         StateSet, TxSet, Moved
    <3>7. HostInv'
      BY <3>1, <3>2, <3>3 DEF IInv, PlaceInv, TagInv, HostInv, ApplyInv, RecoverInv,
         WritesInv, Typed, TxSet, Moved
    <3>8. ApplyInv'
      BY <3>1, <3>2, <3>3 DEF IInv, PlaceInv, TagInv, HostInv, ApplyInv, RecoverInv, Moved
    <3>9. RecoverInv'
      BY <3>1, <3>2, <3>3 DEF IInv, PlaceInv, TagInv, HostInv, ApplyInv, RecoverInv, Moved
    <3>10. InstalledInv'
      BY <3>1, <3>2, <3>3 DEF IInv, PlaceInv, TagInv, InstalledInv, Typed, StateSet, TxSet,
         HostSet, Moved
    <3>11. WritesInv'
      BY <3>1, <3>2, <3>3 DEF IInv, PlaceInv, TagInv, HostInv, ApplyInv, WritesInv, Typed,
         LiveSet, AckedSet, BackupSet, TxSet, Moved
    <3>12. AttemptsInv'
      BY <3>1, <3>2, <3>3 DEF IInv, PlaceInv, AttemptsInv, Typed, StateSet, BudgetSet, Moved
    <3> QED
      BY <3>4, <3>5, <3>6, <3>7, <3>8, <3>9, <3>10, <3>11, <3>12 DEF IInv
  <2>2. CASE At("recover_unpack")
    <3> USE <1>4, <2>2
    <3>1. Moved({"recover_app"})
      BY DEF RecoverConfig, IInv, Typed, ProcSet, Goto, Quit, NoProc, Moved
    <3>2. /\ live' \in LiveSet
          /\ live'.schema = live.schema
          /\ live'.writes = live.writes
          /\ ~budget.torn => live'.config = tx.previous
          /\ live'.maintenance = TRUE
          /\ live'.up = live.up
          /\ live'.runs = live.runs
      <4>1. /\ live \in LiveSet /\ tx.tag \in Tags /\ backup \in BackupSet
            /\ backup[tx.tag].complete
            /\ ~budget.torn => backup[tx.tag].config = tx.previous
        BY DEF IInv, Typed, PlaceInv, TxSet, HostInv
      <4>2. backup[tx.tag].config \in MaybeRelease
        BY <4>1, CheckpointType
      <4>3. live' = [live EXCEPT !.config = backup[tx.tag].config, !.maintenance = TRUE]
        BY DEF RecoverConfig
      <4> QED
        BY <4>1, <4>2, <4>3 DEF LiveSet
    <3>3. /\ At("recover_unpack")
          /\ UNCHANGED <<published, state, tx, host, backup, acked, budget>>
      BY DEF RecoverConfig, durable
    <3>4. Typed'
      BY <3>1, <3>2, <3>3 DEF Typed, IInv, Moved
    <3>5. PlaceInv'
      BY <3>1, <3>2, <3>3 DEF IInv, PlaceInv, TagInv, HostInv, Moved
    <3>6. TagInv'
      BY <3>1, <3>2, <3>3 DEF IInv, PlaceInv, TagInv, HostInv, ApplyInv, RecoverInv, Typed,
         StateSet, TxSet, Moved
    <3>7. HostInv'
      BY <3>1, <3>2, <3>3 DEF IInv, PlaceInv, TagInv, HostInv, ApplyInv, RecoverInv,
         WritesInv, Typed, TxSet, Moved
    <3>8. ApplyInv'
      BY <3>1, <3>2, <3>3 DEF IInv, PlaceInv, TagInv, HostInv, ApplyInv, RecoverInv, Moved
    <3>9. RecoverInv'
      BY <3>1, <3>2, <3>3 DEF IInv, PlaceInv, TagInv, HostInv, ApplyInv, RecoverInv, Moved
    <3>10. InstalledInv'
      BY <3>1, <3>2, <3>3 DEF IInv, PlaceInv, TagInv, InstalledInv, Typed, StateSet, TxSet,
         HostSet, Moved
    <3>11. WritesInv'
      BY <3>1, <3>2, <3>3 DEF IInv, PlaceInv, TagInv, HostInv, ApplyInv, WritesInv, Typed,
         LiveSet, AckedSet, BackupSet, TxSet, Moved
    <3>12. AttemptsInv'
      BY <3>1, <3>2, <3>3 DEF IInv, PlaceInv, AttemptsInv, Typed, StateSet, BudgetSet, Moved
    <3> QED
      BY <3>4, <3>5, <3>6, <3>7, <3>8, <3>9, <3>10, <3>11, <3>12 DEF IInv
  <2> QED
    BY <1>4, <2>1, <2>2 DEF RecoverConfig
<1>5. CASE RecoverApp
  <2>1. CASE At("recover_app")
    <3> USE <1>5, <2>1
    <3>1. Moved({"recover_maintenance"})
      BY DEF RecoverApp, IInv, Typed, ProcSet, Goto, Quit, NoProc, Moved
    <3>2. /\ live' \in LiveSet
          /\ live'.schema = live.schema
          /\ live'.writes = live.writes
          /\ live'.config = live.config
          /\ live'.maintenance = live.maintenance
          /\ live'.up = {"app"}
          /\ ~budget.torn => live'.runs = tx.previous
      <4>1. live \in LiveSet /\ {"app"} \in SUBSET Services /\ host.current \in MaybeRelease
        BY DEF IInv, Typed, HostSet
      <4>2. live' = [live EXCEPT !.up = {"app"}, !.runs = host.current]
        BY DEF RecoverApp
      <4>3. ~budget.torn => host.current = tx.previous
        BY DEF IInv, RecoverInv
      <4> QED
        BY <4>1, <4>2, <4>3 DEF LiveSet
    <3>3. /\ At("recover_app")
          /\ UNCHANGED <<published, state, tx, host, backup, acked, budget>>
      BY DEF RecoverApp, durable
    <3>4. Typed'
      BY <3>1, <3>2, <3>3 DEF Typed, IInv, Moved
    <3>5. PlaceInv'
      BY <3>1, <3>2, <3>3 DEF IInv, PlaceInv, TagInv, HostInv, Moved
    <3>6. TagInv'
      BY <3>1, <3>2, <3>3 DEF IInv, PlaceInv, TagInv, HostInv, ApplyInv, RecoverInv, Typed,
         StateSet, TxSet, Moved
    <3>7. HostInv'
      BY <3>1, <3>2, <3>3 DEF IInv, PlaceInv, TagInv, HostInv, ApplyInv, RecoverInv,
         WritesInv, Typed, TxSet, Moved
    <3>8. ApplyInv'
      BY <3>1, <3>2, <3>3 DEF IInv, PlaceInv, TagInv, HostInv, ApplyInv, RecoverInv, Moved
    <3>9. RecoverInv'
      BY <3>1, <3>2, <3>3 DEF IInv, PlaceInv, TagInv, HostInv, ApplyInv, RecoverInv, Moved
    <3>10. InstalledInv'
      BY <3>1, <3>2, <3>3 DEF IInv, PlaceInv, TagInv, InstalledInv, Typed, StateSet, TxSet,
         HostSet, Moved
    <3>11. WritesInv'
      BY <3>1, <3>2, <3>3 DEF IInv, PlaceInv, TagInv, HostInv, ApplyInv, WritesInv, Typed,
         LiveSet, AckedSet, BackupSet, TxSet, Moved
    <3>12. AttemptsInv'
      BY <3>1, <3>2, <3>3 DEF IInv, PlaceInv, AttemptsInv, Typed, StateSet, BudgetSet, Moved
    <3> QED
      BY <3>4, <3>5, <3>6, <3>7, <3>8, <3>9, <3>10, <3>11, <3>12 DEF IInv
  <2>2. CASE At("recover_maintenance")
    <3> USE <1>5, <2>2
    <3>1. Moved({"recover_open"})
      BY DEF RecoverApp, IInv, Typed, ProcSet, Goto, Quit, NoProc, Moved
    <3>2. /\ live' \in LiveSet
          /\ live'.schema = live.schema
          /\ live'.writes = live.writes
          /\ live'.config = live.config
          /\ live'.maintenance = FALSE
          /\ live'.up = live.up
          /\ live'.runs = live.runs
      <4>1. live \in LiveSet /\ FALSE \in BOOLEAN
        BY DEF IInv, Typed, PlaceInv, HostInv, TxSet, BackupSet, HostSet
      <4>2. live' = [live EXCEPT !.maintenance = FALSE]
        BY DEF RecoverApp, IInv, PlaceInv, RecoverInv
      <4> QED
        BY <4>1, <4>2 DEF LiveSet
    <3>3. /\ At("recover_maintenance")
          /\ UNCHANGED <<published, state, tx, host, backup, acked, budget>>
      BY DEF RecoverApp, durable
    <3>4. Typed'
      BY <3>1, <3>2, <3>3 DEF Typed, IInv, Moved
    <3>5. PlaceInv'
      BY <3>1, <3>2, <3>3 DEF IInv, PlaceInv, TagInv, HostInv, Moved
    <3>6. TagInv'
      BY <3>1, <3>2, <3>3 DEF IInv, PlaceInv, TagInv, HostInv, ApplyInv, RecoverInv, Typed,
         StateSet, TxSet, Moved
    <3>7. HostInv'
      BY <3>1, <3>2, <3>3 DEF IInv, PlaceInv, TagInv, HostInv, ApplyInv, RecoverInv,
         WritesInv, Typed, TxSet, Moved
    <3>8. ApplyInv'
      BY <3>1, <3>2, <3>3 DEF IInv, PlaceInv, TagInv, HostInv, ApplyInv, RecoverInv, Moved
    <3>9. RecoverInv'
      BY <3>1, <3>2, <3>3 DEF IInv, PlaceInv, TagInv, HostInv, ApplyInv, RecoverInv, Moved
    <3>10. InstalledInv'
      BY <3>1, <3>2, <3>3 DEF IInv, PlaceInv, TagInv, InstalledInv, Typed, StateSet, TxSet,
         HostSet, Moved
    <3>11. WritesInv'
      BY <3>1, <3>2, <3>3 DEF IInv, PlaceInv, TagInv, HostInv, ApplyInv, WritesInv, Typed,
         LiveSet, AckedSet, BackupSet, TxSet, Moved
    <3>12. AttemptsInv'
      BY <3>1, <3>2, <3>3 DEF IInv, PlaceInv, AttemptsInv, Typed, StateSet, BudgetSet, Moved
    <3> QED
      BY <3>4, <3>5, <3>6, <3>7, <3>8, <3>9, <3>10, <3>11, <3>12 DEF IInv
  <2> QED
    BY <1>5, <2>1, <2>2 DEF RecoverApp
<1>6. CASE RecoverOpen
  <2>1. CASE At("recover_open")
    <3> USE <1>6, <2>1
    <3>1. Moved({"recover_health"})
      BY DEF RecoverOpen, IInv, Typed, ProcSet, Goto, Quit, NoProc, Moved
    <3>2. /\ live' \in LiveSet
          /\ live'.schema = live.schema
          /\ live'.writes = live.writes
          /\ live'.config = live.config
          /\ live'.maintenance = live.maintenance
          /\ live'.up = live.up \cup {"workers", "proxy"}
          /\ live'.runs = live.runs
      BY DEF RecoverOpen, IInv, Typed, PlaceInv, LiveSet, Start, Stop, HostInv
    <3>3. /\ At("recover_open")
          /\ UNCHANGED <<published, state, tx, host, backup, acked, budget>>
      BY DEF RecoverOpen, durable
    <3>4. Typed'
      BY <3>1, <3>2, <3>3 DEF Typed, IInv, Moved
    <3>5. PlaceInv'
      BY <3>1, <3>2, <3>3 DEF IInv, PlaceInv, TagInv, HostInv, Moved
    <3>6. TagInv'
      BY <3>1, <3>2, <3>3 DEF IInv, PlaceInv, TagInv, HostInv, ApplyInv, RecoverInv, Typed,
         StateSet, TxSet, Moved
    <3>7. HostInv'
      BY <3>1, <3>2, <3>3 DEF IInv, PlaceInv, TagInv, HostInv, ApplyInv, RecoverInv,
         WritesInv, Typed, TxSet, Moved
    <3>8. ApplyInv'
      BY <3>1, <3>2, <3>3 DEF IInv, PlaceInv, TagInv, HostInv, ApplyInv, RecoverInv, Moved
    <3>9. RecoverInv'
      BY <3>1, <3>2, <3>3 DEF IInv, PlaceInv, TagInv, HostInv, ApplyInv, RecoverInv, Moved
    <3>10. InstalledInv'
      BY <3>1, <3>2, <3>3 DEF IInv, PlaceInv, TagInv, InstalledInv, Typed, StateSet, TxSet,
         HostSet, Moved
    <3>11. WritesInv'
      BY <3>1, <3>2, <3>3 DEF IInv, PlaceInv, TagInv, HostInv, ApplyInv, WritesInv, Typed,
         LiveSet, AckedSet, BackupSet, TxSet, Moved
    <3>12. AttemptsInv'
      BY <3>1, <3>2, <3>3 DEF IInv, PlaceInv, AttemptsInv, Typed, StateSet, BudgetSet, Moved
    <3> QED
      BY <3>4, <3>5, <3>6, <3>7, <3>8, <3>9, <3>10, <3>11, <3>12 DEF IInv
  <2>2. CASE At("recover_health")
    <3> USE <1>6, <2>2
    <3>1. Moved({"restored"})
      BY DEF RecoverOpen, IInv, Typed, ProcSet, Goto, Quit, NoProc, Moved
    <3>2. /\ At("recover_health")
          /\ UNCHANGED <<published, state, tx, host, backup, live, acked, budget>>
      BY DEF RecoverOpen, durable
    <3>3. HostInv' /\ WritesInv'
      <4>1. WritesInv'
        BY <3>1, <3>2 DEF IInv, WritesInv
      <4>2. HostInv'
        BY <3>1, <3>2 DEF IInv, PlaceInv, HostInv, Moved
      <4> QED
        BY <4>1, <4>2
    <3>4. Typed'
      BY <3>1, <3>2 DEF Typed, IInv, Moved
    <3>5. PlaceInv'
      BY <3>1, <3>2 DEF IInv, PlaceInv, TagInv, HostInv, Moved
    <3>6. TagInv'
      BY <3>1, <3>2 DEF IInv, PlaceInv, TagInv, HostInv, ApplyInv, RecoverInv, Typed,
         StateSet, TxSet, Moved
    <3>7. ApplyInv'
      BY <3>1, <3>2 DEF IInv, PlaceInv, TagInv, HostInv, ApplyInv, RecoverInv, Moved
    <3>8. RecoverInv'
      BY <3>1, <3>2 DEF IInv, PlaceInv, TagInv, HostInv, ApplyInv, RecoverInv, Moved
    <3>9. InstalledInv'
      BY <3>1, <3>2 DEF IInv, PlaceInv, TagInv, InstalledInv, Typed, StateSet, TxSet,
         HostSet, Moved
    <3>10. AttemptsInv'
      BY <3>1, <3>2 DEF IInv, PlaceInv, AttemptsInv, Typed, StateSet, BudgetSet, Moved
    <3> QED
      BY <3>3, <3>4, <3>5, <3>6, <3>7, <3>8, <3>9, <3>10 DEF IInv
  <2> QED
    BY <1>6, <2>1, <2>2 DEF RecoverOpen
<1> QED
  BY <1>1, <1>2, <1>3, <1>4, <1>5, <1>6

LEMMA ChoosingInductive ==
  ASSUME IInv,
         Select \/ ResolveTag \/ ValidateRelease \/ SmallAssetFails \/ FetchAssets
         \/ RetryLater \/ Reject \/ Stage \/ UnstageFailed
  PROVE  IInv'
<1>1. CASE Select
  <2>1. CASE Quit
    <3> USE <1>1, <2>1
    <3>1. Moved({"idle"})
      BY DEF IInv, Typed, ProcSet, Goto, Quit, NoProc, Moved
    <3>2. /\ At("select")
          /\ UNCHANGED <<published, state, tx, host, backup, live, acked, budget>>
      BY DEF Select, durable
    <3>3. HostInv' /\ WritesInv'
      <4>1. WritesInv'
        BY <3>1, <3>2 DEF IInv, WritesInv
      <4>2. HostInv'
        BY <3>1, <3>2 DEF IInv, PlaceInv, HostInv, Moved
      <4> QED
        BY <4>1, <4>2
    <3>4. Typed'
      BY <3>1, <3>2 DEF Typed, IInv, Moved
    <3>5. PlaceInv'
      BY <3>1, <3>2 DEF IInv, PlaceInv, TagInv, HostInv, Moved
    <3>6. TagInv'
      BY <3>1, <3>2 DEF IInv, PlaceInv, TagInv, HostInv, ApplyInv, RecoverInv, Typed,
         StateSet, TxSet, Moved
    <3>7. ApplyInv'
      BY <3>1, <3>2 DEF IInv, PlaceInv, TagInv, HostInv, ApplyInv, RecoverInv, Moved
    <3>8. RecoverInv'
      BY <3>1, <3>2 DEF IInv, PlaceInv, TagInv, HostInv, ApplyInv, RecoverInv, Moved
    <3>9. InstalledInv'
      BY <3>1, <3>2 DEF IInv, PlaceInv, TagInv, InstalledInv, Typed, StateSet, TxSet,
         HostSet, Moved
    <3>10. AttemptsInv'
      BY <3>1, <3>2 DEF IInv, PlaceInv, AttemptsInv, Typed, StateSet, BudgetSet, Moved
    <3> QED
      BY <3>3, <3>4, <3>5, <3>6, <3>7, <3>8, <3>9, <3>10 DEF IInv
  <2>2. CASE ~Quit
    <3> USE <1>1, <2>2
    <3>1. Chosen
      <4>1. PICK t \in Candidates : proc' = [proc EXCEPT !.pc = "pin", !.tag = t]
        BY DEF Select
      <4>2. t \in Tags /\ state.seen[t] = "unseen" /\ t > state.success
        BY <4>1 DEF Candidates, IInv, Typed
      <4>3. proc'.pc = "pin" /\ proc'.tag = t /\ proc'.job = proc.job /\ proc' \in ProcSet
        <5>1. proc \in ProcSet
          BY DEF IInv, Typed
        <5>2. "pin" \in Places /\ t \in Releases
          BY <4>2
        <5> HIDE DEF Places, Releases, Tags
        <5> QED
          BY <5>1, <5>2, <4>1 DEF ProcSet
      <4> QED
        BY <4>2, <4>3 DEF Chosen
    <3>2. /\ At("select")
          /\ UNCHANGED <<published, state, tx, host, backup, live, acked, budget>>
      BY DEF Select, durable
    <3>3. HostInv' /\ WritesInv'
      <4>1. WritesInv'
        BY <3>1, <3>2 DEF IInv, WritesInv
      <4>2. HostInv'
        BY <3>1, <3>2 DEF IInv, PlaceInv, HostInv, Chosen
      <4> QED
        BY <4>1, <4>2
    <3>4. Typed'
      BY <3>1, <3>2 DEF Typed, IInv, Chosen
    <3>5. PlaceInv'
      BY <3>1, <3>2 DEF IInv, PlaceInv, TagInv, HostInv, Chosen
    <3>6. TagInv'
      BY <3>1, <3>2 DEF IInv, PlaceInv, TagInv, HostInv, ApplyInv, RecoverInv, Typed,
         StateSet, TxSet, Chosen
    <3>7. ApplyInv'
      BY <3>1, <3>2 DEF IInv, PlaceInv, TagInv, HostInv, ApplyInv, RecoverInv, Chosen
    <3>8. RecoverInv'
      BY <3>1, <3>2 DEF IInv, PlaceInv, TagInv, HostInv, ApplyInv, RecoverInv, Chosen
    <3>9. InstalledInv'
      BY <3>1, <3>2 DEF IInv, PlaceInv, TagInv, InstalledInv, Typed, StateSet, TxSet,
         HostSet, Chosen
    <3>10. AttemptsInv'
      BY <3>1, <3>2 DEF IInv, PlaceInv, AttemptsInv, Typed, StateSet, BudgetSet, Chosen
    <3> QED
      BY <3>3, <3>4, <3>5, <3>6, <3>7, <3>8, <3>9, <3>10 DEF IInv
  <2> QED
    BY <1>1, <2>1, <2>2 DEF Select
<1>2. CASE ResolveTag
  <2> USE <1>2
  <2>1. Moved({"validate", "reject"})
    BY DEF ResolveTag, IInv, Typed, ProcSet, Goto, Quit, NoProc, Moved
  <2>2. /\ At("pin")
        /\ UNCHANGED <<published, state, tx, host, backup, live, acked, budget>>
    BY DEF ResolveTag, durable
  <2>3. HostInv' /\ WritesInv'
    <3>1. WritesInv'
      BY <2>1, <2>2 DEF IInv, WritesInv
    <3>2. HostInv'
      BY <2>1, <2>2 DEF IInv, PlaceInv, HostInv, Moved
    <3> QED
      BY <3>1, <3>2
  <2>4. Typed'
    BY <2>1, <2>2 DEF Typed, IInv, Moved
  <2>5. PlaceInv'
    BY <2>1, <2>2 DEF IInv, PlaceInv, TagInv, HostInv, Moved
  <2>6. TagInv'
    BY <2>1, <2>2 DEF IInv, PlaceInv, TagInv, HostInv, ApplyInv, RecoverInv, Typed,
       StateSet, TxSet, Moved
  <2>7. ApplyInv'
    BY <2>1, <2>2 DEF IInv, PlaceInv, TagInv, HostInv, ApplyInv, RecoverInv, Moved
  <2>8. RecoverInv'
    BY <2>1, <2>2 DEF IInv, PlaceInv, TagInv, HostInv, ApplyInv, RecoverInv, Moved
  <2>9. InstalledInv'
    BY <2>1, <2>2 DEF IInv, PlaceInv, TagInv, InstalledInv, Typed, StateSet, TxSet, HostSet,
       Moved
  <2>10. AttemptsInv'
    BY <2>1, <2>2 DEF IInv, PlaceInv, AttemptsInv, Typed, StateSet, BudgetSet, Moved
  <2> QED
    BY <2>3, <2>4, <2>5, <2>6, <2>7, <2>8, <2>9, <2>10 DEF IInv
<1>3. CASE ValidateRelease
  <2> USE <1>3
  <2>1. Moved({"assets", "reject"})
    BY DEF ValidateRelease, IInv, Typed, ProcSet, Goto, Quit, NoProc, Moved
  <2>2. /\ At("validate")
        /\ UNCHANGED <<published, state, tx, host, backup, live, acked, budget>>
    BY DEF ValidateRelease, durable
  <2>3. HostInv' /\ WritesInv'
    <3>1. WritesInv'
      BY <2>1, <2>2 DEF IInv, WritesInv
    <3>2. HostInv'
      BY <2>1, <2>2 DEF IInv, PlaceInv, HostInv, Moved
    <3> QED
      BY <3>1, <3>2
  <2>4. Typed'
    BY <2>1, <2>2 DEF Typed, IInv, Moved
  <2>5. PlaceInv'
    BY <2>1, <2>2 DEF IInv, PlaceInv, TagInv, HostInv, Moved
  <2>6. TagInv'
    BY <2>1, <2>2 DEF IInv, PlaceInv, TagInv, HostInv, ApplyInv, RecoverInv, Typed,
       StateSet, TxSet, Moved
  <2>7. ApplyInv'
    BY <2>1, <2>2 DEF IInv, PlaceInv, TagInv, HostInv, ApplyInv, RecoverInv, Moved
  <2>8. RecoverInv'
    BY <2>1, <2>2 DEF IInv, PlaceInv, TagInv, HostInv, ApplyInv, RecoverInv, Moved
  <2>9. InstalledInv'
    BY <2>1, <2>2 DEF IInv, PlaceInv, TagInv, InstalledInv, Typed, StateSet, TxSet, HostSet,
       Moved
  <2>10. AttemptsInv'
    BY <2>1, <2>2 DEF IInv, PlaceInv, AttemptsInv, Typed, StateSet, BudgetSet, Moved
  <2> QED
    BY <2>3, <2>4, <2>5, <2>6, <2>7, <2>8, <2>9, <2>10 DEF IInv
<1>4. CASE SmallAssetFails
  <2> USE <1>4
  <2>1. Moved({"retry_later"})
    BY DEF SmallAssetFails, IInv, Typed, ProcSet, Goto, Quit, NoProc, Moved
  <2>2. /\ At("validate")
        /\ UNCHANGED <<published, state, tx, host, backup, live, acked, budget>>
    BY DEF SmallAssetFails, durable
  <2>3. HostInv' /\ WritesInv'
    <3>1. WritesInv'
      BY <2>1, <2>2 DEF IInv, WritesInv
    <3>2. HostInv'
      BY <2>1, <2>2 DEF IInv, PlaceInv, HostInv, Moved
    <3> QED
      BY <3>1, <3>2
  <2>4. Typed'
    BY <2>1, <2>2 DEF Typed, IInv, Moved
  <2>5. PlaceInv'
    BY <2>1, <2>2 DEF IInv, PlaceInv, TagInv, HostInv, Moved
  <2>6. TagInv'
    BY <2>1, <2>2 DEF IInv, PlaceInv, TagInv, HostInv, ApplyInv, RecoverInv, Typed,
       StateSet, TxSet, Moved
  <2>7. ApplyInv'
    BY <2>1, <2>2 DEF IInv, PlaceInv, TagInv, HostInv, ApplyInv, RecoverInv, Moved
  <2>8. RecoverInv'
    BY <2>1, <2>2 DEF IInv, PlaceInv, TagInv, HostInv, ApplyInv, RecoverInv, Moved
  <2>9. InstalledInv'
    BY <2>1, <2>2 DEF IInv, PlaceInv, TagInv, InstalledInv, Typed, StateSet, TxSet, HostSet,
       Moved
  <2>10. AttemptsInv'
    BY <2>1, <2>2 DEF IInv, PlaceInv, AttemptsInv, Typed, StateSet, BudgetSet, Moved
  <2> QED
    BY <2>3, <2>4, <2>5, <2>6, <2>7, <2>8, <2>9, <2>10 DEF IInv
<1>5. CASE FetchAssets
  <2> USE <1>5
  <2>1. Moved({"stage", "reject", "retry_later"})
    BY DEF FetchAssets, IInv, Typed, ProcSet, Goto, Quit, NoProc, Moved
  <2>2. /\ At("assets")
        /\ UNCHANGED <<published, state, tx, host, backup, live, acked, budget>>
    BY DEF FetchAssets, durable
  <2>3. HostInv' /\ WritesInv'
    <3>1. WritesInv'
      BY <2>1, <2>2 DEF IInv, WritesInv
    <3>2. HostInv'
      BY <2>1, <2>2 DEF IInv, PlaceInv, HostInv, Moved
    <3> QED
      BY <3>1, <3>2
  <2>4. Typed'
    BY <2>1, <2>2 DEF Typed, IInv, Moved
  <2>5. PlaceInv'
    BY <2>1, <2>2 DEF IInv, PlaceInv, TagInv, HostInv, Moved
  <2>6. TagInv'
    BY <2>1, <2>2 DEF IInv, PlaceInv, TagInv, HostInv, ApplyInv, RecoverInv, Typed,
       StateSet, TxSet, Moved
  <2>7. ApplyInv'
    BY <2>1, <2>2 DEF IInv, PlaceInv, TagInv, HostInv, ApplyInv, RecoverInv, Moved
  <2>8. RecoverInv'
    BY <2>1, <2>2 DEF IInv, PlaceInv, TagInv, HostInv, ApplyInv, RecoverInv, Moved
  <2>9. InstalledInv'
    BY <2>1, <2>2 DEF IInv, PlaceInv, TagInv, InstalledInv, Typed, StateSet, TxSet, HostSet,
       Moved
  <2>10. AttemptsInv'
    BY <2>1, <2>2 DEF IInv, PlaceInv, AttemptsInv, Typed, StateSet, BudgetSet, Moved
  <2> QED
    BY <2>3, <2>4, <2>5, <2>6, <2>7, <2>8, <2>9, <2>10 DEF IInv
<1>6. CASE RetryLater
  <2> USE <1>6
  <2>1. /\ Moved({"idle", "reject"})
        /\ (proc'.pc = "idle" <=> state.attempts[proc.tag] + 1 < MaxAttempts)
    BY DEF RetryLater, IInv, Typed, ProcSet, Goto, Quit, NoProc, Moved
  <2>2. Counted(proc.tag)
    BY CountEffect DEF RetryLater, IInv, Typed, PlaceInv, TxSet
  <2>3. /\ At("retry_later")
        /\ UNCHANGED <<published, tx, host, backup, live, acked, budget>>
    BY DEF RetryLater, durable
  <2>4. WritesInv'
    BY <2>3 DEF IInv, WritesInv
  <2>5. Typed'
    BY <2>1, <2>2, <2>3 DEF Typed, IInv, Moved, Counted
  <2>6. PlaceInv'
    BY <2>1, <2>2, <2>3 DEF IInv, PlaceInv, TagInv, HostInv, Moved, Counted
  <2>7. TagInv'
    BY <2>1, <2>2, <2>3 DEF IInv, PlaceInv, TagInv, HostInv, ApplyInv, RecoverInv, Typed,
       StateSet, TxSet, Moved, Counted
  <2>8. HostInv'
    BY <2>1, <2>2, <2>3 DEF IInv, PlaceInv, TagInv, HostInv, ApplyInv, RecoverInv,
       WritesInv, Typed, TxSet, Moved, Counted
  <2>9. ApplyInv'
    BY <2>1, <2>2, <2>3 DEF IInv, PlaceInv, TagInv, HostInv, ApplyInv, RecoverInv, Moved,
       Counted
  <2>10. RecoverInv'
    BY <2>1, <2>2, <2>3 DEF IInv, PlaceInv, TagInv, HostInv, ApplyInv, RecoverInv, Moved,
       Counted
  <2>11. InstalledInv'
    BY <2>1, <2>2, <2>3 DEF IInv, PlaceInv, TagInv, InstalledInv, Typed, StateSet, TxSet,
       HostSet, Moved, Counted
  <2>12. AttemptsInv'
    <3> SUFFICES ASSUME NEW t \in Tags
             PROVE  /\ state'.attempts[t] <= MaxAttempts + Used'
                    /\ state'.seen[t] = "unseen" /\ ~(At("reject")' /\ proc'.tag = t) =>
                         state'.attempts[t] <= MaxAttempts + Used' - 1
      BY DEF AttemptsInv
    <3>1. state.attempts[t] \in Nat /\ budget.left \in 0..MaxDisruptions /\ t \in Nat
      BY DEF IInv, Typed, StateSet, BudgetSet
    <3>2. state.seen[t] = "unseen" => state.attempts[t] <= MaxAttempts + Used - 1
      BY <2>1, <2>2, <2>3 DEF IInv, AttemptsInv
    <3>3. state.attempts[t] <= MaxAttempts + Used /\ Used' = Used /\ Used \in Nat
      BY <2>1, <2>2, <2>3, <3>1 DEF IInv, AttemptsInv
    <3>4. CASE t = proc.tag
      <4>1. state.seen[t] = "unseen"
        BY <2>1, <2>2, <2>3, <3>4 DEF IInv, PlaceInv
      <4>2. state'.attempts[t] = state.attempts[t] + 1
        BY <2>1, <2>2, <2>3, <3>4 DEF Counted
      <4>3. CASE proc'.pc = "idle"
        <5>1. state.attempts[t] + 1 < MaxAttempts
          BY <2>1, <2>2, <2>3, <4>3, <3>4
        <5> QED
          BY <3>1, <3>2, <3>3, <4>1, <4>2, <5>1
      <4>4. CASE proc'.pc = "reject"
        BY <2>1, <2>2, <2>3, <3>1, <3>2, <3>3, <3>4, <4>1, <4>2, <4>4 DEF Moved
      <4> QED
        BY <2>1, <2>2, <2>3, <4>3, <4>4 DEF Moved
    <3>5. CASE t # proc.tag
      BY <2>1, <2>2, <2>3, <3>1, <3>5 DEF IInv, AttemptsInv, Counted, Moved
    <3> QED
      BY <3>4, <3>5
  <2> QED
    BY <2>4, <2>5, <2>6, <2>7, <2>8, <2>9, <2>10, <2>11, <2>12 DEF IInv
<1>7. CASE Reject
  <2> USE <1>7
  <2>1. Moved({"idle"})
    BY DEF Reject, IInv, Typed, ProcSet, Goto, Quit, NoProc, Moved
  <2>2. Marked(proc.tag, "rejected")
    BY MarkEffect DEF Reject, IInv, Typed, PlaceInv, TxSet
  <2>3. /\ At("reject")
        /\ UNCHANGED <<published, tx, host, backup, live, acked, budget>>
    BY DEF Reject, durable
  <2>4. WritesInv'
    BY <2>3 DEF IInv, WritesInv
  <2>5. Typed'
    BY <2>1, <2>2, <2>3 DEF Typed, IInv, Moved, Marked
  <2>6. PlaceInv'
    BY <2>1, <2>2, <2>3 DEF IInv, PlaceInv, TagInv, HostInv, Moved, Marked
  <2>7. TagInv'
    BY <2>1, <2>2, <2>3 DEF IInv, PlaceInv, TagInv, HostInv, ApplyInv, RecoverInv, Typed,
       StateSet, TxSet, Moved, Marked
  <2>8. HostInv'
    BY <2>1, <2>2, <2>3 DEF IInv, PlaceInv, TagInv, HostInv, ApplyInv, RecoverInv,
       WritesInv, Typed, TxSet, Moved, Marked
  <2>9. ApplyInv'
    BY <2>1, <2>2, <2>3 DEF IInv, PlaceInv, TagInv, HostInv, ApplyInv, RecoverInv, Moved, Marked
  <2>10. RecoverInv'
    BY <2>1, <2>2, <2>3 DEF IInv, PlaceInv, TagInv, HostInv, ApplyInv, RecoverInv, Moved, Marked
  <2>11. InstalledInv'
    BY <2>1, <2>2, <2>3 DEF IInv, PlaceInv, TagInv, InstalledInv, Typed, StateSet, TxSet,
       HostSet, Moved, Marked
  <2>12. AttemptsInv'
    BY <2>1, <2>2, <2>3 DEF IInv, PlaceInv, AttemptsInv, Typed, StateSet, BudgetSet, Moved,
       Marked
  <2> QED
    BY <2>4, <2>5, <2>6, <2>7, <2>8, <2>9, <2>10, <2>11, <2>12 DEF IInv
<1>8. CASE Stage
  <2>1. CASE At("stage")
    <3> USE <1>8, <2>1
    <3>1. Moved({"import", "reject"})
      BY DEF Stage, IInv, Typed, ProcSet, Goto, Quit, NoProc, Moved
    <3>2. /\ host' \in HostSet
          /\ host'.current = host.current
          /\ host'.env = host.env
          /\ host'.main = host.main
          /\ host'.deps = host.deps
      BY DEF Stage, IInv, Typed, PlaceInv, HostSet
    <3>3. /\ At("stage")
          /\ UNCHANGED <<published, state, tx, backup, live, acked, budget>>
      BY DEF Stage, durable
    <3>4. WritesInv'
      BY <3>3 DEF IInv, WritesInv
    <3>5. Typed'
      BY <3>1, <3>2, <3>3 DEF Typed, IInv, Moved
    <3>6. PlaceInv'
      BY <3>1, <3>2, <3>3 DEF IInv, PlaceInv, TagInv, HostInv, Moved
    <3>7. TagInv'
      BY <3>1, <3>2, <3>3 DEF IInv, PlaceInv, TagInv, HostInv, ApplyInv, RecoverInv, Typed,
         StateSet, TxSet, Moved
    <3>8. HostInv'
      BY <3>1, <3>2, <3>3 DEF IInv, PlaceInv, TagInv, HostInv, ApplyInv, RecoverInv,
         WritesInv, Typed, TxSet, Moved
    <3>9. ApplyInv'
      BY <3>1, <3>2, <3>3 DEF IInv, PlaceInv, TagInv, HostInv, ApplyInv, RecoverInv, Moved
    <3>10. RecoverInv'
      BY <3>1, <3>2, <3>3 DEF IInv, PlaceInv, TagInv, HostInv, ApplyInv, RecoverInv, Moved
    <3>11. InstalledInv'
      BY <3>1, <3>2, <3>3 DEF IInv, PlaceInv, TagInv, InstalledInv, Typed, StateSet, TxSet,
         HostSet, Moved
    <3>12. AttemptsInv'
      BY <3>1, <3>2, <3>3 DEF IInv, PlaceInv, AttemptsInv, Typed, StateSet, BudgetSet, Moved
    <3> QED
      BY <3>4, <3>5, <3>6, <3>7, <3>8, <3>9, <3>10, <3>11, <3>12 DEF IInv
  <2>2. CASE At("import")
    <3> USE <1>8, <2>2
    <3>1. Moved({"open_tx"})
      BY DEF Stage, IInv, Typed, ProcSet, Goto, Quit, NoProc, Moved
    <3>2. /\ host' \in HostSet
          /\ host'.current = host.current
          /\ host'.env = host.env
          /\ host'.main = host.main
          /\ host'.deps = host.deps
      BY DEF Stage, IInv, Typed, PlaceInv, HostSet
    <3>3. /\ At("import")
          /\ UNCHANGED <<published, state, tx, backup, live, acked, budget>>
      BY DEF Stage, durable
    <3>4. WritesInv'
      BY <3>3 DEF IInv, WritesInv
    <3>5. Typed'
      BY <3>1, <3>2, <3>3 DEF Typed, IInv, Moved
    <3>6. PlaceInv'
      BY <3>1, <3>2, <3>3 DEF IInv, PlaceInv, TagInv, HostInv, Moved
    <3>7. TagInv'
      BY <3>1, <3>2, <3>3 DEF IInv, PlaceInv, TagInv, HostInv, ApplyInv, RecoverInv, Typed,
         StateSet, TxSet, Moved
    <3>8. HostInv'
      BY <3>1, <3>2, <3>3 DEF IInv, PlaceInv, TagInv, HostInv, ApplyInv, RecoverInv,
         WritesInv, Typed, TxSet, Moved
    <3>9. ApplyInv'
      BY <3>1, <3>2, <3>3 DEF IInv, PlaceInv, TagInv, HostInv, ApplyInv, RecoverInv, Moved
    <3>10. RecoverInv'
      BY <3>1, <3>2, <3>3 DEF IInv, PlaceInv, TagInv, HostInv, ApplyInv, RecoverInv, Moved
    <3>11. InstalledInv'
      BY <3>1, <3>2, <3>3 DEF IInv, PlaceInv, TagInv, InstalledInv, Typed, StateSet, TxSet,
         HostSet, Moved
    <3>12. AttemptsInv'
      BY <3>1, <3>2, <3>3 DEF IInv, PlaceInv, AttemptsInv, Typed, StateSet, BudgetSet, Moved
    <3> QED
      BY <3>4, <3>5, <3>6, <3>7, <3>8, <3>9, <3>10, <3>11, <3>12 DEF IInv
  <2> QED
    BY <1>8, <2>1, <2>2 DEF Stage
<1>9. CASE UnstageFailed
  <2> USE <1>9
  <2>1. Moved({"reject"})
    BY DEF UnstageFailed, IInv, Typed, ProcSet, Goto, Quit, NoProc, Moved
  <2>2. /\ host' \in HostSet
        /\ host'.current = host.current
        /\ host'.env = host.env
        /\ host'.main = host.main
        /\ host'.deps = host.deps
        /\ budget' \in BudgetSet
        /\ budget'.left = budget.left - 1 /\ budget'.torn = budget.torn
    BY DEF UnstageFailed, IInv, Typed, PlaceInv, HostSet, BudgetSet
  <2>3. /\ At("import")
        /\ UNCHANGED <<published, state, tx, backup, live, acked>>
    BY DEF UnstageFailed, durable
  <2>4. WritesInv'
    BY <2>2, <2>3 DEF IInv, WritesInv
  <2>5. Typed'
    BY <2>1, <2>2, <2>3 DEF Typed, IInv, Moved
  <2>6. PlaceInv'
    BY <2>1, <2>2, <2>3 DEF IInv, PlaceInv, TagInv, HostInv, Moved
  <2>7. TagInv'
    BY <2>1, <2>2, <2>3 DEF IInv, PlaceInv, TagInv, HostInv, ApplyInv, RecoverInv, Typed,
       StateSet, TxSet, Moved
  <2>8. HostInv'
    BY <2>1, <2>2, <2>3 DEF IInv, PlaceInv, TagInv, HostInv, ApplyInv, RecoverInv,
       WritesInv, Typed, TxSet, Moved
  <2>9. ApplyInv'
    BY <2>1, <2>2, <2>3 DEF IInv, PlaceInv, TagInv, HostInv, ApplyInv, RecoverInv, Moved
  <2>10. RecoverInv'
    BY <2>1, <2>2, <2>3 DEF IInv, PlaceInv, TagInv, HostInv, ApplyInv, RecoverInv, Moved
  <2>11. InstalledInv'
    BY <2>1, <2>2, <2>3 DEF IInv, PlaceInv, TagInv, InstalledInv, Typed, StateSet, TxSet,
       HostSet, Moved
  <2>12. AttemptsInv'
    <3> SUFFICES ASSUME NEW t \in Tags
             PROVE  /\ state'.attempts[t] <= MaxAttempts + Used'
                    /\ state'.seen[t] = "unseen" /\ ~(At("reject")' /\ proc'.tag = t) =>
                         state'.attempts[t] <= MaxAttempts + Used' - 1
      BY DEF AttemptsInv
    <3>1. state.attempts[t] \in Nat /\ budget.left \in 0..MaxDisruptions /\ t \in Nat
      BY DEF IInv, Typed, StateSet, BudgetSet
    <3> QED
      BY <2>1, <2>2, <2>3, <3>1 DEF IInv, AttemptsInv, Moved, BudgetSet
  <2> QED
    BY <2>4, <2>5, <2>6, <2>7, <2>8, <2>9, <2>10, <2>11, <2>12 DEF IInv
<1> QED
  BY <1>1, <1>2, <1>3, <1>4, <1>5, <1>6, <1>7, <1>8, <1>9

LEMMA ApplyingInductive ==
  ASSUME IInv,
         OpenTransaction \/ CheckRunningCore \/ Quiesce \/ Backup \/ Change
         \/ SwitchRelease \/ Recreate \/ Bootstrap \/ CommitTraffic \/ OpenTraffic
         \/ InstallUpdater \/ Succeed \/ UnlinkSuccess
  PROVE  IInv'
<1>1. CASE OpenTransaction
  <2>1. CASE At("open_tx")
    <3> USE <1>1, <2>1
    <3>1. Moved({"applying"})
      BY DEF OpenTransaction, IInv, Typed, ProcSet, Goto, Quit, NoProc, Moved
    <3>2. /\ tx' \in TxSet
          /\ tx' # NoTx
          /\ tx'.tag = proc.tag
          /\ tx'.previous = host.current
          /\ tx'.phase = "preparing"
      BY SMTT(30) DEF OpenTransaction, Typed, PlaceInv, TxSet, HostSet, IInv
    <3>3. /\ At("open_tx")
          /\ UNCHANGED <<published, state, host, backup, live, acked, budget>>
      BY DEF OpenTransaction, durable
    <3>4. Typed'
      BY <3>1, <3>2, <3>3 DEF Typed, IInv, Moved
    <3>5. PlaceInv'
      BY <3>1, <3>2, <3>3 DEF IInv, PlaceInv, TagInv, HostInv, Moved
    <3>6. TagInv'
      BY <3>1, <3>2, <3>3 DEF IInv, PlaceInv, TagInv, HostInv, ApplyInv, RecoverInv, Typed,
         StateSet, TxSet, Moved
    <3>7. HostInv'
      BY <3>1, <3>2, <3>3 DEF IInv, PlaceInv, TagInv, HostInv, ApplyInv, RecoverInv,
         WritesInv, Typed, TxSet, Moved
    <3>8. ApplyInv'
      BY <3>1, <3>2, <3>3 DEF IInv, PlaceInv, TagInv, HostInv, ApplyInv, RecoverInv, Moved
    <3>9. RecoverInv'
      BY <3>1, <3>2, <3>3 DEF IInv, PlaceInv, TagInv, HostInv, ApplyInv, RecoverInv, Moved
    <3>10. InstalledInv'
      BY <3>1, <3>2, <3>3 DEF IInv, PlaceInv, TagInv, InstalledInv, Typed, StateSet, TxSet,
         HostSet, Moved
    <3>11. WritesInv'
      BY <3>1, <3>2, <3>3 DEF IInv, PlaceInv, TagInv, HostInv, ApplyInv, WritesInv, Typed,
         LiveSet, AckedSet, BackupSet, TxSet, Moved
    <3>12. AttemptsInv'
      BY <3>1, <3>2, <3>3 DEF IInv, PlaceInv, AttemptsInv, Typed, StateSet, BudgetSet, Moved
    <3> QED
      BY <3>4, <3>5, <3>6, <3>7, <3>8, <3>9, <3>10, <3>11, <3>12 DEF IInv
  <2>2. CASE At("applying")
    <3> USE <1>1, <2>2
    <3>1. /\ Moved({"change", "core"})
          /\ (proc'.pc = "change" <=> tx.previous = NoRelease)
      BY DEF OpenTransaction, IInv, Typed, ProcSet, Goto, Quit, NoProc, Moved
    <3>2. Marked(tx.tag, "applying")
      BY MarkEffect DEF OpenTransaction, IInv, Typed, PlaceInv, TxSet
    <3>3. /\ At("applying")
          /\ UNCHANGED <<published, tx, host, backup, live, acked, budget>>
      BY DEF OpenTransaction, durable
    <3>4. WritesInv'
      BY <3>3 DEF IInv, WritesInv
    <3>5. Typed'
      BY <3>1, <3>2, <3>3 DEF Typed, IInv, Moved, Marked
    <3>6. PlaceInv'
      BY <3>1, <3>2, <3>3 DEF IInv, PlaceInv, TagInv, HostInv, Moved, Marked
    <3>7. TagInv'
      BY <3>1, <3>2, <3>3 DEF IInv, PlaceInv, TagInv, HostInv, ApplyInv, RecoverInv, Typed,
         StateSet, TxSet, Moved, Marked
    <3>8. HostInv'
      BY <3>1, <3>2, <3>3 DEF IInv, PlaceInv, TagInv, HostInv, ApplyInv, RecoverInv,
         WritesInv, Typed, TxSet, Moved, Marked
    <3>9. ApplyInv'
      BY <3>1, <3>2, <3>3 DEF IInv, PlaceInv, TagInv, HostInv, ApplyInv, RecoverInv, Moved,
         Marked
    <3>10. RecoverInv'
      BY <3>1, <3>2, <3>3 DEF IInv, PlaceInv, TagInv, HostInv, ApplyInv, RecoverInv, Moved,
         Marked
    <3>11. InstalledInv'
      BY <3>1, <3>2, <3>3 DEF IInv, PlaceInv, TagInv, InstalledInv, Typed, StateSet, TxSet,
         HostSet, Moved, Marked
    <3>12. AttemptsInv'
      BY <3>1, <3>2, <3>3 DEF IInv, PlaceInv, AttemptsInv, Typed, StateSet, BudgetSet,
         Moved, Marked
    <3> QED
      BY <3>4, <3>5, <3>6, <3>7, <3>8, <3>9, <3>10, <3>11, <3>12 DEF IInv
  <2> QED
    BY <1>1, <2>1, <2>2 DEF OpenTransaction
<1>2. CASE CheckRunningCore
  <2> USE <1>2
  <2>1. Moved({"failed", "maintenance"})
    BY DEF CheckRunningCore, IInv, Typed, ProcSet, Goto, Quit, NoProc, Moved
  <2>2. /\ At("core")
        /\ UNCHANGED <<published, state, tx, host, backup, live, acked, budget>>
    BY DEF CheckRunningCore, durable
  <2>3. HostInv' /\ WritesInv'
    <3>1. WritesInv'
      BY <2>1, <2>2 DEF IInv, WritesInv
    <3>2. HostInv'
      BY <2>1, <2>2 DEF IInv, PlaceInv, HostInv, Moved
    <3> QED
      BY <3>1, <3>2
  <2>4. Typed'
    BY <2>1, <2>2 DEF Typed, IInv, Moved
  <2>5. PlaceInv'
    BY <2>1, <2>2 DEF IInv, PlaceInv, TagInv, HostInv, Moved
  <2>6. TagInv'
    BY <2>1, <2>2 DEF IInv, PlaceInv, TagInv, HostInv, ApplyInv, RecoverInv, Typed,
       StateSet, TxSet, Moved
  <2>7. ApplyInv'
    BY <2>1, <2>2 DEF IInv, PlaceInv, TagInv, HostInv, ApplyInv, RecoverInv, Moved
  <2>8. RecoverInv'
    BY <2>1, <2>2 DEF IInv, PlaceInv, TagInv, HostInv, ApplyInv, RecoverInv, Moved
  <2>9. InstalledInv'
    BY <2>1, <2>2 DEF IInv, PlaceInv, TagInv, InstalledInv, Typed, StateSet, TxSet, HostSet,
       Moved
  <2>10. AttemptsInv'
    BY <2>1, <2>2 DEF IInv, PlaceInv, AttemptsInv, Typed, StateSet, BudgetSet, Moved
  <2> QED
    BY <2>3, <2>4, <2>5, <2>6, <2>7, <2>8, <2>9, <2>10 DEF IInv
<1>3. CASE Quiesce
  <2>1. CASE At("maintenance")
    <3> USE <1>3, <2>1
    <3>1. Moved({"fence"})
      BY DEF Quiesce, IInv, Typed, ProcSet, Goto, Quit, NoProc, Moved
    <3>2. /\ live' \in LiveSet
          /\ live'.schema = live.schema
          /\ live'.writes = live.writes
          /\ live'.config = live.config
          /\ live'.maintenance = TRUE
          /\ live'.up = live.up
          /\ live'.runs = live.runs
      BY DEF Quiesce, IInv, Typed, PlaceInv, LiveSet, Start, Stop
    <3>3. /\ At("maintenance")
          /\ UNCHANGED <<published, state, tx, host, backup, acked, budget>>
      BY DEF Quiesce, durable
    <3>4. Typed'
      BY <3>1, <3>2, <3>3 DEF Typed, IInv, Moved
    <3>5. PlaceInv'
      BY <3>1, <3>2, <3>3 DEF IInv, PlaceInv, TagInv, HostInv, Moved
    <3>6. TagInv'
      BY <3>1, <3>2, <3>3 DEF IInv, PlaceInv, TagInv, HostInv, ApplyInv, RecoverInv, Typed,
         StateSet, TxSet, Moved
    <3>7. HostInv'
      BY <3>1, <3>2, <3>3 DEF IInv, PlaceInv, TagInv, HostInv, ApplyInv, RecoverInv,
         WritesInv, Typed, TxSet, Moved
    <3>8. ApplyInv'
      BY <3>1, <3>2, <3>3 DEF IInv, PlaceInv, TagInv, HostInv, ApplyInv, RecoverInv, Moved
    <3>9. RecoverInv'
      BY <3>1, <3>2, <3>3 DEF IInv, PlaceInv, TagInv, HostInv, ApplyInv, RecoverInv, Moved
    <3>10. InstalledInv'
      BY <3>1, <3>2, <3>3 DEF IInv, PlaceInv, TagInv, InstalledInv, Typed, StateSet, TxSet,
         HostSet, Moved
    <3>11. WritesInv'
      BY <3>1, <3>2, <3>3 DEF IInv, PlaceInv, TagInv, HostInv, ApplyInv, WritesInv, Typed,
         LiveSet, AckedSet, BackupSet, TxSet, Moved
    <3>12. AttemptsInv'
      BY <3>1, <3>2, <3>3 DEF IInv, PlaceInv, AttemptsInv, Typed, StateSet, BudgetSet, Moved
    <3> QED
      BY <3>4, <3>5, <3>6, <3>7, <3>8, <3>9, <3>10, <3>11, <3>12 DEF IInv
  <2>2. CASE At("fence")
    <3> USE <1>3, <2>2
    <3>1. Moved({"drain"})
      BY DEF Quiesce, IInv, Typed, ProcSet, Goto, Quit, NoProc, Moved
    <3>2. /\ live' \in LiveSet
          /\ live'.schema = live.schema
          /\ live'.writes = live.writes
          /\ live'.config = live.config
          /\ live'.maintenance = live.maintenance
          /\ live'.up = live.up \ {"proxy"}
          /\ live'.runs = live.runs
      BY DEF Quiesce, IInv, Typed, PlaceInv, LiveSet, Start, Stop
    <3>3. /\ At("fence")
          /\ UNCHANGED <<published, state, tx, host, backup, acked, budget>>
      BY DEF Quiesce, durable
    <3>4. Typed'
      BY <3>1, <3>2, <3>3 DEF Typed, IInv, Moved
    <3>5. PlaceInv'
      BY <3>1, <3>2, <3>3 DEF IInv, PlaceInv, TagInv, HostInv, Moved
    <3>6. TagInv'
      BY <3>1, <3>2, <3>3 DEF IInv, PlaceInv, TagInv, HostInv, ApplyInv, RecoverInv, Typed,
         StateSet, TxSet, Moved
    <3>7. HostInv'
      BY <3>1, <3>2, <3>3 DEF IInv, PlaceInv, TagInv, HostInv, ApplyInv, RecoverInv,
         WritesInv, Typed, TxSet, Moved
    <3>8. ApplyInv'
      BY <3>1, <3>2, <3>3 DEF IInv, PlaceInv, TagInv, HostInv, ApplyInv, RecoverInv, Moved
    <3>9. RecoverInv'
      BY <3>1, <3>2, <3>3 DEF IInv, PlaceInv, TagInv, HostInv, ApplyInv, RecoverInv, Moved
    <3>10. InstalledInv'
      BY <3>1, <3>2, <3>3 DEF IInv, PlaceInv, TagInv, InstalledInv, Typed, StateSet, TxSet,
         HostSet, Moved
    <3>11. WritesInv'
      BY <3>1, <3>2, <3>3 DEF IInv, PlaceInv, TagInv, HostInv, ApplyInv, WritesInv, Typed,
         LiveSet, AckedSet, BackupSet, TxSet, Moved
    <3>12. AttemptsInv'
      BY <3>1, <3>2, <3>3 DEF IInv, PlaceInv, AttemptsInv, Typed, StateSet, BudgetSet, Moved
    <3> QED
      BY <3>4, <3>5, <3>6, <3>7, <3>8, <3>9, <3>10, <3>11, <3>12 DEF IInv
  <2>3. CASE At("drain")
    <3> USE <1>3, <2>3
    <3>1. Moved({"backup"})
      BY DEF Quiesce, IInv, Typed, ProcSet, Goto, Quit, NoProc, Moved
    <3>2. /\ live' \in LiveSet
          /\ live'.schema = live.schema
          /\ live'.writes = live.writes
          /\ live'.config = live.config
          /\ live'.maintenance = live.maintenance
          /\ live'.up = live.up \ {"app", "workers"}
          /\ live'.runs = live.runs
      BY DEF Quiesce, IInv, Typed, PlaceInv, LiveSet, Start, Stop
    <3>3. /\ At("drain")
          /\ UNCHANGED <<published, state, tx, host, backup, acked, budget>>
      BY DEF Quiesce, durable
    <3>4. Typed'
      BY <3>1, <3>2, <3>3 DEF Typed, IInv, Moved
    <3>5. PlaceInv'
      BY <3>1, <3>2, <3>3 DEF IInv, PlaceInv, TagInv, HostInv, Moved
    <3>6. TagInv'
      BY <3>1, <3>2, <3>3 DEF IInv, PlaceInv, TagInv, HostInv, ApplyInv, RecoverInv, Typed,
         StateSet, TxSet, Moved
    <3>7. HostInv'
      BY <3>1, <3>2, <3>3 DEF IInv, PlaceInv, TagInv, HostInv, ApplyInv, RecoverInv,
         WritesInv, Typed, TxSet, Moved
    <3>8. ApplyInv'
      BY <3>1, <3>2, <3>3 DEF IInv, PlaceInv, TagInv, HostInv, ApplyInv, RecoverInv, Moved
    <3>9. RecoverInv'
      BY <3>1, <3>2, <3>3 DEF IInv, PlaceInv, TagInv, HostInv, ApplyInv, RecoverInv, Moved
    <3>10. InstalledInv'
      BY <3>1, <3>2, <3>3 DEF IInv, PlaceInv, TagInv, InstalledInv, Typed, StateSet, TxSet,
         HostSet, Moved
    <3>11. WritesInv'
      BY <3>1, <3>2, <3>3 DEF IInv, PlaceInv, TagInv, HostInv, ApplyInv, WritesInv, Typed,
         LiveSet, AckedSet, BackupSet, TxSet, Moved
    <3>12. AttemptsInv'
      BY <3>1, <3>2, <3>3 DEF IInv, PlaceInv, AttemptsInv, Typed, StateSet, BudgetSet, Moved
    <3> QED
      BY <3>4, <3>5, <3>6, <3>7, <3>8, <3>9, <3>10, <3>11, <3>12 DEF IInv
  <2> QED
    BY <1>3, <2>1, <2>2, <2>3 DEF Quiesce
<1>4. CASE Backup
  <2> USE <1>4
  <2>1. Moved({"change"})
    BY DEF Backup, IInv, Typed, ProcSet, Goto, Quit, NoProc, Moved
  <2>2. /\ backup' \in BackupSet
        /\ backup'[tx.tag].complete
        /\ backup'[tx.tag].schema = live.schema
        /\ backup'[tx.tag].writes = live.writes
        /\ backup'[tx.tag].config = live.config
        /\ backup'[tx.tag].env = host.env
        /\ \A t \in Tags \ {tx.tag} : backup'[t] = backup[t]
    <3>1. /\ proc.tag = tx.tag /\ tx.tag \in Tags /\ backup \in BackupSet
          /\ live \in LiveSet /\ host \in HostSet
      BY DEF IInv, Typed, PlaceInv, TxSet, Backup
    <3> DEFINE c == [complete |-> TRUE, schema |-> live.schema, writes |-> live.writes,
                     config |-> live.config, env |-> host.env]
    <3>2. backup' = [backup EXCEPT ![tx.tag] = c]
      BY <3>1 DEF Backup
    <3>3. c \in Checkpoint
      BY <3>1 DEF LiveSet, HostSet
    <3> QED
      BY <3>1, <3>2, <3>3 DEF BackupSet
  <2>3. /\ At("backup")
        /\ UNCHANGED <<published, state, tx, host, live, acked, budget>>
    BY DEF Backup, durable
  <2>4. Typed'
    BY <2>1, <2>2, <2>3 DEF Typed, IInv, Moved
  <2>5. PlaceInv'
    BY <2>1, <2>2, <2>3 DEF IInv, PlaceInv, TagInv, HostInv, Moved
  <2>6. TagInv'
    <3>1. tx.phase = "preparing" /\ tx # NoTx /\ proc'.pc = "change"
      BY <2>1, <2>3 DEF IInv, PlaceInv, Moved
    <3>2. \A t \in Tags : backup'[t].complete => state'.seen[t] # "unseen" \/ (tx' # NoTx /\ t = tx'.tag)
      BY <2>2, <2>3, <3>1 DEF IInv, TagInv
    <3> QED
      BY <2>3, <3>1, <3>2 DEF IInv, TagInv
  <2>7. HostInv'
    BY <2>1, <2>2, <2>3 DEF IInv, PlaceInv, TagInv, HostInv, ApplyInv, RecoverInv,
       WritesInv, Typed, TxSet, Moved
  <2>8. ApplyInv'
    BY <2>1, <2>2, <2>3 DEF IInv, PlaceInv, TagInv, HostInv, ApplyInv, RecoverInv, Moved
  <2>9. RecoverInv'
    BY <2>1, <2>2, <2>3 DEF IInv, PlaceInv, TagInv, HostInv, ApplyInv, RecoverInv, Moved
  <2>10. InstalledInv'
    BY <2>1, <2>2, <2>3 DEF IInv, PlaceInv, TagInv, InstalledInv, Typed, StateSet, TxSet,
       HostSet, Moved
  <2>11. WritesInv'
    BY <2>1, <2>2, <2>3 DEF IInv, PlaceInv, TagInv, HostInv, ApplyInv, WritesInv, Typed,
       LiveSet, AckedSet, BackupSet, TxSet, Moved
  <2>12. AttemptsInv'
    BY <2>1, <2>2, <2>3 DEF IInv, PlaceInv, AttemptsInv, Typed, StateSet, BudgetSet, Moved
  <2> QED
    BY <2>4, <2>5, <2>6, <2>7, <2>8, <2>9, <2>10, <2>11, <2>12 DEF IInv
<1>5. CASE Change
  <2> USE <1>5
  <2>1. Moved({"switch"})
    BY DEF Change, IInv, Typed, ProcSet, Goto, Quit, NoProc, Moved
  <2>2. Phased("changing")
    BY PhaseEffect DEF Change, IInv, Typed, PlaceInv, TxSet
  <2>3. /\ At("change")
        /\ UNCHANGED <<published, state, host, backup, live, acked, budget>>
    BY DEF Change, durable
  <2>4. Typed'
    BY <2>1, <2>2, <2>3 DEF Typed, IInv, Moved, Phased
  <2>5. PlaceInv'
    BY <2>1, <2>2, <2>3 DEF IInv, PlaceInv, TagInv, HostInv, Moved, Phased
  <2>6. TagInv'
    BY <2>1, <2>2, <2>3 DEF IInv, PlaceInv, TagInv, HostInv, ApplyInv, RecoverInv, Typed,
       StateSet, TxSet, Moved, Phased
  <2>7. HostInv'
    BY <2>1, <2>2, <2>3 DEF IInv, PlaceInv, TagInv, HostInv, ApplyInv, RecoverInv,
       WritesInv, Typed, TxSet, Moved, Phased
  <2>8. ApplyInv'
    BY <2>1, <2>2, <2>3 DEF IInv, PlaceInv, TagInv, HostInv, ApplyInv, RecoverInv, Moved, Phased
  <2>9. RecoverInv'
    BY <2>1, <2>2, <2>3 DEF IInv, PlaceInv, TagInv, HostInv, ApplyInv, RecoverInv, Moved, Phased
  <2>10. InstalledInv'
    BY <2>1, <2>2, <2>3 DEF IInv, PlaceInv, TagInv, InstalledInv, Typed, StateSet, TxSet,
       HostSet, Moved, Phased
  <2>11. WritesInv'
    BY <2>1, <2>2, <2>3 DEF IInv, PlaceInv, TagInv, HostInv, ApplyInv, WritesInv, Typed,
       LiveSet, AckedSet, BackupSet, TxSet, Moved, Phased
  <2>12. AttemptsInv'
    BY <2>1, <2>2, <2>3 DEF IInv, PlaceInv, AttemptsInv, Typed, StateSet, BudgetSet, Moved,
       Phased
  <2> QED
    BY <2>4, <2>5, <2>6, <2>7, <2>8, <2>9, <2>10, <2>11, <2>12 DEF IInv
<1>6. CASE SwitchRelease
  <2>1. CASE At("switch")
    <3> USE <1>6, <2>1
    <3>1. Moved({"switch_env"})
      BY DEF SwitchRelease, IInv, Typed, ProcSet, Goto, Quit, NoProc, Moved
    <3>2. /\ host' \in HostSet
          /\ host'.current = tx.tag
          /\ host'.env = host.env
          /\ host'.main = host.main
          /\ host'.deps = host.deps
      BY DEF SwitchRelease, IInv, Typed, PlaceInv, HostSet, TxSet
    <3>3. /\ At("switch")
          /\ UNCHANGED <<published, state, tx, backup, live, acked, budget>>
      BY DEF SwitchRelease, durable
    <3>4. WritesInv'
      BY <3>3 DEF IInv, WritesInv
    <3>5. Typed'
      BY <3>1, <3>2, <3>3 DEF Typed, IInv, Moved
    <3>6. PlaceInv'
      BY <3>1, <3>2, <3>3 DEF IInv, PlaceInv, TagInv, HostInv, Moved, Typed, TxSet
    <3>7. TagInv'
      BY <3>1, <3>2, <3>3 DEF IInv, PlaceInv, TagInv, HostInv, ApplyInv, RecoverInv, Typed,
         StateSet, TxSet, Moved
    <3>8. HostInv'
      BY <3>1, <3>2, <3>3 DEF IInv, PlaceInv, TagInv, HostInv, ApplyInv, RecoverInv,
         WritesInv, Typed, TxSet, Moved
    <3>9. ApplyInv'
      BY <3>1, <3>2, <3>3 DEF IInv, PlaceInv, TagInv, HostInv, ApplyInv, RecoverInv, Moved
    <3>10. RecoverInv'
      BY <3>1, <3>2, <3>3 DEF IInv, PlaceInv, TagInv, HostInv, ApplyInv, RecoverInv, Moved
    <3>11. InstalledInv'
      BY <3>1, <3>2, <3>3 DEF IInv, PlaceInv, TagInv, InstalledInv, Typed, StateSet, TxSet,
         HostSet, Moved
    <3>12. AttemptsInv'
      BY <3>1, <3>2, <3>3 DEF IInv, PlaceInv, AttemptsInv, Typed, StateSet, BudgetSet, Moved
    <3> QED
      BY <3>4, <3>5, <3>6, <3>7, <3>8, <3>9, <3>10, <3>11, <3>12 DEF IInv
  <2>2. CASE At("switch_env")
    <3> USE <1>6, <2>2
    <3>1. /\ Moved({"bootstrap", "recreate"})
          /\ (proc'.pc = "bootstrap" <=> tx.previous = NoRelease)
      BY DEF SwitchRelease, IInv, Typed, ProcSet, Goto, Quit, NoProc, Moved
    <3>2. /\ host' \in HostSet
          /\ host'.current = host.current
          /\ host'.env = tx.tag
          /\ host'.main = host.main
          /\ host'.deps = host.deps
      BY DEF SwitchRelease, IInv, Typed, PlaceInv, HostSet, TxSet
    <3>3. /\ At("switch_env")
          /\ UNCHANGED <<published, state, tx, backup, live, acked, budget>>
      BY DEF SwitchRelease, durable
    <3>4. WritesInv'
      BY <3>3 DEF IInv, WritesInv
    <3>5. Typed'
      BY <3>1, <3>2, <3>3 DEF Typed, IInv, Moved
    <3>6. PlaceInv'
      BY <3>1, <3>2, <3>3 DEF IInv, PlaceInv, TagInv, HostInv, Moved
    <3>7. TagInv'
      BY <3>1, <3>2, <3>3 DEF IInv, PlaceInv, TagInv, HostInv, ApplyInv, RecoverInv, Typed,
         StateSet, TxSet, Moved
    <3>8. HostInv'
      BY <3>1, <3>2, <3>3 DEF IInv, PlaceInv, TagInv, HostInv, ApplyInv, RecoverInv,
         WritesInv, Typed, TxSet, Moved
    <3>9. ApplyInv'
      BY <3>1, <3>2, <3>3 DEF IInv, PlaceInv, TagInv, HostInv, ApplyInv, RecoverInv, Moved
    <3>10. RecoverInv'
      BY <3>1, <3>2, <3>3 DEF IInv, PlaceInv, TagInv, HostInv, ApplyInv, RecoverInv, Moved
    <3>11. InstalledInv'
      BY <3>1, <3>2, <3>3 DEF IInv, PlaceInv, TagInv, InstalledInv, Typed, StateSet, TxSet,
         HostSet, Moved
    <3>12. AttemptsInv'
      BY <3>1, <3>2, <3>3 DEF IInv, PlaceInv, AttemptsInv, Typed, StateSet, BudgetSet, Moved
    <3> QED
      BY <3>4, <3>5, <3>6, <3>7, <3>8, <3>9, <3>10, <3>11, <3>12 DEF IInv
  <2> QED
    BY <1>6, <2>1, <2>2 DEF SwitchRelease
<1>7. CASE Recreate
  <2> USE <1>7
  <2>1. Moved({"bootstrap"})
    BY DEF Recreate, IInv, Typed, ProcSet, Goto, Quit, NoProc, Moved
  <2>2. /\ live' \in LiveSet
        /\ live'.schema = live.schema
        /\ live'.writes = live.writes
        /\ live'.config = live.config
        /\ live'.maintenance = live.maintenance
        /\ live'.up = {"app"}
        /\ live'.runs = host.current
    <3>1. live \in LiveSet /\ {"app"} \in SUBSET Services /\ host.current \in MaybeRelease
      BY DEF IInv, Typed, PlaceInv, HostInv, TxSet, BackupSet, HostSet
    <3>2. live' = [live EXCEPT !.up = {"app"}, !.runs = host.current]
      BY DEF Recreate, IInv, PlaceInv
    <3> QED
      BY <3>1, <3>2 DEF LiveSet
  <2>3. /\ At("recreate")
        /\ UNCHANGED <<published, state, tx, host, backup, acked, budget>>
    BY DEF Recreate, durable
  <2>4. Typed'
    BY <2>1, <2>2, <2>3 DEF Typed, IInv, Moved
  <2>5. PlaceInv'
    BY <2>1, <2>2, <2>3 DEF IInv, PlaceInv, TagInv, HostInv, Moved
  <2>6. TagInv'
    BY <2>1, <2>2, <2>3 DEF IInv, PlaceInv, TagInv, HostInv, ApplyInv, RecoverInv, Typed,
       StateSet, TxSet, Moved
  <2>7. HostInv'
    BY <2>1, <2>2, <2>3 DEF IInv, PlaceInv, TagInv, HostInv, ApplyInv, RecoverInv,
       WritesInv, Typed, TxSet, Moved
  <2>8. ApplyInv'
    BY <2>1, <2>2, <2>3 DEF IInv, PlaceInv, TagInv, HostInv, ApplyInv, RecoverInv, Moved
  <2>9. RecoverInv'
    BY <2>1, <2>2, <2>3 DEF IInv, PlaceInv, TagInv, HostInv, ApplyInv, RecoverInv, Moved
  <2>10. InstalledInv'
    BY <2>1, <2>2, <2>3 DEF IInv, PlaceInv, TagInv, InstalledInv, Typed, StateSet, TxSet,
       HostSet, Moved
  <2>11. WritesInv'
    BY <2>1, <2>2, <2>3 DEF IInv, PlaceInv, TagInv, HostInv, ApplyInv, WritesInv, Typed,
       LiveSet, AckedSet, BackupSet, TxSet, Moved
  <2>12. AttemptsInv'
    BY <2>1, <2>2, <2>3 DEF IInv, PlaceInv, AttemptsInv, Typed, StateSet, BudgetSet, Moved
  <2> QED
    BY <2>4, <2>5, <2>6, <2>7, <2>8, <2>9, <2>10, <2>11, <2>12 DEF IInv
<1>8. CASE Bootstrap
  <2>1. CASE At("bootstrap")
    <3> USE <1>8, <2>1
    <3>1. Moved({"bootstrap_config"})
      BY DEF Bootstrap, IInv, Typed, ProcSet, Goto, Quit, NoProc, Moved
    <3>2. /\ live' \in LiveSet
          /\ live'.schema = tx.tag
          /\ live'.writes = live.writes
          /\ live'.config = live.config
          /\ live'.maintenance = live.maintenance
          /\ live'.up = {"app"}
          /\ ~budget.torn => live'.runs = tx.tag
      <4> DEFINE runs == IF live.runs = NoRelease THEN host.current ELSE live.runs
      <4>1. /\ live \in LiveSet /\ tx.tag \in MaybeRelease /\ {"app"} \in SUBSET Services
            /\ proc.tag = tx.tag
        BY DEF IInv, Typed, PlaceInv, TxSet
      <4>2. runs \in MaybeRelease
        BY <4>1 DEF IInv, Typed, LiveSet, HostSet
      <4>3. ~budget.torn => runs = tx.tag
        BY DEF IInv, PlaceInv, ApplyInv
      <4>4. live' = [live EXCEPT !.schema = tx.tag, !.up = {"app"}, !.runs = runs]
        BY <4>1 DEF Bootstrap
      <4> HIDE DEF runs
      <4> QED
        BY <4>1, <4>2, <4>3, <4>4 DEF LiveSet
    <3>3. /\ At("bootstrap")
          /\ UNCHANGED <<published, state, tx, host, backup, acked, budget>>
      BY DEF Bootstrap, durable
    <3>4. Typed'
      BY <3>1, <3>2, <3>3 DEF Typed, IInv, Moved
    <3>5. PlaceInv'
      BY <3>1, <3>2, <3>3 DEF IInv, PlaceInv, TagInv, HostInv, Moved
    <3>6. TagInv'
      BY <3>1, <3>2, <3>3 DEF IInv, PlaceInv, TagInv, HostInv, ApplyInv, RecoverInv, Typed,
         StateSet, TxSet, Moved
    <3>7. HostInv'
      BY <3>1, <3>2, <3>3 DEF IInv, PlaceInv, TagInv, HostInv, ApplyInv, RecoverInv,
         WritesInv, Typed, TxSet, Moved
    <3>8. ApplyInv'
      BY <3>1, <3>2, <3>3 DEF IInv, PlaceInv, TagInv, HostInv, ApplyInv, RecoverInv, Moved
    <3>9. RecoverInv'
      BY <3>1, <3>2, <3>3 DEF IInv, PlaceInv, TagInv, HostInv, ApplyInv, RecoverInv, Moved
    <3>10. InstalledInv'
      BY <3>1, <3>2, <3>3 DEF IInv, PlaceInv, TagInv, InstalledInv, Typed, StateSet, TxSet,
         HostSet, Moved
    <3>11. WritesInv'
      BY <3>1, <3>2, <3>3 DEF IInv, PlaceInv, TagInv, HostInv, ApplyInv, WritesInv, Typed,
         LiveSet, AckedSet, BackupSet, TxSet, Moved
    <3>12. AttemptsInv'
      BY <3>1, <3>2, <3>3 DEF IInv, PlaceInv, AttemptsInv, Typed, StateSet, BudgetSet, Moved
    <3> QED
      BY <3>4, <3>5, <3>6, <3>7, <3>8, <3>9, <3>10, <3>11, <3>12 DEF IInv
  <2>2. CASE At("bootstrap_config")
    <3> USE <1>8, <2>2
    <3>1. Moved({"internal_health"})
      BY DEF Bootstrap, IInv, Typed, ProcSet, Goto, Quit, NoProc, Moved
    <3>2. /\ live' \in LiveSet
          /\ live'.schema = live.schema
          /\ live'.writes = live.writes
          /\ live'.config = tx.tag
          /\ live'.maintenance = FALSE
          /\ live'.up = live.up
          /\ live'.runs = live.runs
      <4>1. live \in LiveSet /\ tx.tag \in MaybeRelease /\ FALSE \in BOOLEAN
        BY DEF IInv, Typed, PlaceInv, HostInv, TxSet, BackupSet, HostSet
      <4>2. live' = [live EXCEPT !.config = tx.tag, !.maintenance = FALSE]
        BY DEF Bootstrap, IInv, PlaceInv, ApplyInv
      <4> QED
        BY <4>1, <4>2 DEF LiveSet
    <3>3. /\ At("bootstrap_config")
          /\ UNCHANGED <<published, state, tx, host, backup, acked, budget>>
      BY DEF Bootstrap, durable
    <3>4. Typed'
      BY <3>1, <3>2, <3>3 DEF Typed, IInv, Moved
    <3>5. PlaceInv'
      BY <3>1, <3>2, <3>3 DEF IInv, PlaceInv, TagInv, HostInv, Moved
    <3>6. TagInv'
      BY <3>1, <3>2, <3>3 DEF IInv, PlaceInv, TagInv, HostInv, ApplyInv, RecoverInv, Typed,
         StateSet, TxSet, Moved
    <3>7. HostInv'
      BY <3>1, <3>2, <3>3 DEF IInv, PlaceInv, TagInv, HostInv, ApplyInv, RecoverInv,
         WritesInv, Typed, TxSet, Moved
    <3>8. ApplyInv'
      BY <3>1, <3>2, <3>3 DEF IInv, PlaceInv, TagInv, HostInv, ApplyInv, RecoverInv, Moved
    <3>9. RecoverInv'
      BY <3>1, <3>2, <3>3 DEF IInv, PlaceInv, TagInv, HostInv, ApplyInv, RecoverInv, Moved
    <3>10. InstalledInv'
      BY <3>1, <3>2, <3>3 DEF IInv, PlaceInv, TagInv, InstalledInv, Typed, StateSet, TxSet,
         HostSet, Moved
    <3>11. WritesInv'
      BY <3>1, <3>2, <3>3 DEF IInv, PlaceInv, TagInv, HostInv, ApplyInv, WritesInv, Typed,
         LiveSet, AckedSet, BackupSet, TxSet, Moved
    <3>12. AttemptsInv'
      BY <3>1, <3>2, <3>3 DEF IInv, PlaceInv, AttemptsInv, Typed, StateSet, BudgetSet, Moved
    <3> QED
      BY <3>4, <3>5, <3>6, <3>7, <3>8, <3>9, <3>10, <3>11, <3>12 DEF IInv
  <2> QED
    BY <1>8, <2>1, <2>2 DEF Bootstrap
<1>9. CASE CommitTraffic
  <2> USE <1>9
  <2>1. Moved({"open_traffic"})
    BY DEF CommitTraffic, IInv, Typed, ProcSet, Goto, Quit, NoProc, Moved
  <2>2. Phased("traffic_committed")
    BY PhaseEffect DEF CommitTraffic, IInv, Typed, PlaceInv, TxSet
  <2>3. /\ At("internal_health")
        /\ UNCHANGED <<published, state, host, backup, live, acked, budget>>
    BY DEF CommitTraffic, durable
  <2>4. Typed'
    BY <2>1, <2>2, <2>3 DEF Typed, IInv, Moved, Phased
  <2>5. PlaceInv'
    BY <2>1, <2>2, <2>3 DEF IInv, PlaceInv, TagInv, HostInv, Moved, Phased
  <2>6. TagInv'
    BY <2>1, <2>2, <2>3 DEF IInv, PlaceInv, TagInv, HostInv, ApplyInv, RecoverInv, Typed,
       StateSet, TxSet, Moved, Phased
  <2>7. HostInv'
    BY <2>1, <2>2, <2>3 DEF IInv, PlaceInv, TagInv, HostInv, ApplyInv, RecoverInv,
       WritesInv, Typed, TxSet, Moved, Phased
  <2>8. ApplyInv'
    BY <2>1, <2>2, <2>3 DEF IInv, PlaceInv, TagInv, HostInv, ApplyInv, RecoverInv, Moved, Phased
  <2>9. RecoverInv'
    BY <2>1, <2>2, <2>3 DEF IInv, PlaceInv, TagInv, HostInv, ApplyInv, RecoverInv, Moved, Phased
  <2>10. InstalledInv'
    BY <2>1, <2>2, <2>3 DEF IInv, PlaceInv, TagInv, InstalledInv, Typed, StateSet, TxSet,
       HostSet, Moved, Phased
  <2>11. WritesInv'
    BY <2>1, <2>2, <2>3 DEF IInv, PlaceInv, TagInv, HostInv, ApplyInv, WritesInv, Typed,
       LiveSet, AckedSet, BackupSet, TxSet, Moved, Phased
  <2>12. AttemptsInv'
    BY <2>1, <2>2, <2>3 DEF IInv, PlaceInv, AttemptsInv, Typed, StateSet, BudgetSet, Moved,
       Phased
  <2> QED
    BY <2>4, <2>5, <2>6, <2>7, <2>8, <2>9, <2>10, <2>11, <2>12 DEF IInv
<1>10. CASE OpenTraffic
  <2> USE <1>10
  <2>1. Moved({"install_deps"})
    BY DEF OpenTraffic, IInv, Typed, ProcSet, Goto, Quit, NoProc, Moved
  <2>2. /\ live' \in LiveSet
        /\ live'.schema = live.schema
        /\ live'.writes = live.writes
        /\ live'.config = live.config
        /\ live'.maintenance = live.maintenance
        /\ live'.up = live.up \cup {"workers", "proxy"}
        /\ live'.runs = live.runs
    BY DEF OpenTraffic, IInv, Typed, PlaceInv, LiveSet, Start, Stop
  <2>3. /\ At("open_traffic")
        /\ UNCHANGED <<published, state, tx, host, backup, acked, budget>>
    BY DEF OpenTraffic, durable
  <2>4. Typed'
    BY <2>1, <2>2, <2>3 DEF Typed, IInv, Moved
  <2>5. PlaceInv'
    BY <2>1, <2>2, <2>3 DEF IInv, PlaceInv, TagInv, HostInv, Moved
  <2>6. TagInv'
    BY <2>1, <2>2, <2>3 DEF IInv, PlaceInv, TagInv, HostInv, ApplyInv, RecoverInv, Typed,
       StateSet, TxSet, Moved
  <2>7. HostInv'
    BY <2>1, <2>2, <2>3 DEF IInv, PlaceInv, TagInv, HostInv, ApplyInv, RecoverInv,
       WritesInv, Typed, TxSet, Moved
  <2>8. ApplyInv'
    BY <2>1, <2>2, <2>3 DEF IInv, PlaceInv, TagInv, HostInv, ApplyInv, RecoverInv, Moved,
       Typed, LiveSet
  <2>9. RecoverInv'
    BY <2>1, <2>2, <2>3 DEF IInv, PlaceInv, TagInv, HostInv, ApplyInv, RecoverInv, Moved
  <2>10. InstalledInv'
    BY <2>1, <2>2, <2>3 DEF IInv, PlaceInv, TagInv, InstalledInv, Typed, StateSet, TxSet,
       HostSet, Moved
  <2>11. WritesInv'
    BY <2>1, <2>2, <2>3 DEF IInv, PlaceInv, TagInv, HostInv, ApplyInv, WritesInv, Typed,
       LiveSet, AckedSet, BackupSet, TxSet, Moved
  <2>12. AttemptsInv'
    BY <2>1, <2>2, <2>3 DEF IInv, PlaceInv, AttemptsInv, Typed, StateSet, BudgetSet, Moved
  <2> QED
    BY <2>4, <2>5, <2>6, <2>7, <2>8, <2>9, <2>10, <2>11, <2>12 DEF IInv
<1>11. CASE InstallUpdater
  <2>1. CASE At("install_deps")
    <3> USE <1>11, <2>1
    <3>1. Moved({"install_main"})
      BY DEF InstallUpdater, IInv, Typed, ProcSet, Goto, Quit, NoProc, Moved
    <3>2. /\ host' \in HostSet
          /\ host'.current = host.current
          /\ host'.env = host.env
          /\ host'.main = host.main
          /\ host'.deps = tx.tag
      BY DEF InstallUpdater, IInv, Typed, PlaceInv, HostSet, TxSet
    <3>3. /\ At("install_deps")
          /\ UNCHANGED <<published, state, tx, backup, live, acked, budget>>
      BY DEF InstallUpdater, durable
    <3>4. WritesInv'
      BY <3>3 DEF IInv, WritesInv
    <3>5. Typed'
      BY <3>1, <3>2, <3>3 DEF Typed, IInv, Moved
    <3>6. PlaceInv'
      BY <3>1, <3>2, <3>3 DEF IInv, PlaceInv, TagInv, HostInv, Moved
    <3>7. TagInv'
      BY <3>1, <3>2, <3>3 DEF IInv, PlaceInv, TagInv, HostInv, ApplyInv, RecoverInv, Typed,
         StateSet, TxSet, Moved
    <3>8. HostInv'
      BY <3>1, <3>2, <3>3 DEF IInv, PlaceInv, TagInv, HostInv, ApplyInv, RecoverInv,
         WritesInv, Typed, TxSet, Moved
    <3>9. ApplyInv'
      BY <3>1, <3>2, <3>3 DEF IInv, PlaceInv, TagInv, HostInv, ApplyInv, RecoverInv, Moved
    <3>10. RecoverInv'
      BY <3>1, <3>2, <3>3 DEF IInv, PlaceInv, TagInv, HostInv, ApplyInv, RecoverInv, Moved
    <3>11. InstalledInv'
      BY <3>1, <3>2, <3>3 DEF IInv, PlaceInv, TagInv, InstalledInv, Typed, StateSet, TxSet,
         HostSet, Moved
    <3>12. AttemptsInv'
      BY <3>1, <3>2, <3>3 DEF IInv, PlaceInv, AttemptsInv, Typed, StateSet, BudgetSet, Moved
    <3> QED
      BY <3>4, <3>5, <3>6, <3>7, <3>8, <3>9, <3>10, <3>11, <3>12 DEF IInv
  <2>2. CASE At("install_main")
    <3> USE <1>11, <2>2
    <3>1. Moved({"succeed"})
      BY DEF InstallUpdater, IInv, Typed, ProcSet, Goto, Quit, NoProc, Moved
    <3>2. /\ host' \in HostSet
          /\ host'.current = host.current
          /\ host'.env = host.env
          /\ host'.main = tx.tag
          /\ host'.deps = host.deps
      BY DEF InstallUpdater, IInv, Typed, PlaceInv, HostSet, TxSet
    <3>3. /\ At("install_main")
          /\ UNCHANGED <<published, state, tx, backup, live, acked, budget>>
      BY DEF InstallUpdater, durable
    <3>4. WritesInv'
      BY <3>3 DEF IInv, WritesInv
    <3>5. Typed'
      BY <3>1, <3>2, <3>3 DEF Typed, IInv, Moved
    <3>6. PlaceInv'
      BY <3>1, <3>2, <3>3 DEF IInv, PlaceInv, TagInv, HostInv, Moved
    <3>7. TagInv'
      BY <3>1, <3>2, <3>3 DEF IInv, PlaceInv, TagInv, HostInv, ApplyInv, RecoverInv, Typed,
         StateSet, TxSet, Moved
    <3>8. HostInv'
      BY <3>1, <3>2, <3>3 DEF IInv, PlaceInv, TagInv, HostInv, ApplyInv, RecoverInv,
         WritesInv, Typed, TxSet, Moved
    <3>9. ApplyInv'
      BY <3>1, <3>2, <3>3 DEF IInv, PlaceInv, TagInv, HostInv, ApplyInv, RecoverInv, Moved
    <3>10. RecoverInv'
      BY <3>1, <3>2, <3>3 DEF IInv, PlaceInv, TagInv, HostInv, ApplyInv, RecoverInv, Moved
    <3>11. InstalledInv'
      BY <3>1, <3>2, <3>3 DEF IInv, PlaceInv, TagInv, InstalledInv, Typed, StateSet, TxSet,
         HostSet, Moved
    <3>12. AttemptsInv'
      BY <3>1, <3>2, <3>3 DEF IInv, PlaceInv, AttemptsInv, Typed, StateSet, BudgetSet, Moved
    <3> QED
      BY <3>4, <3>5, <3>6, <3>7, <3>8, <3>9, <3>10, <3>11, <3>12 DEF IInv
  <2> QED
    BY <1>11, <2>1, <2>2 DEF InstallUpdater
<1>12. CASE Succeed
  <2> USE <1>12
  <2>1. Moved({"unlink_success"})
    BY DEF Succeed, IInv, Typed, ProcSet, Goto, Quit, NoProc, Moved
  <2>2. Succeeded(tx.tag, "success")
    <3>1. proc.tag = tx.tag /\ tx.tag \in Tags /\ state \in StateSet
      BY DEF IInv, Typed, PlaceInv, TxSet, Succeed
    <3> QED
      BY <3>1, SuccessEffect DEF Succeed
  <2>3. /\ At("succeed")
        /\ UNCHANGED <<published, tx, host, backup, live, acked, budget>>
    BY DEF Succeed, durable
  <2>4. WritesInv'
    BY <2>3 DEF IInv, WritesInv
  <2>5. Typed'
    BY <2>1, <2>2, <2>3 DEF Typed, IInv, Moved, Succeeded
  <2>6. PlaceInv'
    BY <2>1, <2>2, <2>3 DEF IInv, PlaceInv, TagInv, HostInv, Moved, Succeeded
  <2>7. TagInv'
    BY <2>1, <2>2, <2>3 DEF IInv, PlaceInv, TagInv, HostInv, ApplyInv, RecoverInv, Typed,
       StateSet, TxSet, Moved, Succeeded
  <2>8. HostInv'
    BY <2>1, <2>2, <2>3 DEF IInv, PlaceInv, TagInv, HostInv, ApplyInv, RecoverInv,
       WritesInv, Typed, TxSet, Moved, Succeeded
  <2>9. ApplyInv'
    BY <2>1, <2>2, <2>3 DEF IInv, PlaceInv, TagInv, HostInv, ApplyInv, RecoverInv, Moved,
       Succeeded
  <2>10. RecoverInv'
    BY <2>1, <2>2, <2>3 DEF IInv, PlaceInv, TagInv, HostInv, ApplyInv, RecoverInv, Moved,
       Succeeded
  <2>11. InstalledInv'
    BY <2>1, <2>2, <2>3 DEF IInv, PlaceInv, TagInv, InstalledInv, Typed, StateSet, TxSet,
       HostSet, Moved, Succeeded
  <2>12. AttemptsInv'
    BY <2>1, <2>2, <2>3 DEF IInv, PlaceInv, AttemptsInv, Typed, StateSet, BudgetSet, Moved,
       Succeeded
  <2> QED
    BY <2>4, <2>5, <2>6, <2>7, <2>8, <2>9, <2>10, <2>11, <2>12 DEF IInv
<1>13. CASE UnlinkSuccess
  <2> USE <1>13
  <2>1. Moved({"idle"})
    BY DEF UnlinkSuccess, IInv, Typed, ProcSet, Goto, Quit, NoProc, Moved
  <2>2. tx' = NoTx
    BY DEF UnlinkSuccess, IInv, Typed, PlaceInv, TxSet
  <2>3. /\ At("unlink_success")
        /\ UNCHANGED <<published, state, host, backup, live, acked, budget>>
    BY DEF UnlinkSuccess, durable
  <2>4. Typed'
    BY <2>1, <2>2, <2>3 DEF Typed, IInv, Moved, TxSet
  <2>5. PlaceInv'
    BY <2>1, <2>2, <2>3 DEF IInv, PlaceInv, TagInv, HostInv, Moved
  <2>6. TagInv'
    BY <2>1, <2>2, <2>3 DEF IInv, PlaceInv, TagInv, HostInv, ApplyInv, RecoverInv, Typed,
       StateSet, TxSet, Moved
  <2>7. HostInv'
    BY <2>1, <2>2, <2>3 DEF IInv, PlaceInv, TagInv, HostInv, ApplyInv, RecoverInv,
       WritesInv, Typed, TxSet, Moved
  <2>8. ApplyInv'
    BY <2>1, <2>2, <2>3 DEF IInv, PlaceInv, TagInv, HostInv, ApplyInv, RecoverInv, Moved
  <2>9. RecoverInv'
    BY <2>1, <2>2, <2>3 DEF IInv, PlaceInv, TagInv, HostInv, ApplyInv, RecoverInv, Moved
  <2>10. InstalledInv'
    BY <2>1, <2>2, <2>3 DEF IInv, PlaceInv, TagInv, InstalledInv, Typed, StateSet, TxSet,
       HostSet, Moved
  <2>11. WritesInv'
    BY <2>1, <2>2, <2>3 DEF IInv, PlaceInv, TagInv, HostInv, ApplyInv, WritesInv, Typed,
       LiveSet, AckedSet, BackupSet, TxSet, Moved
  <2>12. AttemptsInv'
    BY <2>1, <2>2, <2>3 DEF IInv, PlaceInv, AttemptsInv, Typed, StateSet, BudgetSet, Moved
  <2> QED
    BY <2>4, <2>5, <2>6, <2>7, <2>8, <2>9, <2>10, <2>11, <2>12 DEF IInv
<1> QED
  BY <1>1, <1>2, <1>3, <1>4, <1>5, <1>6, <1>7, <1>8, <1>9, <1>10, <1>11, <1>12, <1>13

LEMMA FailingInductive ==
  ASSUME IInv,
         CommandFails \/ HandleFailure
  PROVE  IInv'
<1>1. CASE CommandFails
  <2>1. CASE (At("applying") \/ proc.pc \in ResumeSteps) /\ Quit
    <3> USE <1>1, <2>1
    <3>1. Moved({"idle"})
      BY DEF CommandFails, IInv, Typed, ProcSet, Goto, Quit, NoProc, Moved
    <3>2. /\ budget' \in BudgetSet
          /\ budget'.left = budget.left - 1 /\ budget'.torn = budget.torn
      BY DEF CommandFails, IInv, Typed, PlaceInv, BudgetSet
    <3>3. UNCHANGED <<published, state, tx, host, backup, live, acked>>
      BY DEF CommandFails, durable
    <3>4. HostInv' /\ WritesInv'
      <4>1. WritesInv'
        BY <3>1, <3>2, <3>3 DEF IInv, WritesInv
      <4>2. HostInv'
        BY <3>1, <3>2, <3>3 DEF IInv, PlaceInv, HostInv, Moved
      <4> QED
        BY <4>1, <4>2
    <3>5. Typed'
      BY <3>1, <3>2, <3>3 DEF Typed, IInv, Moved
    <3>6. PlaceInv'
      BY <3>1, <3>2, <3>3 DEF IInv, PlaceInv, TagInv, HostInv, Moved
    <3>7. TagInv'
      BY <3>1, <3>2, <3>3 DEF IInv, PlaceInv, TagInv, HostInv, ApplyInv, RecoverInv, Typed,
         StateSet, TxSet, Moved
    <3>8. ApplyInv'
      BY <3>1, <3>2, <3>3 DEF IInv, PlaceInv, TagInv, HostInv, ApplyInv, RecoverInv, Moved
    <3>9. RecoverInv'
      BY <3>1, <3>2, <3>3 DEF IInv, PlaceInv, TagInv, HostInv, ApplyInv, RecoverInv, Moved
    <3>10. InstalledInv'
      BY <3>1, <3>2, <3>3 DEF IInv, PlaceInv, TagInv, InstalledInv, Typed, StateSet, TxSet,
         HostSet, Moved
    <3>11. AttemptsInv'
      <4> SUFFICES ASSUME NEW t \in Tags
               PROVE  /\ state'.attempts[t] <= MaxAttempts + Used'
                      /\ state'.seen[t] = "unseen" /\ ~(At("reject")' /\ proc'.tag = t) =>
                           state'.attempts[t] <= MaxAttempts + Used' - 1
        BY DEF AttemptsInv
      <4>1. state.attempts[t] \in Nat /\ budget.left \in 0..MaxDisruptions /\ t \in Nat
        BY DEF IInv, Typed, StateSet, BudgetSet
      <4> QED
        BY <3>1, <3>2, <3>3, <4>1 DEF IInv, AttemptsInv, Moved, BudgetSet
    <3> QED
      BY <3>4, <3>5, <3>6, <3>7, <3>8, <3>9, <3>10, <3>11 DEF IInv
  <2>2. CASE proc.pc \in ApplySteps \ {"applying", "succeed"} /\ Goto("failed")
    <3> USE <1>1, <2>2
    <3>1. Moved({"failed"})
      BY DEF CommandFails, IInv, Typed, ProcSet, Goto, Quit, NoProc, Moved
    <3>2. /\ budget' \in BudgetSet
          /\ budget'.left = budget.left - 1 /\ budget'.torn = budget.torn
      BY DEF CommandFails, IInv, Typed, PlaceInv, BudgetSet
    <3>3. UNCHANGED <<published, state, tx, host, backup, live, acked>>
      BY DEF CommandFails, durable
    <3>4. HostInv' /\ WritesInv'
      <4>1. WritesInv'
        BY <3>1, <3>2, <3>3 DEF IInv, WritesInv
      <4>2. HostInv'
        BY <3>1, <3>2, <3>3 DEF IInv, PlaceInv, HostInv, Moved
      <4> QED
        BY <4>1, <4>2
    <3>5. Typed'
      BY <3>1, <3>2, <3>3 DEF Typed, IInv, Moved
    <3>6. PlaceInv'
      BY <3>1, <3>2, <3>3 DEF IInv, PlaceInv, TagInv, HostInv, Moved
    <3>7. TagInv'
      BY <3>1, <3>2, <3>3 DEF IInv, PlaceInv, TagInv, HostInv, ApplyInv, RecoverInv, Typed,
         StateSet, TxSet, Moved
    <3>8. ApplyInv'
      BY <3>1, <3>2, <3>3 DEF IInv, PlaceInv, TagInv, HostInv, ApplyInv, RecoverInv, Moved
    <3>9. RecoverInv'
      BY <3>1, <3>2, <3>3 DEF IInv, PlaceInv, TagInv, HostInv, ApplyInv, RecoverInv, Moved
    <3>10. InstalledInv'
      BY <3>1, <3>2, <3>3 DEF IInv, PlaceInv, TagInv, InstalledInv, Typed, StateSet, TxSet,
         HostSet, Moved
    <3>11. AttemptsInv'
      <4> SUFFICES ASSUME NEW t \in Tags
               PROVE  /\ state'.attempts[t] <= MaxAttempts + Used'
                      /\ state'.seen[t] = "unseen" /\ ~(At("reject")' /\ proc'.tag = t) =>
                           state'.attempts[t] <= MaxAttempts + Used' - 1
        BY DEF AttemptsInv
      <4>1. state.attempts[t] \in Nat /\ budget.left \in 0..MaxDisruptions /\ t \in Nat
        BY DEF IInv, Typed, StateSet, BudgetSet
      <4> QED
        BY <3>1, <3>2, <3>3, <4>1 DEF IInv, AttemptsInv, Moved, BudgetSet
    <3> QED
      BY <3>4, <3>5, <3>6, <3>7, <3>8, <3>9, <3>10, <3>11 DEF IInv
  <2>3. CASE proc.pc \in RecoverSteps \cup {"internal_health", "unlink"} /\ Goto("give_up")
    <3> USE <1>1, <2>3
    <3>1. Moved({"give_up"})
      BY DEF CommandFails, IInv, Typed, ProcSet, Goto, Quit, NoProc, Moved
    <3>2. /\ budget' \in BudgetSet
          /\ budget'.left = budget.left - 1 /\ budget'.torn = budget.torn
      BY DEF CommandFails, IInv, Typed, PlaceInv, BudgetSet
    <3>3. UNCHANGED <<published, state, tx, host, backup, live, acked>>
      BY DEF CommandFails, durable
    <3>4. HostInv' /\ WritesInv'
      <4>1. WritesInv'
        BY <3>1, <3>2, <3>3 DEF IInv, WritesInv
      <4>2. HostInv'
        BY <3>1, <3>2, <3>3 DEF IInv, PlaceInv, HostInv, RecoverInv, Moved
      <4> QED
        BY <4>1, <4>2
    <3>5. Typed'
      BY <3>1, <3>2, <3>3 DEF Typed, IInv, Moved
    <3>6. PlaceInv'
      BY <3>1, <3>2, <3>3 DEF IInv, PlaceInv, TagInv, HostInv, Moved
    <3>7. TagInv'
      BY <3>1, <3>2, <3>3 DEF IInv, PlaceInv, TagInv, HostInv, ApplyInv, RecoverInv, Typed,
         StateSet, TxSet, Moved
    <3>8. ApplyInv'
      BY <3>1, <3>2, <3>3 DEF IInv, PlaceInv, TagInv, HostInv, ApplyInv, RecoverInv, Moved
    <3>9. RecoverInv'
      BY <3>1, <3>2, <3>3 DEF IInv, PlaceInv, TagInv, HostInv, ApplyInv, RecoverInv, Moved
    <3>10. InstalledInv'
      BY <3>1, <3>2, <3>3 DEF IInv, PlaceInv, TagInv, InstalledInv, Typed, StateSet, TxSet,
         HostSet, Moved
    <3>11. AttemptsInv'
      <4> SUFFICES ASSUME NEW t \in Tags
               PROVE  /\ state'.attempts[t] <= MaxAttempts + Used'
                      /\ state'.seen[t] = "unseen" /\ ~(At("reject")' /\ proc'.tag = t) =>
                           state'.attempts[t] <= MaxAttempts + Used' - 1
        BY DEF AttemptsInv
      <4>1. state.attempts[t] \in Nat /\ budget.left \in 0..MaxDisruptions /\ t \in Nat
        BY DEF IInv, Typed, StateSet, BudgetSet
      <4> QED
        BY <3>1, <3>2, <3>3, <4>1 DEF IInv, AttemptsInv, Moved, BudgetSet
    <3> QED
      BY <3>4, <3>5, <3>6, <3>7, <3>8, <3>9, <3>10, <3>11 DEF IInv
  <2>4. CASE At("succeed") /\ Goto("unsaved")
    <3> USE <1>1, <2>4
    <3>1. Moved({"unsaved"})
      BY DEF CommandFails, IInv, Typed, ProcSet, Goto, Quit, NoProc, Moved
    <3>2. /\ budget' \in BudgetSet
          /\ budget'.left = budget.left - 1 /\ budget'.torn = budget.torn
      BY DEF CommandFails, IInv, Typed, PlaceInv, BudgetSet
    <3>3. UNCHANGED <<published, state, tx, host, backup, live, acked>>
      BY DEF CommandFails, durable
    <3>4. HostInv' /\ WritesInv'
      <4>1. WritesInv'
        BY <3>1, <3>2, <3>3 DEF IInv, WritesInv
      <4>2. HostInv'
        BY <3>1, <3>2, <3>3 DEF IInv, PlaceInv, HostInv, RecoverInv, Moved
      <4> QED
        BY <4>1, <4>2
    <3>5. Typed'
      BY <3>1, <3>2, <3>3 DEF Typed, IInv, Moved
    <3>6. PlaceInv'
      BY <3>1, <3>2, <3>3 DEF IInv, PlaceInv, TagInv, HostInv, Moved
    <3>7. TagInv'
      BY <3>1, <3>2, <3>3 DEF IInv, PlaceInv, TagInv, HostInv, ApplyInv, RecoverInv, Typed,
         StateSet, TxSet, Moved
    <3>8. ApplyInv'
      BY <3>1, <3>2, <3>3 DEF IInv, PlaceInv, TagInv, HostInv, ApplyInv, RecoverInv, Moved
    <3>9. RecoverInv'
      BY <3>1, <3>2, <3>3 DEF IInv, PlaceInv, TagInv, HostInv, ApplyInv, RecoverInv, Moved
    <3>10. InstalledInv'
      BY <3>1, <3>2, <3>3 DEF IInv, PlaceInv, TagInv, InstalledInv, Typed, StateSet, TxSet,
         HostSet, Moved
    <3>11. AttemptsInv'
      <4> SUFFICES ASSUME NEW t \in Tags
               PROVE  /\ state'.attempts[t] <= MaxAttempts + Used'
                      /\ state'.seen[t] = "unseen" /\ ~(At("reject")' /\ proc'.tag = t) =>
                           state'.attempts[t] <= MaxAttempts + Used' - 1
        BY DEF AttemptsInv
      <4>1. state.attempts[t] \in Nat /\ budget.left \in 0..MaxDisruptions /\ t \in Nat
        BY DEF IInv, Typed, StateSet, BudgetSet
      <4> QED
        BY <3>1, <3>2, <3>3, <4>1 DEF IInv, AttemptsInv, Moved, BudgetSet
    <3> QED
      BY <3>4, <3>5, <3>6, <3>7, <3>8, <3>9, <3>10, <3>11 DEF IInv
  <2>5. CASE At("open_tx") /\ Goto("reject")
    <3> USE <1>1, <2>5
    <3>1. Moved({"reject"})
      BY DEF CommandFails, IInv, Typed, ProcSet, Goto, Quit, NoProc, Moved
    <3>2. /\ budget' \in BudgetSet
          /\ budget'.left = budget.left - 1 /\ budget'.torn = budget.torn
      BY DEF CommandFails, IInv, Typed, PlaceInv, BudgetSet
    <3>3. UNCHANGED <<published, state, tx, host, backup, live, acked>>
      BY DEF CommandFails, durable
    <3>4. HostInv' /\ WritesInv'
      <4>1. WritesInv'
        BY <3>1, <3>2, <3>3 DEF IInv, WritesInv
      <4>2. HostInv'
        BY <3>1, <3>2, <3>3 DEF IInv, PlaceInv, HostInv, Moved
      <4> QED
        BY <4>1, <4>2
    <3>5. Typed'
      BY <3>1, <3>2, <3>3 DEF Typed, IInv, Moved
    <3>6. PlaceInv'
      BY <3>1, <3>2, <3>3 DEF IInv, PlaceInv, TagInv, HostInv, Moved
    <3>7. TagInv'
      BY <3>1, <3>2, <3>3 DEF IInv, PlaceInv, TagInv, HostInv, ApplyInv, RecoverInv, Typed,
         StateSet, TxSet, Moved
    <3>8. ApplyInv'
      BY <3>1, <3>2, <3>3 DEF IInv, PlaceInv, TagInv, HostInv, ApplyInv, RecoverInv, Moved
    <3>9. RecoverInv'
      BY <3>1, <3>2, <3>3 DEF IInv, PlaceInv, TagInv, HostInv, ApplyInv, RecoverInv, Moved
    <3>10. InstalledInv'
      BY <3>1, <3>2, <3>3 DEF IInv, PlaceInv, TagInv, InstalledInv, Typed, StateSet, TxSet,
         HostSet, Moved
    <3>11. AttemptsInv'
      <4> SUFFICES ASSUME NEW t \in Tags
               PROVE  /\ state'.attempts[t] <= MaxAttempts + Used'
                      /\ state'.seen[t] = "unseen" /\ ~(At("reject")' /\ proc'.tag = t) =>
                           state'.attempts[t] <= MaxAttempts + Used' - 1
        BY DEF AttemptsInv
      <4>1. state.attempts[t] \in Nat /\ budget.left \in 0..MaxDisruptions /\ t \in Nat
        BY DEF IInv, Typed, StateSet, BudgetSet
      <4> QED
        BY <3>1, <3>2, <3>3, <4>1 DEF IInv, AttemptsInv, Moved, BudgetSet
    <3> QED
      BY <3>4, <3>5, <3>6, <3>7, <3>8, <3>9, <3>10, <3>11 DEF IInv
  <2> QED
    BY <1>1, <2>1, <2>2, <2>3, <2>4, <2>5 DEF CommandFails
<1>2. CASE HandleFailure
  <2> USE <1>2
  <2>1. /\ proc' \in ProcSet
        /\ proc'.job = proc.job
        /\ proc'.tag = proc.tag
        /\ proc'.pc \in {"give_up", "recover", "resume"}
        /\ (proc'.pc = "recover" => tx.phase # "traffic_committed" /\ Recoverable)
        /\ (proc'.pc = "resume" => tx.phase = "preparing" /\ tx.previous # NoRelease)
    BY DEF HandleFailure, IInv, Typed, ProcSet, Goto, Quit, NoProc
  <2>2. /\ At("failed")
        /\ UNCHANGED <<published, state, tx, host, backup, live, acked, budget>>
    BY DEF HandleFailure, durable
  <2>3. HostInv' /\ WritesInv'
    <3>1. WritesInv'
      BY <2>1, <2>2 DEF IInv, WritesInv
    <3>2. HostInv'
      BY <2>1, <2>2 DEF IInv, PlaceInv, HostInv, ApplyInv, WritesInv
    <3> QED
      BY <3>1, <3>2
  <2>4. Typed'
    BY <2>1, <2>2 DEF Typed, IInv
  <2>5. PlaceInv'
    BY <2>1, <2>2 DEF IInv, PlaceInv, TagInv, HostInv
  <2>6. TagInv'
    BY <2>1, <2>2 DEF IInv, PlaceInv, TagInv, HostInv, ApplyInv, RecoverInv, Typed,
       StateSet, TxSet
  <2>7. ApplyInv'
    BY <2>1, <2>2 DEF IInv, PlaceInv, TagInv, HostInv, ApplyInv, RecoverInv
  <2>8. RecoverInv'
    BY <2>1, <2>2 DEF IInv, PlaceInv, TagInv, HostInv, ApplyInv, RecoverInv
  <2>9. InstalledInv'
    BY <2>1, <2>2 DEF IInv, PlaceInv, TagInv, InstalledInv, Typed, StateSet, TxSet, HostSet
  <2>10. AttemptsInv'
    BY <2>1, <2>2 DEF IInv, PlaceInv, AttemptsInv, Typed, StateSet, BudgetSet
  <2> QED
    BY <2>3, <2>4, <2>5, <2>6, <2>7, <2>8, <2>9, <2>10 DEF IInv
<1> QED
  BY <1>1, <1>2

----------------------------------------------------------------------------
(* The invariant holds at the start and is kept by every step. *)

LEMMA InitiallyInductive == Init => IInv
<1> SUFFICES ASSUME Init PROVE IInv
  OBVIOUS
<1> USE DEF Init
<1>1. PICK present \in BOOLEAN : Deployment(present)
  OBVIOUS
<1>2. /\ proc.pc = "idle" /\ proc.job = "none" /\ proc \in ProcSet
      /\ tx \in TxSet /\ tx.phase = "none" /\ tx.tag = 0
  BY DEF NoProc, ProcSet, TxSet
<1>3. /\ state \in StateSet /\ state.success = 0
      /\ \A t \in Tags : state.seen[t] = "unseen" /\ state.attempts[t] = 0
  BY DEF StateSet
<1>4. /\ host \in HostSet /\ live \in LiveSet
      /\ host.main = 0 /\ host.deps = 0 /\ live.writes = 0
      /\ IF host.current = NoRelease THEN Fresh ELSE Serving(0)
  <2>1. CASE present
    BY <1>1, <2>1 DEF Deployment, HostSet, LiveSet
  <2>2. CASE ~present
    BY <1>1, <2>2 DEF Deployment, HostSet, LiveSet
  <2> QED
    BY <1>1, <2>1, <2>2
<1>5. backup \in BackupSet /\ \A t \in Tags : ~backup[t].complete
  BY DEF BackupSet
<1>6. /\ acked \in AckedSet /\ budget \in BudgetSet /\ published \subseteq Tags
      /\ acked.kept = 0 /\ acked.exposed = 0 /\ budget.left = MaxDisruptions
  BY DEF AckedSet, BudgetSet
<1> HIDE DEF Init
<1>7. Typed
  BY <1>2, <1>3, <1>4, <1>5, <1>6 DEF Typed
<1>8. PlaceInv
  BY <1>2 DEF PlaceInv
<1>9. TagInv
  BY <1>2, <1>3, <1>5, tx = NoTx DEF TagInv, Init
<1>10. HostInv
  BY <1>2, <1>3, <1>4 DEF HostInv
<1>11. ApplyInv
  BY <1>2 DEF ApplyInv
<1>12. RecoverInv
  BY <1>2 DEF RecoverInv
<1>13. InstalledInv
  BY <1>2, <1>3, <1>4 DEF InstalledInv
<1>14. WritesInv
  BY <1>4, <1>5, <1>6 DEF WritesInv
<1>15. AttemptsInv
  BY <1>2, <1>3, <1>6 DEF AttemptsInv
<1> QED
  BY <1>7, <1>8, <1>9, <1>10, <1>11, <1>12, <1>13, <1>14, <1>15 DEF IInv

LEMMA StutterInductive ==
  ASSUME IInv, UNCHANGED vars
  PROVE  IInv'
<1> USE DEF vars, durable, IInv
<1>1. Typed'
  BY DEF Typed
<1>2. PlaceInv' /\ TagInv' /\ HostInv'
  BY DEF PlaceInv, TagInv, HostInv
<1>3. ApplyInv' /\ RecoverInv'
  BY DEF ApplyInv, RecoverInv
<1>4. InstalledInv' /\ WritesInv' /\ AttemptsInv'
  BY DEF InstalledInv, WritesInv, AttemptsInv
<1> QED
  BY <1>1, <1>2, <1>3, <1>4

LEMMA StepInductive ==
  ASSUME IInv, [Next]_vars
  PROVE  IInv'
<1>1. CASE UpdaterStep \/ UnstageFailed \/ CommandFails
  BY <1>1, ClosingInductive, RecoveringInductive, ChoosingInductive, ApplyingInductive,
     FailingInductive DEF UpdaterStep
<1>2. CASE UNCHANGED vars
  BY <1>2, StutterInductive
<1> QED
  BY <1>1, <1>2, WorldInductive DEF Next

(* The journal tells the truth about the updater at every moment, whoever died, and, until a
   process dies in a recovery that the journal did not announce, about the host: each phase
   bounds what may be half-changed, and each place in the updater what it has reached. *)
THEOREM HostCorrect == Spec => []IInv
<1>1. Init => IInv
  BY InitiallyInductive
<1>2. IInv /\ [Next]_vars => IInv'
  BY StepInductive
<1> QED
  BY <1>1, <1>2, PTL DEF Spec

----------------------------------------------------------------------------
(* What it says of the releases *)

(* The host's records stay well-formed; a tag's attempts are bounded by the attempts
   allowed and the disruptions met. *)
THEOREM TypeCorrect == Spec => []TypeOK
<1>1. IInv => TypeOK
  <2> SUFFICES ASSUME IInv PROVE TypeOK
    OBVIOUS
  <2>1. Typed /\ AttemptsInv
    BY DEF IInv
  <2>2. \A t \in Tags : state.attempts[t] \in 0..(MaxAttempts + MaxDisruptions)
    BY <2>1 DEF Typed, StateSet, BudgetSet, AttemptsInv
  <2>3. state \in [seen : [Tags -> Statuses], success : Releases,
                   attempts : [Tags -> 0..(MaxAttempts + MaxDisruptions)]]
    BY <2>1, <2>2 DEF Typed, StateSet
  <2> QED
    BY <2>1, <2>3 DEF TypeOK, Typed, TxSet, HostSet, LiveSet, BackupSet, AckedSet, BudgetSet
<1> QED
  BY <1>1, HostCorrect, PTL

(* Whoever dies at whichever step, users who reach the application meet code, images,
   database and config of one release (apply, recover, resume_previous), until a process dies
   in a recovery that the journal did not announce. *)
THEOREM OneVersionCorrect == Spec => []TrafficSeesOneVersion
<1>1. IInv => TrafficSeesOneVersion
  <2> SUFFICES ASSUME IInv, {"app", "proxy"} \subseteq live.up, ~live.maintenance,
                      ~budget.torn
               PROVE  OneVersion(host.current)
    BY DEF TrafficSeesOneVersion
  <2>1. tx = NoTx \/ tx.phase \in Phases
    BY DEF IInv, Typed, TxSet
  <2> QED
    BY <2>1 DEF IInv, HostInv
<1> QED
  BY <1>1, HostCorrect, PTL

(* An absent transaction.json means that the last successful release, or the installed
   one, serves: the journal is unlinked last in every ending. The same death excepted. *)
THEOREM ClosedMeansServingCorrect == Spec => []ClosedMeansServing
<1>1. IInv => ClosedMeansServing
  BY DEF IInv, HostInv, ClosedMeansServing
<1> QED
  BY <1>1, HostCorrect, PTL

(* A write acknowledged while no upgrade was changing the host survives every rollback:
   the checkpoint holds it, or nothing is restored. The same death excepted. *)
THEOREM WritesKeptCorrect == Spec => []AcknowledgedWritesKept
<1>1. IInv => AcknowledgedWritesKept
  BY DEF IInv, WritesInv
<1> QED
  BY <1>1, HostCorrect, PTL

(* bin/ never holds a release.py newer than the modules it imports. *)
THEOREM UpdaterRunnableCorrect == Spec => []UpdaterRunnable
<1>1. IInv => UpdaterRunnable
  BY DEF IInv, InstalledInv, UpdaterRunnable
<1> QED
  BY <1>1, HostCorrect, PTL

LEMMA RollbackStep ==
  ASSUME IInv, Next, live'.schema # live.schema \/ live'.writes < live.writes
  PROVE  /\ tx # NoTx /\ tx.phase \in {"preparing", "changing"}
         /\ \/ live'.schema = tx.tag
            \/ Recoverable /\ live'.schema \in {NoRelease, backup[tx.tag].schema}
<1>1. live \in LiveSet /\ live.writes \in Nat /\ live' # live
  <2>1. live \in LiveSet
    BY DEF IInv, Typed
  <2>2. live.writes \in Nat
    BY <2>1 DEF LiveSet
  <2>3. live' = live => live'.schema = live.schema /\ live'.writes = live.writes
    OBVIOUS
  <2> QED
    BY <2>1, <2>2, <2>3
<1>2. CASE UserWrite
  <2>1. live.writes \in Nat /\ live' = [live EXCEPT !.writes = @ + 1]
    BY <1>1, <1>2 DEF UserWrite, LiveSet
  <2>2. live'.schema = live.schema /\ live'.writes = live.writes + 1
    BY <1>1, <2>1 DEF LiveSet
  <2> QED
    BY <2>1, <2>2
<1>3. CASE BootStack \/ ResumePrevious \/ RecoverStop \/ RecoverConfig \/ RecoverApp
            \/ RecoverOpen \/ Quiesce \/ Recreate \/ OpenTraffic
  <2>1. live'.schema = live.schema /\ live'.writes = live.writes
    BY <1>1, <1>3 DEF BootStack, ResumePrevious, RecoverStop, RecoverConfig, RecoverApp,
       RecoverOpen, Quiesce, Recreate, OpenTraffic, Start, Stop, LiveSet
  <2> QED
    BY <1>1, <2>1 DEF LiveSet
<1>4. CASE RecoverDatabase
  <2>1. At("recover_drop") \/ At("recover_load")
    BY <1>4 DEF RecoverDatabase
  <2>2. tx # NoTx /\ tx.phase \in {"preparing", "changing"} /\ Recoverable
    BY <2>1 DEF IInv, PlaceInv
  <2>3. live'.schema \in {NoRelease, backup[tx.tag].schema}
    BY <1>1, <1>4 DEF RecoverDatabase, LiveSet
  <2> QED
    BY <2>2, <2>3
<1>5. CASE Bootstrap
  <2>1. (At("bootstrap") \/ At("bootstrap_config")) /\ proc.tag = tx.tag /\ tx.phase = "changing"
    BY <1>5 DEF Bootstrap, IInv, PlaceInv
  <2>2. CASE At("bootstrap")
    <3>1. live' = [live EXCEPT !.up = {"app"}, !.schema = proc.tag,
                     !.runs = IF live.runs = NoRelease THEN host.current ELSE live.runs]
      BY <1>5, <2>2 DEF Bootstrap
    <3>2. live'.schema = proc.tag
      BY <1>1, <3>1 DEF LiveSet
    <3> QED
      BY <2>1, <3>2
  <2>3. CASE At("bootstrap_config")
    <3>1. live' = [live EXCEPT !.config = proc.tag, !.maintenance = FALSE]
      BY <1>5, <2>3 DEF Bootstrap
    <3>2. live'.schema = live.schema /\ live'.writes = live.writes
      BY <1>1, <3>1 DEF LiveSet
    <3> QED
      BY <1>1, <3>2
  <2> QED
    BY <2>1, <2>2, <2>3
<1>6. CASE UNCHANGED live
  BY <1>1, <1>6
<1>7. CASE Stage \/ UnstageFailed \/ RetryLater \/ Reject \/ OpenTransaction
            \/ Backup \/ Change \/ SwitchRelease \/ CommitTraffic \/ InstallUpdater
  BY <1>6, <1>7 DEF Stage, UnstageFailed, RetryLater, Reject, OpenTransaction,
     Backup, Change, SwitchRelease, CommitTraffic, InstallUpdater
<1>8. CASE Interrupted \/ Conclude \/ Unlink \/ GiveUp \/ RecordManual
            \/ RecoverRelease \/ Succeed \/ UnlinkSuccess
  <2>1. UNCHANGED live
    BY Zenon, <1>8 DEF Interrupted, Conclude, Unlink, GiveUp, RecordManual,
       RecoverRelease, Succeed, UnlinkSuccess
  <2> QED
    BY <1>6, <2>1
<1>9. CASE \/ \E t \in Tags : Publish(t)
           \/ \E reboot \in BOOLEAN : Crash(reboot)
           \/ TimerFires \/ BootService \/ CommandFails
  BY <1>6, <1>9 DEF Publish, Crash, TimerFires, BootService, CommandFails, durable
<1>10. CASE Select \/ ResolveTag \/ ValidateRelease \/ SmallAssetFails \/ FetchAssets
             \/ CheckRunningCore \/ HandleFailure
  BY <1>6, <1>10 DEF Select, ResolveTag, ValidateRelease, SmallAssetFails, FetchAssets,
     CheckRunningCore, HandleFailure, durable
<1> QED
  BY <1>2, <1>3, <1>4, <1>5, <1>7, <1>8, <1>9, <1>10 DEF Next, UpdaterStep

(* The database goes back only to the checkpoint of the open transaction, and never
   once that transaction let traffic in (recover, bootstrap, apply's except). *)
THEOREM RollbackCorrect == Spec => RollbackOnlyBeforeTraffic
<1>1. IInv /\ [Next]_vars =>
        [live'.schema # live.schema \/ live'.writes < live.writes =>
           /\ tx # NoTx /\ tx.phase \in {"preparing", "changing"}
           /\ \/ live'.schema = tx.tag
              \/ Recoverable /\ live'.schema \in {NoRelease, backup[tx.tag].schema}]_vars
  BY RollbackStep
<1> QED
  BY <1>1, HostCorrect, PTL DEF Spec, RollbackOnlyBeforeTraffic
=============================================================================
