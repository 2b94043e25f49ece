# A formal model of the Nextcloud–WeKnora integration

This directory holds TLA+ specifications of the publication protocol between a
Nextcloud instance and WeKnora: what keeps a published folder and its knowledge base
in step, what keeps the two services in agreement about who may read it, how the
production updater replaces a release, and what the operators' tools may do to a
deployment. Every definition names its code in the `map` of `PROJECT.json`; paths below
are relative to `apps/integration_weknora/lib/` unless they say otherwise.
`weknora.patch` is `integration/weknora.patch`, the Go side; `release.py` is
`deploy/production/release.py`; other `.py` files are in `scripts/ops` or `scripts`.

## 1. The system

`integration_weknora` is a PHP app. An administrator registers folders ("bindings"),
pairs each with a data source in WeKnora, and optionally with an event connection.
File operations append *hints* to an outbox. Background jobs deliver them, signed, to
WeKnora's inbox, whose dispatcher turns them into incremental syncs. WeKnora reads the
folder with signed requests under the pairing's machine key, parses what it read into
candidates, and makes a candidate readable after it asked Nextcloud once more. All
state is in two databases (Nextcloud's and WeKnora's). Jobs are declared not to run in
parallel, but `occ` commands and `scripts/weknora-event-worker.sh` run the same
services, and "database row locks serialize all workers". Around them, a timer on the
production host installs releases, and operators run tools that checkpoint, restore,
move, measure and rehearse a deployment.

| Component | State | Operations | What makes it hard | What makes it correct |
|---|---|---|---|---|
| Change outbox (`ChangeOutboxService`, `OutboxRetentionJob`) | `weknora_change_outbox`, its lock row, the floor per binding | append, initial and requested reconcile, page, prune | ids are taken before commit; retention against pairing | visible in id order; nothing unapplied is pruned |
| Event sender (`EventDeliveryService`, `EventConnectionService`) | `weknora_event_conn`: watermarks, key, status, due time | deliver, record failure, defer, configure, revoke, retry | stale snapshots, row locks held over HTTP, lost answers, crash before commit | no hint skipped, only the current key used, no lost wake |
| Applied-status poller (`EventAppliedStatusService`) | applied watermark and its proof in the same row | poll | races deliveries and rotation | applied never ahead of received |
| Receiver inbox (`weknora.patch`, `NextcloudEventInboxRepository`) | connections, events, checkpoint | Pair, Rotate, Revoke, IngestSigned, SignedConnectionStatus | duplicates, overlaps, old keys in grace | stores a gapless prefix |
| Receiver dispatcher (`weknora.patch`) | dispatch rows, queue tasks, applied watermark, broad-hint scans | claim, prepare, finish, fail, uncertain | crash between queue and row; a folder that changes between scans | a hint is applied only over a publication that is proved |
| Source versions and publisher (`weknora.patch`) | version rows, candidates, retry jobs | stage, parse, publish, fence, retry | the file changes while it is parsed; two publishers | what is readable is what Nextcloud holds |
| Binding registry (`BindingRegistryService`) | bindings, publication state and epoch, retired ids | save, stop, resume, remove, safety checks | other operations assume an epoch | no source left behind |
| Source pairing and rotation (`SourcePairingRegistryService`, WeKnora's pairing handler) | pair and rotation rows on both sides | prepare, commit, abort, finalize, each by machine request | lost and late requests, crash between remote and local commit | both sides decide an operation alike |
| Machine keys (`MachineKeyRegistryService`, `PairedServiceToken`) | key hashes, expiry | issue, find, revoke | keys follow several lifecycles | no usable key without its operation |
| Source decommission (`SourceDecommissionService`, WeKnora's handler and triggers) | decommission rows on both sides | begin, intent, acknowledge, finalize | begin is two transactions; syncs race it | the retired source is empty and paused |
| Production release (`release.py`, `parallel_download.py`, `backup.sh`) | `transaction.json`, `state.json`, images, database, checkpoint per tag | check, apply, recover, resume, give up; download | killed between any two commands; replaces its own code | users meet one version and keep their writes |
| Operations tools (`scripts/ops`, `scripts`) | checkpoints, journals, fixtures, drills, reports | checkpoint, restore, replay, rotate, rebind, measure, clean up | killed half-way, other actors on the host, repeated by hand | nothing forgotten, nothing left behind, a report that stays true |
| Publication recovery ledger, control recovery | hash chain, journal | append, export, replay | restore to an older database | no revocation forgotten |
| Manifest snapshots, authorization | snapshots, identity mappings | page, authorize | pages of a moving tree | a snapshot is consistent |
| Machine request signing | used nonces | verify | one insert per request | each nonce once |
| Status poll queue and projection | queue rows, claims, revision tokens | enqueue, claim, complete, inbox push | a claim outlives the change that made it | newer work survives |
| File change listener, content revision | revisions of files being written | pre/post write | writer and outbox in step | a changed file has a hint |
| Directory onboarding (`DirectoryPublicationService`) | saga rows | reserve, connect, pair, publish | many remote steps, each resumable | resumes without doubling |
| Employee connection, questions, activity | credentials, presentation | connect, ask, list | mostly request/response | – |
| Target and root migration | migration records | prepare, confirm | over a stopped binding | one target at a time |
| Target closure, tenant deletion | signed certificates | close, delete, acknowledge | cross-service proof | nothing is deleted unproven |
| Event health | alerts | evaluate | – | – |
| Read-only and one-shot scripts | – | smoke tests, packaging, acceptance | one request after the other | – |

`PROJECT.json` lists these with their sources and status, and under `hazards` each
place where the code is exposed to an order of steps that tests hardly reach.

## 2. What is modelled

### The change-event pipeline

| Module | Part | Code |
|---|---|---|
| `EventParameters` | constants and their assumption | – |
| `ChangeOutbox` | writers, global lock, publish on commit, wake, retention | `ChangeOutboxService` |
| `EventSender` | sender row and row lock, delivery workers, administrator calls, status results | `EventDeliveryService`, `EventConnectionService`, `EventAppliedStatusService` |
| `EventInbox` | receiver connections, inbox, checkpoint, applied watermark | `weknora.patch` 11516-13128 |
| `EventPipeline` | composition: the HTTP exchange, late requests, polls, fairness, properties | `Receive`, `SignedConnectionStatus`, the jobs |
| `HintFeed` | abstract specification: an append-only feed, a receiver with a prefix of it, retention | – |
| `MCEventPipeline` | TLC instances and their symmetry | – |

`writer` holds what a process that appends is doing (`Insert` takes the id and the
outbox lock, `CommitInsert` publishes, `Wake` is the separate UPDATE after COMMIT);
`worker` is the program counter of `deliverOne` with its local variables: the
snapshot of the row, the page, the answer. `rowLock` is `SELECT ... FOR UPDATE` on
the sender row, held from the recheck at `EventDeliveryService.php:118` through
the POST to the commit. `late` holds requests whose sender gave up: they may reach the
receiver in any order, or never. A crash releases the locks and drops
local variables.

Abstractions: what a hint says is its kind; a page is cut by a count that stands for
`PAGE_SIZE` and the body limit; age in retention allows any prefix to be old enough,
and a due time is *due*, *yield*, *poll* or *backoff*; the non-empty
`applied_error_code`s are one value; guards of administrator calls on publication state
are left out (a refused call is one that does not happen); removing a binding deletes
its sender row as a revocation does. The dispatcher is only the move of the applied
watermark to some received id; `Publication` has the dispatcher itself.

### Publication

| Module | Part | Code |
|---|---|---|
| `SourceVersions` | the file, its version rows, candidates, fence, publisher, retry jobs | `weknora.patch` (source versions, candidate retry, publish) |
| `Publication` | hints, dispatch rows, runs, scans, tasks, the applied watermark | `weknora.patch` (dispatcher, sync worker), `Listener/FileChangeListener.php` |
| `PublicationDrills` | two drills that fail a candidate and move a file, and users without a drill | `scripts/ops/isolated-failed-candidate-retry-smoke.py`, `isolated-move-trash-restore-smoke.py` |

One file may be in the folder of either of two sources, outside, or in the trash. A
*run* is one execution of a sync task: it is made in `Dispatch` (task queued, id written
to the row afterwards), takes its two checks, reads a complete manifest, stages what
differs from its cursor, and stores the cursor. A hint that names a folder is *broad* and
needs two complete scans for exactly its target before the watermark passes it.
`PublishRow` asks Nextcloud, and only then opens the candidate: between the two the
file may change. Leases and waiting times end by actions of their own.

Abstractions: one dispatcher goroutine, as the process starts one; one file per folder,
so a manifest page holds all of it and is read at once; the death of a sync worker in the
middle of a run is left out (the queue repeats the task, whose first step is the claim
that is modelled); tenants, chunks and build leases are left out. A drill takes its
next step when what it waits for is there; during its steps no user acts (`Quiet`), as
the drill owns its folder. The descendants in the cross-source drill are one file, and its
refused deletion is folded away.

### Source trust

| Module | Part | Code |
|---|---|---|
| `SourceParameters` | operation ids, keys, machine requests | – |
| `SourceRegistry` | Nextcloud: publication state, keys, pairs, rotations, decommission; `Serve` answers a machine request | `BindingRegistryService`, `SourcePairingRegistryService`, `MachineKeyRegistryService`, `SourceDecommissionService` |
| `SourceTarget` | WeKnora: pairing, rotation, decommission rows, the source's status, the never-touched mark | `weknora.patch` 18944-21302 and the triggers at 55517-55612 |
| `SourceTrust` | WeKnora's handlers, requests and their loss, properties | `weknora.patch` 45637-46670, 37394-37784 |
| `OperationAgreement` | abstract specification: one side decides an operation once, the other adopts it as decided | – |
| `MCSourceTrust` | TLC instances | – |

Each registry operation is one transaction under the `weknora_bind_lock` row and
hence one action, as is each repository transaction of WeKnora. Between
them a handler holds no lock: `handler` keeps the request it waits for, or the answer
it goes on with. `LoseExchange` is the 20 second timeout, a transport error or
the death of the handler, before or after the answer. A lost request stays in `late`
and may arrive at any time. A handler's signed GET and its local insert are one step:
they read and write different databases, so what runs between them commutes with one
of the two.

Abstractions: one binding (locks, keys and operations of two bindings never meet); the
identifiers that an operation repeats (tenant, knowledge base, source, instance, hash)
are the operation id; the expiry 24 hours after a rotation may pass at any moment;
`begin` of a decommission is `Stop` followed by `BeginDecommission`; repeats that
change nothing are stutters. The control-recovery gate, target closure and
the one-time token handoff to directory onboarding are not modelled.

### The production release

`ReleaseUpdate` is `release.py`: a timer starts `check`, the boot service starts
`--recover-only` and then the stack, under one file lock. A release is the number of its
tag. `tx` is `transaction.json` and its phase (`preparing`, `changing`,
`traffic_committed`, `manual-recovery`), `state` is `state.json`, `host` the installed
files and images, `live` the database and the running services, `backup` the checkpoint
of each tag, and `proc.pc` the next command. Every external command and every durable
write is a step, between any two of them the process may be killed, and every
command may fail; `budget` bounds both. Users write to the database whenever the proxy
is up and maintenance is off. `acked` is a history variable: the writes users were told
of. The updater also replaces itself: `main` and `deps` are the two halves of its
own code.

Abstractions: what an image or a configuration contains is the release that it belongs
to; a command succeeds, fails or never returns because its process is killed; a checkpoint
is the schema, writes, configuration and environment it holds.

### Operations tools

`Operations` extends one module per tool and begins with one of them (`tool`). Each
works on a deployment or synthetic fixture of its own, so no step of one meets the state
of another; one run checks all.

| Module | Tool | Who interferes |
|---|---|---|
| `AssetDownload` | `parallel_download.py`: blocks of an asset from a pool of threads | kills |
| `RecoveryJournal`, `ColdRecovery` | `shared-cold-checkpoint.py`, `shared-cold-restore-plan.py`, `publication-recovery-journal.py`, `coordinated-recovery-gate.py` | withdrawals, collectors, a foreign container, kills |
| `RestoreDrill` | `shared-cold-restore-drill.py`, `shared-application-restore-drill.py` | other users of the Docker daemon |
| `NormalRestore` | `synthetic-ldap-normal-restore.py`: phases in any order | kills at any step |
| `SyntheticFixture` | `synthetic-ldap-fixture.py` | kills |
| `LanAddress` | `rotate-lan-ip.py`, `enable-lan-https.py`, both at once | edits, a gateway that moves, kills |
| `PilotVolume`, `PilotLoad` | `pilot-original-volume.py`, `pilot-load.py` | full disks, lost leases and answers |
| `UpgradeRecovery` | `isolated-upgrade-failure-recovery.py` | damaged archives, foreign resources |
| `SourceDriver` | `local-source-pairing.py`, `local-source-rotation.py` from two terminals | each other, late requests |
| `EventRebind` | `local-source-rotation.py rebind` | deliveries, other administrators |
| `AbortSmoke` | `local-source-pairing-abort-smoke.py` and its relay | lost answers |
| `DualRestore` | `isolated-dual-service-restore.py` | damaged archives, foreign resources |
| `ResourceWatch` | `synthetic-ldap-resource-watch.py` | the fixture's own tools, a second watch |

The tools that drive WeKnora or Nextcloud see of them what their endpoints show; the
protocols behind those endpoints are `SourceTrust`, `EventPipeline` and `Publication`.
In `UpgradeRecovery` an archive rots only before it is verified; in `ColdRecovery` a
damaged stopped target is noticed when it is verified; `LanAddress` writes a file as a
check and a rename, two steps. `DualRestore` folds WeKnora's data volume into its database.

### Proofs

`EventPipeline_proofs`, `HintDelivery_proofs`, `Watermarks_proofs`, `SourceTrust_proofs`,
`ReleaseUpdate_proofs`, `Publication_proofs`, `Tools_proofs` and `Operations_proofs` hold the
theorems of section 5. `HintDelivery_proofs` extends `EventPipeline_proofs` and is extended by
`Watermarks_proofs`; `Tools_proofs` holds invariants that `Operations_proofs` joins.

## 3. Runs

| Run | Instance | States | What it asks |
|---|---|---|---|
| `delivery` | one binding, 2 workers, 3 ids, crashes (a request posted before one may arrive late) | 779,688 | nothing skipped, stored out of order, sent with an old credential, or left asleep |
| `commit` | 2 bindings, 2 writers, 2 keys, rollbacks, timeouts, unsendable requests | 1,459,897 | hints become visible in id order |
| `repair` | one binding, 2 connections, revocation, late requests | 745,137 | retention and re-pairing; `EventPipeline` implements `HintFeed` |
| `liveness` | one worker, 2 ids, one-hint pages, both kinds of hints, every other failure path, `FairSpec` | 160,080 | a hint settles; the sender's watermarks trail the receiver's on every path |
| `publication` | 2 sources, 3 candidates, 3 runs, 2 hints, 2 leases; three drills, or users with one mishap, with or without an embedding outage | 1,191,067 | what can be read is current, what was applied was published |
| `pairing` | 2 pairing operations, 2 handlers, a spare key | 38,553 | pairings implement `OperationAgreement`; no key without its operation; removal leaves no source behind |
| `decommission` | one pair, one rotation, 2 handlers, 3 stops or resumes | 638,604 | credential continuity; rotations implement `OperationAgreement`; a decommission stays exact and the retired source is empty |
| `release` | 2 releases, 2 disruptions, one user write, 2 attempts, `FairSpec` | 404,234 | one version, writes kept, a runnable updater, every release decided |
| `operations` | one to three mishaps per tool | 1,126,398 | section 4 |
| `dropped_commit`, `release_rollback`, `release_unannounced` | smallest instance | – | the disagreements of section 6 |

Bounds. `MaxId` caps the auto-increment counter, `MaxKey` the keys of a connection,
`MaxEpoch` the stops and resumes. Three ids are the fewest with which a batch of two can
overlap another batch on either side; two workers, writers or handlers
give every pairwise race, and since each acts under one lock at a time a third adds only
another waiting process. Two epochs give a stop and a resume around a prepared
operation, three allow that before a decommission. One rotation, with its lost and
repeated requests in two handlers, reaches every step of a rotation; that two of them may
follow one another is covered by the proofs, which hold for any set of operations.
`Disruptions` lists the failures that may happen in an instance, so that
the state space is spent on one question each; `liveness` has all of them but revocation,
which `repair` has, and requests that cannot be encoded or sent for want of
configuration, which `commit` has. Two disruptions of the updater are one failure and
one during its recovery; two releases are one to come from and one to go to, besides the
installed one. Three candidates are the failed one, its replacement and one for
another ETag. `WithdrawItem`'s branch for a row that is no longer current is not reached
within these bounds. The other bounds of `Operations.cfg` give each tool one mishap at every
step, and more where the question is about two. Symmetry is used on sets
of model values that no definition tells apart; the liveness properties are
checked without it.

Deadlock is not checked: the system may stop. Operation ids and hint ids run out in a
bounded instance, a retired binding stays retired, a binding whose hints were pruned
before its first pairing can never be connected, a tool ends, and a host whose releases
are all decided rests.

Fairness. In `liveness`: the jobs run every minute and are rescheduled for ever,
so a worker that can take its next step takes it, a writer ends its transaction, and due
times pass: weak fairness. Failures are outside the code's control; that the
same step does not fail every time it is tried is strong fairness on reading a page,
posting, the receiver's answer and the commit of an exact receipt. Nothing is assumed of
administrators or the dispatcher. `HintSettles` therefore allows a sender to stop
visibly (paused, which `EventHealthMonitor` reports) and speaks of hints that are
committed. In `release`: weak fairness of the timer, which systemd starts again and
again, and of the updater's next step, since every command ends or is ended by its
timeout. The other specifications state no fairness.

Each property of a passing run has a mutant in `PROJECT.json`: an alternative of one
definition, marked `mutant` in the module, under which TLC finds the property
violated.

## 4. The properties

**Pipeline.** `NoHintSkipped`, `InboxGapless` and `WatermarksOrdered` relate three
databases' worth of counters: published ids, the receiver's store and the sender's belief.
They hold because hints are published in id order (`VisibleInOrder`, from the
global lock), because a batch is rechecked against the locked row before it is sent
(`OnlyCurrentCredential`), and because the receiver takes only what starts at its
checkpoint. `RetainedUntilApplied` and `NoOutboxGap` say that retention and pairing
never cut off a receiver; `NoLostWake` that parking an idle sender does not race an
append (it does not hold where a wake may fail: then only `HintSettles`, by the poll
schedule, does).

**Publication.** `ReadableIsCurrent`: a readable row is the published candidate of the ETag
its source wants. `AppliedNeverStale`: what is readable was announced at the last applied
hint or later. `OneEventRun`: two runs of a source never work past their checks at once,
though a dispatcher that died may have queued two. `BroadConfirmedTwice` and
`FailedReplacedUnderLease` are about single steps. `DrillChecksHold` is what the two drills
require of the index at each of their steps.

**Source trust.** `CredentialContinuity` is what a rotation must never break: the source's
key is the pair's key, or else Nextcloud has committed a rotation that WeKnora can still
complete. `NoOrphanKey` is its converse: no key outlives its operation. `PairsAgree` and
`RotationsAgree` are refinements. `DecommissionExact` and `RetiredSourceIsEmpty` hold
the evidence of a decommission together over both databases, and `NoSourceLeftBehind`
that removing a binding is never a way around it.

**Release.** `TrafficSeesOneVersion` (users who reach the application meet code, images,
database and configuration of one release), `ClosedMeansServing` (an absent journal means
that the last successful release is up and open), `AcknowledgedWritesKept`,
`UpdaterRunnable` (a killed self-update leaves a `release.py` no newer than its
modules), `RollbackOnlyBeforeTraffic`, and, under fairness, `ReleaseDecided`. The first
three hold until a process dies in a recovery that the journal did not announce
(`budget.torn`, section 5); `FailedUpdateRestores` is what the deployment's README promises
without that exception, and does not hold.

**Operations.** Each property is the conjunction of what several tools promise and is
named for the promise: `RecoveryForgetsNothing` (checkpoints of one instant, one linear
history, no withdrawal lost), `OpenedAsRestored` (what is opened is the checkpoint,
neither half-migrated nor newer), `LeftoversAccounted` (what a killed tool leaves is
removed, reported, or kept with what removes it), `GuardsComeFirst` (the fence before
the restored task, the journal before the reader, the groups before the employee),
`AddressChangesLast`, `MeasurementsSound`, `ReportsHold` (what a tool said stays true) and
`RepeatedToolGoesOn`.

## 5. What is proved

All theorems are for every value of the constants that meets the named assumption of the
module; none of the properties is inductive alone, and each proof is of a stronger
invariant that TLC checked first on the instance of the run.

### The pipeline

For all sets of bindings, connections, workers and writers, all failures in
`Disruptions` and all bounds that meet `ParameterAssumption`, every safety property of
the pipeline, and that it implements `HintFeed`:

| Theorem | States | Module |
|---|---|---|
| `TypeCorrect` | `Spec => []TypeOK` | `EventPipeline_proofs` |
| `CredentialCorrect` | `Spec => []OnlyCurrentCredential` | `EventPipeline_proofs` |
| `VisibleInOrderCorrect` | `Spec => VisibleInOrder` | `HintDelivery_proofs` |
| `WholePagesCorrect` | `Spec => []WholePages` | `HintDelivery_proofs` |
| `InboxGaplessCorrect` | `Spec => []InboxGapless` | `HintDelivery_proofs` |
| `NoHintSkippedCorrect` | `Spec => []NoHintSkipped` | `Watermarks_proofs` |
| `WatermarksOrderedCorrect` | `Spec => []WatermarksOrdered` | `Watermarks_proofs` |
| `RetainedUntilAppliedCorrect` | `Spec => []RetainedUntilApplied` | `Watermarks_proofs` |
| `NoOutboxGapCorrect` | `Spec => []NoOutboxGap` | `Watermarks_proofs` |
| `FeedCorrect` | `Spec => ImplementsFeed` | `Watermarks_proofs` |
| `NoLostWakeCorrect` | `Spec => []NoLostWake` if `"lost_wake" \notin Disruptions` | `Watermarks_proofs` |

The argument in the order of the modules:

1. *The row lock.* A worker that waits for an answer still has a row to write to because
   it holds the row's lock and the row is active and unchanged
   (`OnlyCurrentCredential`), which in turn needs the types; so the first induction is on
   their conjunction. Its core is `UnlockedRowCredential`: who rewrites only a row that
   nobody has locked leaves every waiting request current. `DeliveryCredential` is the
   case where workers themselves take and release locks.
2. *The global lock.* `IdOrder`: a writer with an inserted row holds the outbox lock, its
   id is `nextId`, and every published id lies below. So hints become visible in id order.
3. *The outbox.* `OutboxWhole`: a committed hint above its binding's floor is still there
   (`PruneEffect`: retention takes a prefix and raises the floor to it).
4. *Batches.* `WholePages`: a page leaves out no hint between its cursor and its last id
   (`PageWhole`), and this stays true of a batch in a worker or late on the wire, however
   old, because whatever commits later lies above it (`WholeKept`).
5. *The receiver.* `Stored`: its inbox is the prefix of its binding's hints that its
   checkpoint names, since a whole batch that starts at the checkpoint extends the prefix
   (`BatchExtends`). This is `InboxGapless`.
6. *The sender's watermarks.* `ReceiptsTrue`: an exact answer never says more than the
   receiver has reached. `Trailing`: floor <= applied <= received <= the receiver's
   checkpoint, and applied <= the receiver's applied watermark. `RowSteps` lists the five
   ways a step can treat a row, and only an exact receipt, a verified status and a new row
   move a watermark. `NoHintSkipped`, `WatermarksOrdered` and `RetainedUntilApplied` follow,
   and `NoOutboxGap` with `Gaps`: a gap a worker has read is real for its snapshot, so the row it would
   pause has moved on.
7. *The feed.* One lemma per disjunct of `Next` names the abstract step it is
   (`CommitInsert` publishes, `Prune` retires, an exact receipt confirms, ...).
8. *The wake.* `ParkSteps`: a row is parked only by a check under its lock that finds
   nothing pending; `PendingSteps`: a hint becomes pending only by a commit whose writer
   wakes next, and that wake waits for the same lock.

### Source trust (`SourceTrust_proofs`)

For all sets of operations, spare keys and handlers and every bound on epochs that meet
`SourceAssumption`:
`TypeCorrect`, `CredentialCorrect`, `OrphanCorrect`, `DecommissionCorrect`,
`RetiredCorrect`, `NoSourceLeftCorrect` (one for each invariant of section 4), and the
refinements `PairsCorrect` and `RotationsCorrect` of `OperationAgreement`. They follow from
one inductive invariant (`SourceTrustCorrect`), which has a part for each thing a step can
disturb:

* *Nextcloud.* `KeyInv` (a usable key belongs to a live pair or an unfinished rotation, and
  an operation that was not begun has none), `PairInv` (one pair at a time, and its key is
  valid), `RotationInv` (one unfinished rotation at a time, of the active pair) and
  `ClosureInv` (removal takes everything with it; a decommission under way lets nothing
  move).
* *WeKnora.* `SourceInv` (one source at most, where a pairing is unfinished or active; one
  being closed is paused, empty and not in a rotation) and `TurningInv` (one unfinished
  rotation per active pairing).
* *Between the two.* `RowsInv`, `KeysInv` and `ClosingInv` say what each of WeKnora's rows
  implies of Nextcloud's row of the same operation; `KeysInv` is the stronger form of
  `CredentialContinuity`.
* *What is on its way.* `MessageInv`. A request may arrive at any time, so `Sent` says of
  each one, waited for or late, which row sent it and how far that row must have come, and
  `True` what an answer still to be read implies.

The last part is kept because the rows only move forward (`Onward` for Nextcloud,
`TargetOnward` for WeKnora), whatever the step, and one side moves at a time (`Moves`).
`MovedBy` says which row moved for which request; it is also what each step of the two
refinements rests on.

### The release (`ReleaseUpdate_proofs`)

For any number of releases, writes, disruptions and attempts. The inductive invariant
(`HostCorrect`) says what the journal's phase means for a process that finds it after a
kill: `HostInv` bounds for each phase what may be half-changed on the host, `ApplyInv` and
`RecoverInv` say what each command has reached, `PlaceInv` and `TagInv` where the updater
may be under which phase and for which tag, `InstalledInv` orders the two halves of the
updater's own code, `WritesInv` compares the database and the checkpoint with what users
were told, and `AttemptsInv` bounds the retries.

`TypeCorrect`, `UpdaterRunnableCorrect` and `RollbackCorrect` hold of every behaviour,
every command failing wherever it likes. `OneVersionCorrect`, `ClosedMeansServingCorrect`
and `WritesKeptCorrect` hold of every behaviour too, failing journal writes included, up to
one event, which the history field `budget.torn` records: the death of a process that is
emptying or refilling the database or the config while the journal still says `preparing`
(`Unannounced`). No constant switches that event off; the properties say what holds until
it happens, and `release_unannounced` shows what follows. The parts of the invariant that
speak of services and data are stated under `~budget.torn`, the others without it. A
recovery that the journal does not announce and that is *not* killed is part of the proof:
it ends in the old release, or in manual recovery with the journal kept.

### Publication (`Publication_proofs`)

For any sources, bounds and run ids that meet `VersionsAssumption`,
`PublicationAssumption` and `DrillsAssumption`, whatever the drills and the users do:
`ReadableCorrect`, `AppliedCorrect`, `OneRunCorrect`, `DrillChecksCorrect` and the action
properties `ReplacedCorrect` and `ConfirmedCorrect`. The inductive invariant (`PublicationCorrect`) is
`Sound /\ FlowInv`. `Sound` has the types, `ReadableIsCurrent`, that a version row names a
candidate of its own source (`VersionNames`), and that so does whatever a run or a
publisher has at hand (`RunHands`, `PublisherHands`). `FlowInv` follows a change:

* `FileInv`: the last hint of a folder says what the folder shows. `OrderInv`: applied,
  dispatched, received and recorded hints are in this order.
* `PhaseInv`, `LogInv` and `WorkInv`: what the dispatch row's phase says of its task; a log
  names at most one event run; past its second check such a run is the only one of its
  source, also if a dispatcher died and its range was claimed again.
* `ScanInv`: the mark of a first scan is one for this very target.
* `RunInv`, `CursorInv` and `FreshInv`: what a run has listed, what the cursor stores and
  what a source's candidate says was announced at or after the hint that each of them is
  counted to. `AppliedNeverStale` is the case of a readable candidate.
* `ClaimInv`: a candidate claimed for a retry stays failed, and once replaced it is fenced
  for good.

Most steps preserve most parts by one of a few lemmas about rows that are kept
(`RowsKept`, `RowsSame`, `Steady`) and hints that are only appended (`HintsKept`).

`DrillChecksCorrect` adds `TrialInv`, an invariant per place of a drill:

* `Calm`: a drill meets no mishap, so a claimed range goes beyond what is applied, its task
  is the only event run of its source, and no retry window closes. With every hint applied
  nothing is then under way (`AppliedSettled`) and a candidate shows its folder
  (`AppliedView`), which is why what a drill sees published is the file as it is
  (`PublishedIs`) and what it sees withdrawn is fenced for good (`WithdrawnIs`).
* `RestKnown`: between two changes of the file everything stays settled. `RetryKnown`,
  `MoveKnown` and `CrossKnown`: what each drill has seen by then, above all that the failed
  candidate is current, or was replaced by the holder of its lease, or its replacement
  failed in turn (`Tracked`). The theorem is about the demands that do not race: where the
  automatic retry overtakes the drill's look, the model goes to "missed" (section 6).

### The operations tools (`Tools_proofs`, `Operations_proofs`)

For a fixture of any size (files, volumes, archives, tasks, hosts, blocks, collectors) that
meets the assumption of each tool's module, and any bound on faults: the eight properties of
section 4 under `Operations`, `RecoveryForgetsNothingCorrect` to `MeasurementsSoundCorrect`
for the invariants and `RepeatedToolGoesOnCorrect` for the action property.

Each tool has an inductive invariant of its own (`DownloadInv`, `RebindInv`, `DrillInv`,
`FixtureInv`, `PilotInv`, `DriverInv`, `SmokeInv` and `RecoveryInv` in `Tools_proofs`;
`LanInv`, `LoadInv`, `WatchInv`, `NormalInv`, `UpgradeInv` and `DualInv` in
`Operations_proofs`), and `OperationsInv` is their conjunction. It holds initially because
every tool begins at rest, and it is kept because a step of `Operations` is a step of one
tool and a stutter of every other (`EveryToolSteps`). A tool's invariant says for each place
of its script what the place promises of the deployment, whoever acted in between: a value
read earlier is either still what it was, or the step that will use it compares it again.
The ones that carry most:

* *Recovery* (`RecoveryInv`). What the journal retains is not a fold over its records but the
  piece of each record that adds to the one before (`Retained`, `RecordOf`), so that no
  induction over data is needed. `OneChain`: the records go on one after another, each
  position is covered by one, and two heads agree as far as the later record reaches, so a
  complete record holds one linear history, whatever collectors ran at the same time and
  wherever they were killed. `CaptureKnown`: what is dumped and archived is what the stopped
  service still holds, as long as nothing writes to it. `AnchorKnown`: the
  journal's anchor is a prefix of the captured history. `ReplayKnown`: the withdrawn files of
  the plan (`ToWithdraw`), or the captured ones, are withdrawn before the receipt is completed
  and are so until they are approved again. `IndexKnown`: what WeKnora lists and publishes was
  not overlooked (`Overlooked`).
* *Drivers* (`DriverInv`). Pairing and rotation rows only go on (`RowsGoOn`), so a code that
  proved an abort or an activation still proves it when it is read; `AbortProved` is what lets
  one side be aborted alone.
* *Addresses* (`LanInv`). Only one helper is past the gateway's lock. Where no helper failed
  and the lock is free, the trusted proxies are the foreign ones and the saved gateway address;
  past the lock they are what the holder's own place says. Once a rotation has settled, any
  helper past the lock works for its new host.
* *Restores* (`NormalInv`, `UpgradeInv`, `DualInv`). How far the script got tells which volumes
  hold the checkpoint again: the databases in their order before the receipt; for an upgrade,
  both archives are of one instant and each volume is empty before it is filled; WeKnora is
  down from the destruction of the project until the deleted file is removed again.
* *Pilot* (`PilotInv`). A PUT is in flight only where the script waits for it, and is one
  of the batch that is not done.

### Only model-checked

`HintSettles` and `ReleaseDecided`: liveness under fairness, which the prover does not do.
Every other property of a passing run is a theorem.

## 6. Where code and text differ

* `dropped_commit`: `docs/nextcloud-event-sender.md:84` says a dropped local commit
  can safely retry *the same immutable batch*. The code pages again; if hints were
  appended meanwhile the retried batch is longer, the receiver answers 409, and the
  sender is paused with `receiver_checkpoint_conflict`, again after each `retryPaused`.
* `release_rollback`: the comment at `release.py:718-720` says that once real user writes
  may arrive, nothing rolls them back. `recover` lets users in (`release.py:545`) before it
  records that it is done; killed between the two, it is run again and restores
  the checkpoint over what they wrote.

* `release_unannounced`: `deploy/production/README.md:70` says that an update that fails
  before its internal check succeeded restores the old source, the database and the config
  of before it. When the journal write of `changing` (`release.py:705-706`) fails after
  `backup.sh` wrote COMPLETE (a full disk), apply's handler (`:746-748`) runs `recover` while
  the journal still says `preparing`. Killed there, `interrupted` takes the host for an
  untouched one (`:581-584`), `resume_previous` opens traffic on a dropped or half-restored
  database or config, and the journal is deleted under `interrupted-before-change`.

Observations met while modelling, without a run of their own:

* *Manual sync.* `ReusedReconcileIsPending` of `EventPipeline`: a reconcile marker is
  meant to be reused while pending (`ChangeOutboxService.php:197-201`), but is judged by the
  sender's watermark; one whose receipt was lost is reused after it was applied.
* *Empty sender.* `EmptySenderYields`: the comment at `EventDeliveryService.php:88` says an
  empty sender yields. After a failed page read `last_error_code` stays, `deferPoll`
  returns early (`:293`), and the sender is due at every pass. What that does to the bindings
  behind it in the due queue is not covered: the runs have one binding with an error, and a
  worker takes any due one.
* *Stranded rotation.* `RotationResumable` of `SourceTrust`:
  `docs/nextcloud-source-pairing.md:149-151` says a rotation whose finalize ACK was
  lost is resumed by a retry. `SourceDecommissionService::begin` (`:47`) looks only at
  Nextcloud's rows, so a decommission may begin while WeKnora's is still `switched`; from
  then on publication cannot be resumed, the retry wants it active, and WeKnora's own
  decommission refuses the unfinished rotation.
* *Unprovable ranges.* A folder move that follows an upsert in the same unapplied range can
  never be proved published (`weknora.patch` 11217-11230, asserted by the test at 13856):
  applied stalls with `publication_unproven` until the file changes again. A parser whose
  answer is lost leaves its candidate staging until the next audit.
* *Drills.* The retry drill's `retry_status` and `strict_latest_denial` race with the first
  automatic retry; a replacement made just before the embedding service answers again fails
  in turn, and `wait_recovered` then loses the candidate it knows. `AbortSmoke`'s clean-up
  cannot pass where `BindingRegistryService::remove` refuses (487-502), and a lost answer to
  the creation of its binding lets it delete the folder under an existing one.
* *LAN address.* `enable-lan-https.py` failing between `trusted_proxies` and `write_state`,
  followed by a move of the gateway, leaves a stale proxy trusted.
* *Pilot.* An interrupted clean-up after `compose.json` is unlinked cannot be repeated and
  its report stays "retained". *Rebind.* A late 401 may pause the sender after
  `already_active` was reported, and its compare-and-set does not look at the error code.
  *Restore.* `restore-data` cannot be repeated after a kill.

## 7. Plan

Done: pipeline, source trust, release, publication and operations tools (modules, runs and
proofs of their safety properties and refinements). Left:

1. `StatusQueue` with the file change listener: claims with revision tokens against
   concurrent writes and status pushes. Property: the newest revision is never lost.
2. `DirectoryOnboarding`: the resumable saga, composed with `SourceTrust` by the token
   handoff.
3. Target closure, tenant deletion and migrations: other owners of a stopped binding.

## 8. Not modelled

Request signing (one check and one insert per request), presentation and activity,
health alerts, directory and LDAP reads, and the read-only scripts keep little state
that interacts, or are I/O. Manifests are read, not computed: paging over a moving tree
and the authorization of an employee are not modelled. `ColdRecovery` is run with one
collector and has no target closures; `DualRestore` does not race its ownership check
against other users of the daemon; while the cold pair is captured, what somebody starts
keeps running and what somebody edits stays edited (`Meddle`): a start and stop, or an edit
put back, between two of the capture's point-in-time checks
(`shared-cold-checkpoint.py:575-736`) would escape them, and `MatchedCheckpoint` says nothing
of it. `PublishCommit` ends a publisher it refuses as `unready`; the code also has `error`
(`weknora.patch:22557-22562`) when the build was closed for writing between its two looks
(`ValidateNextcloudBuildWrite`), which the runs do not reach. That a volume is replaced between its check and
`docker volume rm` is not claimed to be safe. The rest of what `PROJECT.json` lists as
`not_modelled` is in the plan.
