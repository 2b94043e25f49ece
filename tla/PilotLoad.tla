------------------------------ MODULE PilotLoad ------------------------------
(* The load pilot: pilot-load.py. It pairs a folder of its own with a knowledge base of its
   own, measures the bulk synchronization and then the way of single events through sender,
   inbox and dispatcher, and revokes the event credentials in any case. *)
EXTENDS Integers, FiniteSets, Sequences

CONSTANTS NSamples,        \* --event-samples
          MaxTrouble       \* bound: lost leases, lost answers and failures

VARIABLES
  load,        \* the running pilot
  pair,        \* what the two services hold of the fixture
  flow,        \* the event's way: watermarks, the dispatch row
  tasks,       \* the synchronization tasks, in the order they were claimed
  timed,       \* the events written for a sample, in order
  hops,        \* HopRecorder: per sample, what its polls first observed
  trouble

loadVars == <<load, pair, flow, tasks, timed, hops, trouble>>

MaxLoadEvents == 2 * NSamples + 1

LoadInit ==
  /\ load = [pc |-> "idle", pattern |-> "sequential", sample |-> 0, seen |-> 0,
             sourcePaired |-> FALSE, cloudPaired |-> FALSE, error |-> FALSE,
             incomplete |-> FALSE, ok |-> FALSE]
  /\ pair = [bound |-> FALSE, state |-> "none", synced |-> FALSE, published |-> FALSE,
             receiver |-> "none", sender |-> "none"]
  /\ flow = [written |-> 0, sent |-> 0, received |-> 0, state |-> "idle", target |-> 0,
             dispatched |-> 0, applied |-> 0, log |-> 0, sync |-> "none"]
  /\ tasks = <<>> /\ timed = <<>> /\ hops = <<>> /\ trouble = 0

LoadAt(pc) == load.pc = pc
LoadGoto(pc) == load' = [load EXCEPT !.pc = pc]
Trouble == trouble < MaxTrouble /\ trouble' = trouble + 1
OutsideStays == UNCHANGED <<pair, flow, tasks, timed, hops, trouble>>
WriteEvent == flow' = [flow EXCEPT !.written = @ + 1]

----------------------------------------------------------------------------
(* run: files are uploaded before the binding exists, so they leave no events behind. *)
StartLoad ==
  /\ LoadAt("idle")
  /\ \E pattern \in {"sequential", "post-accept"} :
       load' = [load EXCEPT !.pc = "bind", !.pattern = pattern]
  /\ OutsideStays
CreateBinding ==
  /\ LoadAt("bind")
  /\ pair' = [pair EXCEPT !.bound = TRUE]
  /\ \E baseline \in {0, 1} : flow' = [flow EXCEPT !.written = baseline]
  /\ LoadGoto("pair")
  /\ UNCHANGED <<tasks, timed, hops, trouble>>
(* Prepared at Nextcloud, then handed to WeKnora with the one-time token *)
PairSource ==
  /\ LoadAt("pair")
  /\ pair' = [pair EXCEPT !.state = IF @ = "none" THEN "prepared" ELSE "pending"]
  /\ LoadGoto(IF pair.state = "none" THEN "pair" ELSE "active")
  /\ UNCHANGED <<flow, tasks, timed, hops, trouble>>
WaitActive ==
  /\ LoadAt("active")
  /\ IF pair.state = "active" THEN LoadGoto("sync") /\ UNCHANGED pair
     ELSE pair' = [pair EXCEPT !.state = "active"] /\ UNCHANGED load    \* the retry completes it
  /\ UNCHANGED <<flow, tasks, timed, hops, trouble>>
(* wait_sync and the version inventory, then wait_published_versions *)
BulkSync ==
  /\ LoadAt("sync")
  /\ pair' = [pair EXCEPT !.synced = TRUE]
  /\ LoadGoto("published")
  /\ UNCHANGED <<flow, tasks, timed, hops, trouble>>
WaitPublished ==
  /\ LoadAt("published") /\ pair.synced
  /\ pair' = [pair EXCEPT !.published = TRUE]
  /\ LoadGoto("receiver")
  /\ UNCHANGED <<flow, tasks, timed, hops, trouble>>

(* The connection is created at WeKnora, then configured at Nextcloud. An answer that does
   not arrive leaves a connection this run does not know of. *)
CreateReceiver ==
  /\ LoadAt("receiver") /\ pair.receiver = "none"
  /\ pair' = [pair EXCEPT !.receiver = "live"]
  /\ load' = [load EXCEPT !.pc = "sender", !.sourcePaired = TRUE]
  /\ UNCHANGED <<flow, tasks, timed, hops, trouble>>
ConfigureSender ==
  /\ LoadAt("sender")
  /\ pair' = [pair EXCEPT !.sender = "live"]
  /\ load' = [load EXCEPT !.pc = "baseline", !.cloudPaired = TRUE, !.seen = flow.written]
  /\ UNCHANGED <<flow, tasks, timed, hops, trouble>>
AnswerLost ==
  /\ Trouble
  /\ \/ LoadAt("receiver") /\ pair' = [pair EXCEPT !.receiver = "live"]
     \/ LoadAt("sender") /\ pair' = [pair EXCEPT !.sender = "live"]
  /\ load' = [load EXCEPT !.pc = "revoke-sender", !.error = TRUE]
  /\ UNCHANGED <<flow, tasks, timed, hops>>
DrainBaselineAtOnce ==   \* mutant: the first sample does not wait for the historical events
  /\ LoadAt("baseline") /\ LoadGoto("sample") /\ OutsideStays
(* The historical events are dispatched and applied before the first sample. *)
DrainBaseline ==
  /\ LoadAt("baseline")
  /\ flow.dispatched >= load.seen /\ flow.applied >= load.seen
  /\ LoadGoto("sample")
  /\ OutsideStays

----------------------------------------------------------------------------
(* measure_event_queue: with "post-accept" a priming event is written first, and its task is
   in the queue before the measured event is written. *)
WriteProbe(next) ==
  /\ flow.written < MaxLoadEvents
  /\ WriteEvent
  /\ timed' = Append(timed, flow.written + 1)
  /\ load' = [load EXCEPT !.pc = next, !.seen = flow.written + 1]
Prime ==
  /\ LoadAt("sample") /\ load.sample < NSamples /\ load.pattern = "post-accept"
  /\ WriteProbe("primed")
  /\ UNCHANGED <<pair, tasks, hops, trouble>>
(* wait_checkpoint: the dispatched watermark, and no blocked dispatcher *)
Reached(mark) == flow[mark] >= load.seen
PrimeAccepted ==
  /\ LoadAt("primed") /\ Reached("dispatched")
  /\ LoadGoto("measure")
  /\ OutsideStays
Measure ==
  /\ \/ LoadAt("measure")
     \/ LoadAt("sample") /\ load.sample < NSamples /\ load.pattern = "sequential"
  /\ WriteProbe("accepted")
  /\ hops' = Append(hops, [log |-> 0, worker |-> 0, accept |-> FALSE, receipt |-> FALSE])
  /\ UNCHANGED <<pair, tasks, trouble>>
Accepted ==
  /\ LoadAt("accepted") /\ Reached("dispatched")
  /\ LoadGoto("applied")
  /\ OutsideStays
Applied ==
  /\ LoadAt("applied") /\ Reached("applied")
  /\ load' = [load EXCEPT !.pc = "sample", !.sample = @ + 1]
  /\ OutsideStays

(* HopRecorder.observe: one snapshot of the dispatch row and its task. A log or a worker is
   the event's only when the row's target covers the event. *)
CoversEvent == flow.target >= load.seen
First(old, new) == IF old = 0 THEN new ELSE old
Observe ==
  /\ load.pc \in {"accepted", "applied"}
  /\ LET n == Len(hops) IN
       hops' = [hops EXCEPT ![n] =
         [log |-> IF CoversEvent THEN First(@.log, flow.log) ELSE @.log,
          worker |-> IF CoversEvent /\ flow.sync # "none" THEN First(@.worker, flow.log) ELSE @.worker,
          accept |-> @.accept \/ flow.dispatched >= load.seen,
          receipt |-> @.receipt \/ flow.sent >= load.seen]]
  /\ UNCHANGED <<load, pair, flow, tasks, timed, trouble>>

----------------------------------------------------------------------------
(* External: the sender delivers, the receiver's dispatcher claims everything received
   under a lease, creates the task's log, and enqueues it; the task runs and publishes. *)
Deliver ==
  /\ pair.sender = "live" /\ pair.receiver = "live"
  /\ \/ /\ flow.received < flow.written /\ flow' = [flow EXCEPT !.received = flow.written]
     \/ /\ flow.sent < flow.received /\ flow' = [flow EXCEPT !.sent = flow.received]
  /\ UNCHANGED <<load, pair, tasks, timed, hops, trouble>>
ClaimDispatch ==
  /\ flow.received > flow.dispatched
  /\ flow.state \in {"idle", "retry"} \/ (flow.state = "queued" /\ flow.sync = "success")
  /\ flow' = [flow EXCEPT !.state = "leased", !.target = flow.received, !.log = 0, !.sync = "none"]
  /\ UNCHANGED <<load, pair, tasks, timed, hops, trouble>>
EnqueueTask ==
  /\ flow.state = "leased"
  /\ IF flow.log = 0
     THEN /\ tasks' = Append(tasks, [low |-> flow.dispatched, high |-> flow.target])
          /\ flow' = [flow EXCEPT !.log = Len(tasks) + 1]
     ELSE /\ flow' = [flow EXCEPT !.state = "queued", !.dispatched = flow.target]
          /\ UNCHANGED tasks
  /\ UNCHANGED <<load, pair, timed, hops, trouble>>
RunTask ==
  /\ flow.state = "queued"
  /\ \/ flow.sync = "none" /\ flow' = [flow EXCEPT !.sync = "running"]
     \/ flow.sync = "running" /\ flow' = [flow EXCEPT !.sync = "success"]
     \/ flow.sync = "success" /\ flow' = [flow EXCEPT !.applied = flow.target, !.state = "idle"]
  /\ UNCHANGED <<load, pair, tasks, timed, hops, trouble>>
LeaseLost ==
  /\ flow.state = "leased" /\ Trouble
  /\ flow' = [flow EXCEPT !.state = "retry"]
  /\ UNCHANGED <<load, pair, tasks, timed, hops>>

----------------------------------------------------------------------------
(* finally: both credentials are revoked, each only when it is still this run's, and an
   incomplete cleanup is an error of its own. *)
Revoking == {"revoke-sender", "revoke-receiver", "ended"}
SamplesDone ==
  /\ LoadAt("sample") /\ load.sample = NSamples
  /\ LoadGoto("revoke-sender")
  /\ OutsideStays
LoadFails ==
  /\ load.pc \notin Revoking \cup {"idle"} /\ Trouble
  /\ load' = [load EXCEPT !.pc = "revoke-sender", !.error = TRUE]
  /\ UNCHANGED <<pair, flow, tasks, timed, hops>>
RevokeSender ==
  /\ LoadAt("revoke-sender")
  /\ \/ /\ load.cloudPaired
        /\ pair' = [pair EXCEPT !.sender = "revoked"]
        /\ LoadGoto("revoke-receiver") /\ UNCHANGED trouble
     \/ /\ ~load.cloudPaired
        /\ LoadGoto("revoke-receiver") /\ UNCHANGED <<pair, trouble>>
     \/ /\ load.cloudPaired /\ Trouble
        /\ load' = [load EXCEPT !.pc = "revoke-receiver", !.incomplete = TRUE]
        /\ UNCHANGED pair
  /\ UNCHANGED <<flow, tasks, timed, hops>>
RevokeReceiver ==
  /\ LoadAt("revoke-receiver")
  /\ \/ /\ pair' = [pair EXCEPT !.receiver = IF load.sourcePaired THEN "revoked" ELSE @]
        /\ load' = [load EXCEPT !.pc = "ended", !.ok = ~load.error /\ ~load.incomplete]
        /\ UNCHANGED trouble
     \/ /\ load.sourcePaired /\ Trouble
        /\ load' = [load EXCEPT !.pc = "ended", !.incomplete = TRUE]
        /\ UNCHANGED pair
  /\ UNCHANGED <<flow, tasks, timed, hops>>

LoadStep ==
  \/ StartLoad \/ CreateBinding \/ PairSource \/ WaitActive \/ BulkSync \/ WaitPublished
  \/ CreateReceiver \/ ConfigureSender \/ AnswerLost \/ DrainBaseline \/ Prime \/ PrimeAccepted
  \/ Measure \/ Accepted \/ Applied \/ Observe \/ Deliver \/ ClaimDispatch \/ EnqueueTask
  \/ RunTask \/ LeaseLost \/ SamplesDone \/ LoadFails \/ RevokeSender \/ RevokeReceiver

----------------------------------------------------------------------------
CoveredBy(t, event) == tasks[t].low < event /\ event <= tasks[t].high

(* Every event written for a sample, primed or measured, has a task of its own: it shares
   none with another sample or with the backlog, however the dispatcher coalesces
   (measure_event_queue: "the next PUT cannot be folded into the previous task"). *)
SamplesHaveOwnTask ==
  \A i \in 1 .. Len(timed), t \in 1 .. Len(tasks) :
    CoveredBy(t, timed[i]) =>
      /\ \A j \in 1 .. Len(timed) : j # i => ~CoveredBy(t, timed[j])
      /\ tasks[t].low + 1 = timed[i]

(* What the recorder attributes to a sample is the sample's: the log and the worker it
   observed belong to a task that covers the event (HopRecorder.observe). *)
SampleOf(n) == IF load.pattern = "sequential" THEN timed[n] ELSE timed[2 * n]
HopsBelongToSample ==
  \A n \in 1 .. Len(hops) :
    /\ hops[n].log # 0 => CoveredBy(hops[n].log, SampleOf(n))
    /\ hops[n].worker # 0 => CoveredBy(hops[n].worker, SampleOf(n))
    /\ hops[n].accept => flow.dispatched >= SampleOf(n)

(* A pilot that exits without an error left no event credential behind and took every
   sample; one that ends leaves at most what it was never told of, or says so (finally). *)
CredentialsRevoked ==
  LoadAt("ended") =>
    /\ load.ok => load.sample = NSamples /\ "live" \notin {pair.sender, pair.receiver}
    /\ load.cloudPaired /\ pair.sender = "live" => load.incomplete
    /\ load.sourcePaired /\ pair.receiver = "live" => load.incomplete
=============================================================================
