----------------------------- MODULE EventSender -----------------------------
(* The delivery side of the Nextcloud app: EventDeliveryService (one process per
   concurrent deliverDue), EventConnectionService (configure, revoke, retry) and
   the row update of EventAppliedStatusService.

   A delivery is five steps, because the code reads the sender row without a
   lock, reads the outbox page in a transaction of its own, and only then locks
   the row for the HTTP exchange:
     idle -> snap -> batch | empty | gap | unavailable | encoding
          -> posted -> answered -> yield or idle                             *)
EXTENDS ChangeOutbox

VARIABLES
  worker,       \* per worker, its program counter and local variables
  late          \* requests whose sender no longer waits but that may still arrive

senderVars == <<sender, rowLock, worker, late>>

Batches == (SUBSET Ids) \ {{}}

(* A signed batch. Its nonce is consumed once, so one record is one attempt. *)
Request == [conn : Connections, key : 1..MaxKey, binding : Bindings,
            after : 0..MaxId, batch : Batches]

Answers == {"exact", "diverged", "conflict", "unauthorized", "rejected", "retryable"}

SnapshotOf == [conn : Connections, key : 1..MaxKey, received : 0..MaxId]
NoWork == [pc |-> "idle"]
WorkerState ==
  {NoWork}
  \cup [pc : {"yield"}, b : Bindings]
  \cup [pc : {"snap", "empty", "gap", "unavailable", "encoding"},
        b : Bindings, sent : BOOLEAN, snap : SnapshotOf]
  \cup [pc : {"batch", "posted"}, b : Bindings, sent : BOOLEAN, snap : SnapshotOf,
        batch : Batches]
  \cup [pc : {"answered"}, b : Bindings, sent : BOOLEAN, snap : SnapshotOf,
        batch : Batches, answer : Answers]

SenderInit ==
  /\ sender = [b \in Bindings |-> NoRow]
  /\ rowLock = [b \in Bindings |-> NoOne]
  /\ worker = [w \in Workers |-> NoWork]
  /\ late = {}

----------------------------------------------------------------------------
(* Helpers *)

Active(b) == Connected(b) /\ sender[b].status = "active"
Due(b) == Active(b) /\ sender[b].next = "due"

(* The part of a row that a snapshot is later compared by *)
Identity(b) ==
  [conn |-> sender[b].conn, key |-> sender[b].key, received |-> sender[b].received]
SameCredential(b, snap) ==  \* mutant: the watermark is not compared
  Connected(b) /\ sender[b].conn = snap.conn /\ sender[b].key = snap.key
SameIdentity(b, snap) == Connected(b) /\ Identity(b) = snap

(* updateFailure *)
Failed(row, code, pause) ==
  [row EXCEPT !.status = IF pause THEN "paused" ELSE "active",
              !.next = IF pause THEN "due" ELSE "backoff",
              !.error = code]

(* deliverOne returned false: the caller yields the turn if it sent anything. *)
Done(w) ==
  IF worker[w].sent THEN [pc |-> "yield", b |-> worker[w].b] ELSE NoWork
Goto(w, pc) == worker' = [worker EXCEPT ![w].pc = pc]
Return(w) == worker' = [worker EXCEPT ![w] = Done(w)]

RequestOf(w) ==
  [conn |-> worker[w].snap.conn, key |-> worker[w].snap.key, binding |-> worker[w].b,
   after |-> worker[w].snap.received, batch |-> worker[w].batch]

----------------------------------------------------------------------------
(* deliverDue and deliverOne *)

(* deliverDue takes a due binding, or goes on with the one it just served; then
   deliverOne reads the sender row without a lock. *)
Snapshot(w, b) ==
  /\ worker[w] = NoWork \/ (worker[w].pc = "yield" /\ worker[w].b = b)
  /\ Due(b)
  /\ worker' = [worker EXCEPT ![w] =
       [pc |-> "snap", b |-> b, sent |-> worker[w] # NoWork, snap |-> Identity(b)]]
  /\ UNCHANGED <<outboxVars, sender, rowLock, late>>

(* ChangeOutboxService::page in its own transaction *)
ReadPage(w) ==
  /\ worker[w].pc = "snap"
  /\ OutboxLockFree
  /\ LET b == worker[w].b
         after == worker[w].snap.received
     IN  IF Expired(b, after) THEN Goto(w, "gap")
         ELSE IF Page(b, after) = {} THEN Goto(w, "empty")
         ELSE worker' = [worker EXCEPT ![w] =
                [pc |-> "batch", b |-> b, sent |-> worker[w].sent,
                 snap |-> worker[w].snap, batch |-> Page(b, after)]]
  /\ UNCHANGED <<outboxVars, sender, rowLock, late>>

PageUnavailable(w) ==
  /\ "page" \in Disruptions
  /\ worker[w].pc = "snap"
  /\ Goto(w, "unavailable")
  /\ UNCHANGED <<outboxVars, sender, rowLock, late>>

(* JSON encoding of the page fails, or one hint exceeds the body limit. *)
EncodingFails(w) ==
  /\ "encoding" \in Disruptions
  /\ worker[w].pc = "batch"
  /\ worker' = [worker EXCEPT ![w] = [pc |-> "encoding", b |-> worker[w].b,
                 sent |-> worker[w].sent, snap |-> worker[w].snap]]
  /\ UNCHANGED <<outboxVars, sender, rowLock, late>>

(* recordFailure: re-reads the row under its lock before writing *)
FailureCode == [gap |-> "outbox_gap", unavailable |-> "outbox_unavailable",
                encoding |-> "event_encoding"]
RecordFailure(w) ==
  /\ worker[w].pc \in {"gap", "unavailable", "encoding"}
  /\ LET b == worker[w].b
         pc == worker[w].pc
     IN  /\ rowLock[b] = NoOne
         /\ sender' = IF Active(b) /\ SameIdentity(b, worker[w].snap)
                      THEN [sender EXCEPT ![b] =
                              Failed(@, FailureCode[pc], pc # "unavailable")]
                      ELSE sender
  /\ Return(w)
  /\ UNCHANGED <<outboxVars, rowLock, late>>

(* deferPoll. The pending query runs outside the outbox lock but inside the row
   lock, so an append that commits after it finds the deferred row to wake. *)
HasPending(b) == \E i \in IdsOf(b) : i > sender[b].received
NotRechecked(b) == TRUE  \* mutant: no second look under the row lock
StillEmpty(b) == ~HasPending(b)
MayDefer(b) == Due(b) /\ sender[b].error = ""
DeferEmpty(w) ==
  /\ worker[w].pc = "empty"
  /\ LET b == worker[w].b IN
       /\ rowLock[b] = NoOne
       /\ sender' = IF MayDefer(b) /\ SameIdentity(b, worker[w].snap) /\ StillEmpty(b)
                    THEN [sender EXCEPT ![b].next = "poll"] ELSE sender
  /\ Return(w)
  /\ UNCHANGED <<outboxVars, rowLock, late>>

(* The locked recheck: anything changed since the snapshot drops the batch. *)
StillDue(w) == Due(worker[w].b)  \* mutant: the row is not compared with the snapshot
StillHealthy(w) ==  \* mutant: a row with an error is skipped
  /\ Due(worker[w].b) /\ SameIdentity(worker[w].b, worker[w].snap)
  /\ sender[worker[w].b].error = ""
StillCurrent(w) == Due(worker[w].b) /\ SameIdentity(worker[w].b, worker[w].snap)
Post(w) ==
  /\ worker[w].pc = "batch"
  /\ LET b == worker[w].b IN
       /\ rowLock[b] = NoOne
       /\ IF StillCurrent(w)
          THEN Goto(w, "posted") /\ rowLock' = [rowLock EXCEPT ![b] = w]
          ELSE Return(w) /\ UNCHANGED rowLock
  /\ UNCHANGED <<outboxVars, sender, late>>

(* requireActiveRoot, the egress policy or the secret fails under the lock. *)
ConfigurationUnavailable(w) ==
  /\ "configuration" \in Disruptions
  /\ worker[w].pc = "batch"
  /\ LET b == worker[w].b IN
       /\ rowLock[b] = NoOne
       /\ StillCurrent(w)
       /\ sender' = [sender EXCEPT ![b] = Failed(@, "configuration_unavailable", TRUE)]
  /\ Return(w)
  /\ UNCHANGED <<outboxVars, rowLock, late>>

(* The POST throws: connection refused, or the 8 second timeout. The request may
   never have left, may still be under way, or may have been answered. *)
TransportError(w) ==
  /\ "timeout" \in Disruptions
  /\ worker[w].pc \in {"posted", "answered"}
  /\ LET b == worker[w].b IN
       /\ sender' = [sender EXCEPT ![b] = Failed(@, "transport_error", FALSE)]
       /\ rowLock' = [rowLock EXCEPT ![b] = NoOne]
  /\ late' = IF worker[w].pc = "posted" THEN late \cup {RequestOf(w)} ELSE late
  /\ Return(w)
  /\ UNCHANGED outboxVars

(* The response is interpreted and committed with the row still locked.
   "rejected" stands for redirects and every other pausing status, "retryable"
   for 429, 5xx and a malformed 202. *)
AnswerCode ==
  [diverged |-> "checkpoint_divergence", conflict |-> "receiver_checkpoint_conflict",
   unauthorized |-> "receiver_unauthorized", rejected |-> "receiver_rejected",
   retryable |-> "receiver_retryable"]
AcknowledgedPast(row, batch) ==  \* mutant: the cursor is the next id, not the last
  [row EXCEPT !.received = Max(batch) + 1, !.next = "due", !.error = ""]
AcknowledgedAll(row, batch) ==  \* mutant: confirms all that is visible by now
  [row EXCEPT !.received = Max({r.id : r \in outbox} \cup batch), !.next = "due", !.error = ""]
Acknowledged(row, batch) ==
  [row EXCEPT !.received = Max(batch), !.next = "due", !.error = ""]
Settle(w) ==
  /\ worker[w].pc = "answered"
  /\ LET b == worker[w].b
         answer == worker[w].answer
     IN  /\ rowLock' = [rowLock EXCEPT ![b] = NoOne]
         /\ IF answer = "exact"
            THEN /\ sender' = [sender EXCEPT ![b] = Acknowledged(@, worker[w].batch)]
                 /\ worker' = [worker EXCEPT ![w] = [pc |-> "yield", b |-> b]]
            ELSE /\ sender' = [sender EXCEPT ![b] =
                       Failed(@, AnswerCode[answer], answer # "retryable")]
                 /\ Return(w)
  /\ UNCHANGED <<outboxVars, late>>

(* deferPoll(binding, 1): nothing more was due, MAX_BATCHES_PER_BINDING was
   reached or the 45 second budget is spent, after at least one batch. *)
YieldTurn(w) ==
  /\ worker[w].pc = "yield"
  /\ LET b == worker[w].b IN
       /\ rowLock[b] = NoOne
       /\ sender' = IF MayDefer(b) THEN [sender EXCEPT ![b].next = "yield"] ELSE sender
  /\ worker' = [worker EXCEPT ![w] = NoWork]
  /\ UNCHANGED <<outboxVars, rowLock, late>>

(* The process dies or the local COMMIT fails: the transaction rolls back. *)
Crash(w) ==
  /\ "crash" \in Disruptions
  /\ worker[w] # NoWork
  /\ late' = IF worker[w].pc = "posted" THEN late \cup {RequestOf(w)} ELSE late
  /\ rowLock' = [b \in Bindings |-> IF rowLock[b] = w THEN NoOne ELSE rowLock[b]]
  /\ worker' = [worker EXCEPT ![w] = NoWork]
  /\ UNCHANGED <<outboxVars, sender>>

(* next_attempt_at passes. *)
BecomeDue(b) ==
  /\ Active(b)
  /\ sender[b].next # "due"
  /\ sender' = [sender EXCEPT ![b].next = "due"]
  /\ UNCHANGED <<outboxVars, rowLock, worker, late>>

----------------------------------------------------------------------------
(* EventConnectionService: administrator calls, under bind and row locks *)

FreshRow(c, k) ==
  [conn |-> c, key |-> k, received |-> 0, applied |-> 0, proof |-> "status_unverified",
   status |-> "active", next |-> "due", error |-> ""]

(* EventConnectionService::row(binding, forUpdate) waits for a delivery's lock. *)
RowUnlocked(b) == rowLock[b] = NoOne

(* changeFloor: nothing was pruned that the new receiver has not seen *)
FloorIgnored(b) == TRUE  \* mutant: pairing does not look at the floor
HistoryComplete(b) == floor[b] = 0

(* configure, first pairing: takes the outbox lock to look at the floor *)
ConfigureNew(b, c, k) ==
  /\ RowUnlocked(b)
  /\ ~Connected(b)
  /\ \A x \in Bindings : Connected(x) => sender[x].conn # c
  /\ OutboxLockFree
  /\ HistoryComplete(b)
  /\ sender' = [sender EXCEPT ![b] = FreshRow(c, k)]
  /\ UNCHANGED <<outboxVars, rowLock, worker, late>>

(* configure, rotation: same connection, another key, watermarks kept *)
ConfigureRotation(b, c, k) ==
  /\ RowUnlocked(b)
  /\ Connected(b)
  /\ sender[b].conn = c
  /\ sender[b].key # k
  /\ sender' = [sender EXCEPT ![b] = [@ EXCEPT !.key = k, !.status = "active",
                  !.next = "due", !.error = "", !.proof = "status_unverified"]]
  /\ UNCHANGED <<outboxVars, rowLock, worker, late>>

RevokeSender(b) ==
  /\ "revoke" \in Disruptions
  /\ RowUnlocked(b)
  /\ Connected(b)
  /\ sender' = [sender EXCEPT ![b] = NoRow]
  /\ UNCHANGED <<outboxVars, rowLock, worker, late>>

(* retryPaused, its compare-and-swap satisfied *)
RetryPaused(b) ==
  /\ RowUnlocked(b)
  /\ Connected(b)
  /\ sender[b].status = "paused"
  /\ sender' = [sender EXCEPT ![b] = [@ EXCEPT !.status = "active", !.next = "due"]]
  /\ UNCHANGED <<outboxVars, rowLock, worker, late>>

----------------------------------------------------------------------------
(* EventAppliedStatusService::poll. The row lock spans the GET, so the exchange
   is one step: "seen" is what the receiver reported, or a failure. *)

UncappedStatus(row, received, applied) ==  \* mutant: capped by the report only
  received >= row.received /\ applied >= row.applied /\ applied <= received
ValidStatus(row, received, applied) ==
  /\ received >= row.received
  /\ applied >= row.applied /\ applied <= received /\ applied <= row.received
StatusVerified(b, received, applied) ==
  /\ rowLock[b] = NoOne
  /\ Active(b)
  /\ sender' = [sender EXCEPT ![b] =
       IF ValidStatus(@, received, applied)
       THEN [@ EXCEPT !.applied = applied, !.proof = ""]
       ELSE [@ EXCEPT !.proof = "status_unverified"]]
  /\ UNCHANGED <<outboxVars, rowLock, worker, late>>
StatusUnverified(b) ==
  /\ rowLock[b] = NoOne
  /\ Active(b)
  /\ sender' = [sender EXCEPT ![b].proof = "status_unverified"]
  /\ UNCHANGED <<outboxVars, rowLock, worker, late>>

StatusFails(b) == "status" \in Disruptions /\ StatusUnverified(b)

(* Every step the delivery and status workers take by themselves *)
DeliveryStep(w) ==
  \/ \E b \in Bindings : Snapshot(w, b)
  \/ ReadPage(w) \/ PageUnavailable(w) \/ EncodingFails(w)
  \/ RecordFailure(w) \/ DeferEmpty(w) \/ Post(w) \/ ConfigurationUnavailable(w)
  \/ TransportError(w) \/ Settle(w) \/ YieldTurn(w) \/ Crash(w)

SenderTypeOK ==
  /\ worker \in [Workers -> WorkerState]
  /\ late \subseteq Request
=============================================================================
