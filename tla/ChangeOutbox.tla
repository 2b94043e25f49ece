---------------------------- MODULE ChangeOutbox ----------------------------
(* The change outbox of the Nextcloud app (ChangeOutboxService): committed
   file-change hints with global auto-increment ids, written under one global
   row lock, paged by readers and pruned by age and applied watermark.

   The tables it shares with the event sender are declared here:
     outbox   weknora_outbox, committed rows only
     floor    weknora_change_floor
     sender   weknora_event_conn (written by EventSender, read here)
   A row inserted by an open transaction lives in its writer until COMMIT.  *)
EXTENDS EventParameters

VARIABLES
  nextId,       \* last auto-increment id handed out, never given back
  outbox,       \* committed rows still retained
  published,    \* every row ever committed (history, never read by an action)
  floor,        \* per binding, the highest id ever pruned
  outboxLock,   \* holder of the global weknora_outbox_lock row, or NoOne
  writer,       \* per writer, its program counter and uncommitted row
  sender,       \* per binding, its weknora_event_conn row
  rowLock       \* per binding, the delivery worker that holds that row, or NoOne

outboxVars == <<nextId, outbox, published, floor, outboxLock, writer>>

Hint == [id : Ids, binding : Bindings, type : Types]

(* A weknora_event_conn row. "next" abstracts next_attempt_at: "due" is a time
   that has passed, the others say which schedule lies ahead. "proof" is
   applied_error_code. *)
Errors == {"", "outbox_unavailable", "outbox_gap", "event_encoding",
           "configuration_unavailable", "transport_error", "receiver_retryable",
           "receiver_unauthorized", "receiver_checkpoint_conflict",
           "checkpoint_divergence", "receiver_rejected"}
Row == [conn : Connections, key : 1..MaxKey, received : 0..MaxId, applied : 0..MaxId,
        proof : {"", "status_unverified"},
        status : {"active", "paused"}, next : {"due", "yield", "poll", "backoff"},
        error : Errors]
NoRow == [conn |-> NoOne]
Connected(b) == sender[b] # NoRow

IdleWriter == [pc |-> "idle"]
WriterState == {IdleWriter} \cup [pc : {"inserted", "wake", "reused"}, row : Hint]

OutboxInit ==
  /\ nextId = 0 /\ outbox = {} /\ published = {}
  /\ floor = [b \in Bindings |-> 0]
  /\ outboxLock = NoOne
  /\ writer = [w \in Writers |-> IdleWriter]

----------------------------------------------------------------------------
(* Reading *)

IdsOf(b) == {h.id : h \in {r \in outbox : r.binding = b}}
Reconciles(b) == {r \in outbox : r.binding = b /\ r.type = "reconcile"}
Received(b) == IF Connected(b) THEN sender[b].received ELSE 0

(* readPage: the floor and the rows after the cursor, seen as one. *)
Expired(b, after) == after < floor[b]
Page(b, after) ==
  LET later == {i \in IdsOf(b) : i > after}
  IN  {i \in later : Cardinality({j \in later : j <= i}) <= PageSize}

(* The rows pruneBindingPrefix may delete when those up to "cutoff" are the ones
   whose created_at lies before the retention cutoff: the longest prefix in id
   order that, for a connected binding, is proven applied and received. *)
PrunableOnReceipt(b, i) ==  \* mutant: receipt is taken as proof of application
  Connected(b) => i <= sender[b].received
Prunable(b, i) ==
  Connected(b) => /\ sender[b].proof = ""
                  /\ i <= sender[b].received /\ i <= sender[b].applied
PrunePrefix(b, cutoff) ==
  {i \in IdsOf(b) : /\ i <= cutoff
                    /\ \A j \in IdsOf(b) : j <= i => Prunable(b, j)
                    /\ Cardinality({j \in IdsOf(b) : j <= i}) <= PruneBatch}

----------------------------------------------------------------------------
(* Writing: lock, insert, commit, then an opportunistic wake *)

(* lockOutbox: SELECT ... FOR UPDATE on the single weknora_outbox_lock row *)
NoOutboxLock == TRUE  \* mutant: inserts are not serialised
OutboxLockFree == outboxLock = NoOne

Insert(w, b, type) ==
  /\ writer[w] = IdleWriter
  /\ OutboxLockFree
  /\ nextId < MaxId
  /\ outboxLock' = w
  /\ nextId' = nextId + 1
  /\ writer' = [writer EXCEPT ![w] =
       [pc |-> "inserted", row |-> [id |-> nextId + 1, binding |-> b, type |-> type]]]
  /\ UNCHANGED <<outbox, published, floor, sender, rowLock>>

(* append: a listener's hint, or a reconcile marker *)
Append(w, b) == \E type \in Types : Insert(w, b, type)

(* ensureInitialReconcile: only for a binding without any history *)
EnsureInitialReconcile(w, b) ==
  /\ "reconcile" \in Types
  /\ IdsOf(b) = {}
  /\ floor[b] = 0
  /\ Insert(w, b, "reconcile")

(* requestReconcile: an unacknowledged reconcile is reused, else one is added *)
Reusable(b) == {r \in Reconciles(b) : r.id > Received(b)}
RequestReconcile(w, b) ==
  /\ "reconcile" \in Types
  /\ Reusable(b) = {}
  /\ Insert(w, b, "reconcile")
ReuseReconcile(w, b) ==
  /\ writer[w] = IdleWriter
  /\ OutboxLockFree
  /\ \E r \in Reusable(b) : writer' = [writer EXCEPT ![w] = [pc |-> "reused", row |-> r]]
  /\ UNCHANGED <<nextId, outbox, published, floor, outboxLock, sender, rowLock>>
ReturnReused(w) ==
  /\ writer[w].pc = "reused"
  /\ writer' = [writer EXCEPT ![w] = IdleWriter]
  /\ UNCHANGED <<nextId, outbox, published, floor, outboxLock, sender, rowLock>>

CommitInsert(w) ==
  /\ writer[w].pc = "inserted"
  /\ outbox' = outbox \cup {writer[w].row}
  /\ published' = published \cup {writer[w].row}
  /\ outboxLock' = NoOne
  /\ writer' = [writer EXCEPT ![w].pc = "wake"]
  /\ UNCHANGED <<nextId, floor, sender, rowLock>>

(* An exception or a dead writer rolls the insert back; its id is burnt. *)
RollbackInsert(w) ==
  /\ "rollback" \in Disruptions
  /\ writer[w].pc = "inserted"
  /\ outboxLock' = NoOne
  /\ writer' = [writer EXCEPT ![w] = IdleWriter]
  /\ UNCHANGED <<nextId, outbox, published, floor, sender, rowLock>>

(* The UPDATE after COMMIT waits for the sender's row lock. *)
Wake(w) ==
  /\ writer[w].pc = "wake"
  /\ LET b == writer[w].row.binding IN
       /\ rowLock[b] = NoOne
       /\ sender' = IF Connected(b) /\ sender[b].status = "active" /\ sender[b].error = ""
                    THEN [sender EXCEPT ![b].next = "due"] ELSE sender
  /\ writer' = [writer EXCEPT ![w] = IdleWriter]
  /\ UNCHANGED <<nextId, outbox, published, floor, outboxLock, rowLock>>

(* Its failure is swallowed, and a writer may die before it. *)
LoseWake(w) ==
  /\ "lost_wake" \in Disruptions
  /\ writer[w].pc = "wake"
  /\ writer' = [writer EXCEPT ![w] = IdleWriter]
  /\ UNCHANGED <<nextId, outbox, published, floor, outboxLock, sender, rowLock>>

----------------------------------------------------------------------------
(* Retention *)

(* pruneBindingPrefix: one transaction under the outbox lock. Hints age by the
   clock alone, so any prefix may have aged by the time the job runs. *)
Prune(b) ==
  /\ OutboxLockFree
  /\ \E cutoff \in IdsOf(b) :
       LET prefix == PrunePrefix(b, cutoff) IN
         /\ prefix # {}
         /\ floor' = [floor EXCEPT ![b] = IF @ < Max(prefix) THEN Max(prefix) ELSE @]
         /\ outbox' = {r \in outbox : r.binding = b => r.id > Max(prefix)}
  /\ UNCHANGED <<nextId, published, outboxLock, writer, sender, rowLock>>

OutboxNext ==
  \/ \E w \in Writers :
       \/ \E b \in Bindings :
            \/ Append(w, b)
            \/ EnsureInitialReconcile(w, b)
            \/ RequestReconcile(w, b)
            \/ ReuseReconcile(w, b)
       \/ ReturnReused(w)
       \/ CommitInsert(w)
       \/ RollbackInsert(w)
       \/ Wake(w)
       \/ LoseWake(w)
  \/ \E b \in Bindings : Prune(b)

OutboxTypeOK ==
  /\ nextId \in 0..MaxId
  /\ outbox \subseteq Hint
  /\ published \subseteq Hint
  /\ floor \in [Bindings -> 0..MaxId]
  /\ outboxLock \in Writers \cup {NoOne}
  /\ writer \in [Writers -> WriterState]
  /\ sender \in [Bindings -> Row \cup {NoRow}]
  /\ rowLock \in [Bindings -> Workers \cup {NoOne}]
=============================================================================
