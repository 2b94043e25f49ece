---------------------------- MODULE EventPipeline ----------------------------
(* The whole change-hint pipeline: outbox, sender workers, an unreliable network
   and the receiver's inbox.                                                  *)
EXTENDS EventSender, EventInbox

vars == <<nextId, outbox, published, floor, outboxLock, writer, sender, rowLock,
          worker, late, connection, checkpoint, inbox, applied>>

Init == OutboxInit /\ SenderInit /\ InboxInit

----------------------------------------------------------------------------
(* Exchanges between the two services *)

ReceiverAnswers(w) ==
  /\ worker[w].pc = "posted"
  /\ IngestSigned(RequestOf(w))
  /\ worker' = [worker EXCEPT ![w] =
       [pc |-> "answered", b |-> worker[w].b, sent |-> worker[w].sent,
        snap |-> worker[w].snap, batch |-> worker[w].batch,
        answer |-> Outcome(RequestOf(w))]]
  /\ UNCHANGED <<outboxVars, sender, rowLock, late>>

(* The receiver's database or data source, or a proxy, refuses: nothing stored *)
ReceiverRefuses(w) ==
  /\ "refuse" \in Disruptions
  /\ worker[w].pc = "posted"
  /\ \E answer \in {"unauthorized", "rejected", "retryable"} :
       worker' = [worker EXCEPT ![w] =
         [pc |-> "answered", b |-> worker[w].b, sent |-> worker[w].sent,
          snap |-> worker[w].snap, batch |-> worker[w].batch, answer |-> answer]]
  /\ UNCHANGED <<outboxVars, sender, rowLock, late, inboxVars>>

LateRequestArrives(r) ==
  /\ r \in late
  /\ IngestSigned(r)
  /\ late' = late \ {r}
  /\ UNCHANGED <<outboxVars, sender, rowLock, worker>>

(* The status GET reads both watermarks in one receiver transaction. *)
PollStatus(b) ==
  /\ Active(b)
  /\ LET c == sender[b].conn IN
       IF Accepting(c) /\ connection[c].binding = b /\ KeyAccepted(c, sender[b].key)
       THEN StatusVerified(b, checkpoint[c], applied[c])
       ELSE StatusUnverified(b)
  /\ UNCHANGED inboxVars

(* An administrator installs a credential the receiver issued for this binding. *)
Install(b) ==
  /\ \E c \in Connections : \E k \in Issued(c) :
       /\ connection[c].binding = b
       /\ ConfigureNew(b, c, k) \/ ConfigureRotation(b, c, k)
  /\ UNCHANGED inboxVars

Sending == \E w \in Workers : DeliveryStep(w) /\ UNCHANGED inboxVars
Exchange == \E w \in Workers : ReceiverAnswers(w) \/ ReceiverRefuses(w)
Writing == OutboxNext /\ UNCHANGED <<worker, late, inboxVars>>
Administering ==
  \E b \in Bindings :
    \/ Install(b)
    \/ (RevokeSender(b) \/ RetryPaused(b)) /\ UNCHANGED inboxVars
Polling ==
  \E b \in Bindings :
    \/ PollStatus(b)
    \/ (StatusFails(b) \/ BecomeDue(b)) /\ UNCHANGED inboxVars
Receiving ==
  \E c \in Connections :
    /\ (\E b \in Bindings : Pair(c, b)) \/ Rotate(c) \/ GraceEnds(c) \/ Revoke(c)
         \/ AdvanceApplied(c)
    /\ UNCHANGED <<outboxVars, senderVars>>

Next ==
  \/ Writing \/ Sending \/ Exchange \/ Polling \/ Administering \/ Receiving
  \/ \E r \in late : LateRequestArrives(r)

Spec == Init /\ [][Next]_vars

(* Fairness. Jobs are rescheduled for ever and clocks advance: writers finish,
   workers take their next step, schedules pass. The database, the process and the
   network may fail at any step, but not at the same step for ever: a page that is
   read again and again is sometimes read, a batch sometimes sent, a request
   sometimes answered, and an answer sometimes gets back and is committed. *)
WorkerProceeds(w) ==
  \/ \E b \in Bindings : Snapshot(w, b)
  \/ ReadPage(w) \/ RecordFailure(w) \/ DeferEmpty(w) \/ Post(w) \/ Settle(w)
  \/ YieldTurn(w)
SettleExact(w) == worker[w].pc = "answered" /\ worker[w].answer = "exact" /\ Settle(w)
Fairness ==
  /\ \A u \in Writers : WF_vars(CommitInsert(u) /\ UNCHANGED <<worker, late, inboxVars>>)
  /\ \A b \in Bindings : WF_vars(BecomeDue(b) /\ UNCHANGED inboxVars)
  /\ \A w \in Workers :
       /\ WF_vars(WorkerProceeds(w) /\ UNCHANGED inboxVars)
       /\ SF_vars(ReadPage(w) /\ UNCHANGED inboxVars)
       /\ SF_vars(Post(w) /\ UNCHANGED inboxVars)
       /\ SF_vars(ReceiverAnswers(w))
       /\ SF_vars(SettleExact(w) /\ UNCHANGED inboxVars)
FairSpec == Spec /\ Fairness

----------------------------------------------------------------------------
(* Properties *)

UpTo(S, n) == {i \in S : i <= n}
HintsOf(b) == {h.id : h \in {p \in published : p.binding = b}}
Waiting(w) == worker[w].pc \in {"posted", "answered"}

TypeOK == OutboxTypeOK /\ SenderTypeOK /\ InboxTypeOK

(* A sender's receipt watermark never covers a committed hint that its receiver
   does not store: no reader checkpoints past an event that commits later, and
   no stale snapshot, lost answer or rotation moves the watermark too far. *)
NoHintSkipped ==
  \A b \in Bindings : Connected(b) =>
    UpTo(HintsOf(b), sender[b].received) \subseteq inbox[sender[b].conn]

(* The receiver stores exactly the committed hints of its binding up to its
   checkpoint, whichever retries and late requests reach it. *)
InboxGapless ==
  \A c \in Connections : connection[c] # Absent =>
    inbox[c] = UpTo(HintsOf(connection[c].binding), checkpoint[c])

(* What a sender believes never runs ahead: it holds a hint applied only if it has
   the receipt, and each of its watermarks trails the receiver's own, through
   lost answers, rotation and status polls that race deliveries. *)
WatermarksOrdered ==
  \A b \in Bindings : Connected(b) =>
    LET row == sender[b] IN
      /\ row.applied <= row.received /\ row.received <= checkpoint[row.conn]
      /\ row.applied <= applied[row.conn] /\ applied[row.conn] <= checkpoint[row.conn]

(* While a sender exists, paused or not, retention removes only hints that its
   receiver really has applied, even if they were pruned before the pairing. *)
RetainedUntilApplied ==
  \A b \in Bindings : Connected(b) =>
    HintsOf(b) \ IdsOf(b) \subseteq UpTo(HintsOf(b), applied[sender[b].conn])

(* A connected sender can always continue from its watermark: the floor never
   passes it, and no stale page read pauses it for a gap it does not have. *)
NoOutboxGap ==
  \A b \in Bindings : Connected(b) =>
    floor[b] <= sender[b].received /\ sender[b].error # "outbox_gap"

(* A request on the wire carries the row's present connection, key and
   watermark: revocation, rotation and other workers wait for its end. *)
OnlyCurrentCredential ==
  \A w \in Workers : Waiting(w) =>
    LET b == worker[w].b IN rowLock[b] = w /\ Active(b) /\ SameIdentity(b, worker[w].snap)

(* A healthy sender parked by an empty poll while a hint is pending has a
   writer about to wake it: no append falls between the check and the parking.
   (Holds where writers do not die before their wake.) *)
NoLostWake ==
  \A b \in Bindings :
    Active(b) /\ sender[b].error = "" /\ sender[b].next = "poll" /\ HasPending(b)
      => \E w \in Writers : writer[w].pc = "wake" /\ writer[w].row.binding = b

(* Hints become visible in id order, across all bindings and writers. *)
VisibleInOrder ==
  [][\A h \in published' \ published : \A g \in published : g.id < h.id]_vars

(* A committed hint of a connected binding reaches the receiver, unless the
   sender is revoked or stops visibly: no failure is retried in vain for ever. *)
HintSettles ==
  \A b \in Bindings : \A i \in Ids :
    (i \in HintsOf(b) /\ Active(b))
      ~> (~Connected(b) \/ sender[b].status = "paused" \/ sender[b].received >= i)

(* docs/nextcloud-event-sender.md: "A dropped local commit can safely retry the
   same immutable batch with a fresh nonce." So, with one connection that is never
   revoked, a retry never ends in a checkpoint conflict. *)
RetryNeverConflicts ==
  \A b \in Bindings : Connected(b) => sender[b].error # "receiver_checkpoint_conflict"

(* EventDeliveryService: "An empty sender must yield its position in the due
   queue." So a sender whose page is still empty is not due right afterwards. *)
EmptySenderYields ==
  [][\A w \in Workers :
       worker[w].pc = "empty" /\ worker'[w].pc # "empty" =>
         LET b == worker[w].b IN
           StillCurrent(w) /\ ~HasPending(b) => sender'[b].next # "due"]_vars

(* ChangeOutboxService::requestReconcile: a retained reconcile "is reusable only
   while it is still pending delivery". So a manual sync is never answered by a
   reconcile that the receiver has already applied. *)
ReusedReconcileIsPending ==
  [][\A u \in Writers :
       writer[u].pc # "reused" /\ writer'[u].pc = "reused" =>
         LET r == writer'[u].row IN
           Connected(r.binding) => r.id > applied[sender[r.binding].conn]]_vars

(* The pipeline implements the abstract feed. *)
Feed == INSTANCE HintFeed WITH
  hints <- [b \in Bindings |-> HintsOf(b)],
  retained <- [b \in Bindings |-> IdsOf(b)],
  attached <- [b \in Bindings |-> sender[b].conn],
  confirmed <- [b \in Bindings |-> Received(b)],
  home <- [c \in Connections |->
             IF connection[c] = Absent THEN NoOne ELSE connection[c].binding],
  held <- inbox,
  done <- applied
ImplementsFeed == Feed!Spec
=============================================================================
