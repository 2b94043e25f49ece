------------------------ MODULE EventPipeline_proofs ------------------------
(* Theorems about EventPipeline for every number of bindings, connections,
   writers and workers, every page size, and whatever failures may happen. *)
EXTENDS EventPipeline, WellFoundedInduction, TLAPS

----------------------------------------------------------------------------
(* Data *)

(* A non-empty set of ids has a maximum, which Max chooses. *)
LEMMA MaxOfIds ==
  ASSUME NEW B \in SUBSET Ids, B # {}
  PROVE  Max(B) \in B /\ \A i \in B : i <= Max(B)
<1> DEFINE Gap == {MaxId - i : i \in B}
<1>1. Gap \subseteq Nat /\ Gap # {}
  <2>1. \A i \in B : MaxId - i \in Nat
    BY ParameterAssumption DEF Ids
  <2>2. Gap # {}
    BY Zenon
  <2> QED  BY <2>1, <2>2
<1>2. PICK g \in Gap : \A h \in Gap : ~(<<h, g>> \in OpToRel(<, Nat))
  BY <1>1, WFMin, NatLessThanWellFounded, Zenon
<1>3. PICK m \in B : g = MaxId - m
  BY <1>2
<1>4. \A i \in B : i <= m
  <2> SUFFICES ASSUME NEW i \in B PROVE i <= m
    OBVIOUS
  <2>1. ~(MaxId - i < MaxId - m)
    BY <1>1, <1>2, <1>3 DEF OpToRel
  <2> QED  BY <2>1, ParameterAssumption DEF Ids
<1>5. \A i \in B : m >= i
  BY <1>4, ParameterAssumption DEF Ids
<1>6. Max(B) \in B /\ \A i \in B : Max(B) >= i
  BY <1>3, <1>5 DEF Max
<1> QED  BY <1>6, ParameterAssumption DEF Ids

(* What a worker's program counter says about its local variables *)
LEMMA WorkerShape ==
  ASSUME SenderTypeOK, NEW w \in Workers
  PROVE  /\ worker[w] \in WorkerState
         /\ worker[w].pc # "idle" => worker[w].b \in Bindings
         /\ worker[w].pc \in {"snap", "empty", "gap", "unavailable", "encoding"} =>
              worker[w] \in [pc : {"snap", "empty", "gap", "unavailable", "encoding"},
                             b : Bindings, sent : BOOLEAN, snap : SnapshotOf]
         /\ worker[w].pc \in {"batch", "posted"} =>
              worker[w] \in [pc : {"batch", "posted"}, b : Bindings, sent : BOOLEAN,
                             snap : SnapshotOf, batch : Batches]
         /\ worker[w].pc = "answered" =>
              worker[w] \in [pc : {"answered"}, b : Bindings, sent : BOOLEAN,
                             snap : SnapshotOf, batch : Batches, answer : Answers]
         /\ worker[w].pc = "yield" => worker[w] \in [pc : {"yield"}, b : Bindings]
BY DEF SenderTypeOK, WorkerState, NoWork

(* A writer that is not idle carries its row. *)
LEMMA WriterShape ==
  ASSUME OutboxTypeOK, NEW w \in Writers, writer[w].pc \in {"inserted", "wake", "reused"}
  PROVE  /\ writer[w] \in [pc : {"inserted", "wake", "reused"}, row : Hint]
         /\ writer[w].row \in Hint /\ writer[w].row.binding \in Bindings
<1>1. writer[w] \in [pc : {"inserted", "wake", "reused"}, row : Hint]
  BY DEF OutboxTypeOK, WriterState, IdleWriter
<1> QED  BY <1>1 DEF Hint

(* deliverOne's return value leaves a worker idle or yielding. *)
LEMMA DoneType ==
  ASSUME SenderTypeOK, NEW w \in Workers,
         worker[w].pc \in {"snap", "empty", "gap", "unavailable", "encoding", "batch",
                           "posted", "answered"}
  PROVE  /\ worker[w].b \in Bindings
         /\ Done(w) \in {NoWork} \cup [pc : {"yield"}, b : Bindings]
         /\ Done(w) \in WorkerState
<1>1. worker[w].b \in Bindings
  BY WorkerShape
<1>2. Done(w) \in {NoWork} \cup [pc : {"yield"}, b : Bindings]
  BY <1>1 DEF Done
<1> QED  BY <1>1, <1>2 DEF WorkerState

(* A connected binding's row is a row, and each helper that rewrites it keeps it one. *)
LEMMA RowShape ==
  ASSUME OutboxTypeOK, NEW b \in Bindings, Connected(b)
  PROVE  sender[b] \in Row
BY DEF OutboxTypeOK, Connected

(* Changing the due time of a row (deliverDue, deferPoll) keeps the rows well typed. *)
LEMMA RescheduleType ==
  ASSUME OutboxTypeOK, NEW b \in Bindings, Connected(b),
         NEW next \in {"due", "yield", "poll", "backoff"}
  PROVE  [sender EXCEPT ![b].next = next] \in [Bindings -> Row \cup {NoRow}]
<1>1. [sender[b] EXCEPT !.next = next] \in Row
  BY RowShape DEF Row
<1> QED  BY <1>1 DEF OutboxTypeOK

(* recordFailure writes a row: an error code and a pause keep it one. *)
LEMMA FailedType ==
  ASSUME NEW row \in Row, NEW code \in Errors, NEW pause \in BOOLEAN
  PROVE  Failed(row, code, pause) \in Row
BY DEF Failed, Row

(* The watermark an exact receipt writes is the last id of a batch, hence in range. *)
LEMMA AcknowledgedType ==
  ASSUME NEW row \in Row, NEW batch \in Batches
  PROVE  Acknowledged(row, batch) \in Row
<1> DEFINE last == Max(batch)
<1>1. last \in Ids
  BY MaxOfIds DEF Batches
<1> HIDE DEF last
<1>2. last \in 0..MaxId
  BY <1>1, ParameterAssumption DEF Ids
<1>3. [row EXCEPT !.received = last, !.next = "due", !.error = ""] \in Row
  BY <1>2 DEF Row, Errors
<1> QED  BY <1>3 DEF Acknowledged, last

(* retryPaused and a rotation by configure write rows. *)
LEMMA AdministeredType ==
  ASSUME NEW row \in Row
  PROVE  /\ [row EXCEPT !.status = "active", !.next = "due"] \in Row
         /\ \A key \in 1..MaxKey :
              [row EXCEPT !.key = key, !.status = "active", !.next = "due", !.error = "",
                          !.proof = "status_unverified"] \in Row
BY DEF Row, Errors

(* The status poller writes rows, verified or not. *)
LEMMA ProofType ==
  ASSUME NEW row \in Row
  PROVE  /\ [row EXCEPT !.proof = "status_unverified"] \in Row
         /\ \A n \in 0..MaxId : [row EXCEPT !.applied = n, !.proof = ""] \in Row
BY DEF Row

(* The row that configure inserts is one, whatever its connection and key. *)
LEMMA FreshRowType ==
  ASSUME NEW c \in Connections, NEW k \in 1..MaxKey
  PROVE  FreshRow(c, k) \in Row
BY ParameterAssumption DEF FreshRow, Row, Errors

(* A batch that waits for its answer is a request. *)
LEMMA RequestType ==
  ASSUME SenderTypeOK, NEW w \in Workers, worker[w].pc \in {"batch", "posted"}
  PROVE  RequestOf(w) \in Request
BY WorkerShape DEF RequestOf, Request, SnapshotOf

----------------------------------------------------------------------------
(* Type correctness, one lemma per part of Next *)

SenderRows == [Bindings -> Row \cup {NoRow}]
RowLocks == [Bindings -> Workers \cup {NoOne}]

(* What is left to show for a step that neither writes the outbox nor the inbox *)
LEMMA SenderFrame ==
  ASSUME TypeOK, UNCHANGED <<outboxVars, inboxVars>>, sender' \in SenderRows,
         rowLock' \in RowLocks, worker' \in [Workers -> WorkerState], late' \subseteq Request
  PROVE  TypeOK'
BY DEF TypeOK, OutboxTypeOK, SenderTypeOK, InboxTypeOK, outboxVars, inboxVars, SenderRows,
       RowLocks

(* Writing one row leaves the table well typed. *)
LEMMA ReplaceRowType ==
  ASSUME OutboxTypeOK, NEW b \in Bindings, NEW row \in Row
  PROVE  [sender EXCEPT ![b] = row] \in SenderRows
BY DEF OutboxTypeOK, SenderRows

(* A worker that ends its attempt is in a state again. *)
LEMMA ReturnType ==
  ASSUME SenderTypeOK, NEW w \in Workers, Return(w),
         worker[w].pc \in {"snap", "empty", "gap", "unavailable", "encoding", "batch",
                           "posted", "answered"}
  PROVE  worker' \in [Workers -> WorkerState]
BY DoneType DEF Return, SenderTypeOK

(* Writers, commits and the retention job keep the types. *)
LEMMA WritingType ==
  ASSUME TypeOK, Writing
  PROVE  TypeOK'
<1> USE ParameterAssumption DEF TypeOK, OutboxTypeOK
<1>1. UNCHANGED <<worker, late, inboxVars>> /\ OutboxNext
  BY DEF Writing
<1>2. SenderTypeOK' /\ InboxTypeOK'
  BY <1>1 DEF SenderTypeOK, InboxTypeOK, inboxVars, WorkerState, Request
<1>3. OutboxTypeOK'
  <2>1. ASSUME NEW w \in Writers, NEW b \in Bindings, NEW type \in Types, Insert(w, b, type)
        PROVE  OutboxTypeOK'
    <3> DEFINE row == [id |-> nextId + 1, binding |-> b, type |-> type]
    <3>1. row \in Hint
      BY <2>1 DEF Insert, Hint, Ids
    <3>2. [pc |-> "inserted", row |-> row] \in WriterState
      BY <3>1 DEF WriterState
    <3> QED  BY <2>1, <3>2 DEF Insert
  <2>2. ASSUME NEW w \in Writers, NEW b \in Bindings, ReuseReconcile(w, b)
        PROVE  OutboxTypeOK'
    BY <2>2 DEF ReuseReconcile, Reusable, Reconciles, WriterState
  <2>3. ASSUME NEW w \in Writers, ReturnReused(w)
        PROVE  OutboxTypeOK'
    BY <2>3 DEF ReturnReused, WriterState
  <2>4. ASSUME NEW w \in Writers, CommitInsert(w)
        PROVE  OutboxTypeOK'
    <3>1. writer[w] \in [pc : {"inserted", "wake", "reused"}, row : Hint]
      BY <2>4, WriterShape DEF CommitInsert
    <3>2. [writer[w] EXCEPT !.pc = "wake"] \in WriterState
      BY <3>1 DEF WriterState
    <3> QED  BY <2>4, <3>1, <3>2 DEF CommitInsert
  <2>5. ASSUME NEW w \in Writers, RollbackInsert(w)
        PROVE  OutboxTypeOK'
    BY <2>5 DEF RollbackInsert, WriterState
  <2>6. ASSUME NEW w \in Writers, Wake(w)
        PROVE  OutboxTypeOK'
    <3> DEFINE b == writer[w].row.binding
    <3>1. b \in Bindings
      BY <2>6, WriterShape DEF Wake, Hint
    <3>2. sender' = sender \/ (Connected(b) /\ sender' = [sender EXCEPT ![b].next = "due"])
      BY <2>6 DEF Wake
    <3> HIDE DEF b
    <3>3. sender' \in [Bindings -> Row \cup {NoRow}]
      <4>1. CASE sender' = sender
        BY <4>1
      <4>2. CASE Connected(b) /\ sender' = [sender EXCEPT ![b].next = "due"]
        <5>1. [sender EXCEPT ![b].next = "due"] \in [Bindings -> Row \cup {NoRow}]
          BY <3>1, <4>2, RescheduleType
        <5> QED  BY <4>2, <5>1
      <4> QED  BY <3>2, <4>1, <4>2
    <3> QED  BY <2>6, <3>3 DEF Wake, WriterState
  <2>7. ASSUME NEW w \in Writers, LoseWake(w)
        PROVE  OutboxTypeOK'
    BY <2>7 DEF LoseWake, WriterState
  <2>8. ASSUME NEW b \in Bindings, Prune(b)
        PROVE  OutboxTypeOK'
    <3>1. PICK cutoff \in IdsOf(b) :
            /\ PrunePrefix(b, cutoff) # {}
            /\ floor' = [floor EXCEPT ![b] = IF @ < Max(PrunePrefix(b, cutoff))
                                             THEN Max(PrunePrefix(b, cutoff)) ELSE @]
            /\ outbox' \subseteq outbox
      BY <2>8 DEF Prune
    <3>2. PrunePrefix(b, cutoff) \subseteq Ids
      BY DEF PrunePrefix, IdsOf, Hint
    <3>3. Max(PrunePrefix(b, cutoff)) \in Ids
      BY <3>1, <3>2, MaxOfIds
    <3>4. floor' \in [Bindings -> 0..MaxId]
      BY <3>1, <3>3 DEF Ids
    <3> QED  BY <2>8, <3>1, <3>4 DEF Prune
  <2> QED
    BY <1>1, <2>1, <2>2, <2>3, <2>4, <2>5, <2>6, <2>7, <2>8
    DEF OutboxNext, Append, EnsureInitialReconcile, RequestReconcile
<1> QED  BY <1>2, <1>3

(* Every step of deliverDue and deliverOne keeps the types. *)
LEMMA DeliveryType ==
  ASSUME TypeOK, OnlyCurrentCredential, NEW w \in Workers, DeliveryStep(w), UNCHANGED inboxVars
  PROVE  TypeOK'
<1> USE ParameterAssumption
<1>0. OutboxTypeOK /\ SenderTypeOK /\ sender \in SenderRows /\ rowLock \in RowLocks
  BY DEF TypeOK, OutboxTypeOK, SenderRows, RowLocks
<1>1. worker \in [Workers -> WorkerState] /\ late \subseteq Request
  BY <1>0 DEF SenderTypeOK
<1>2. ASSUME NEW b \in Bindings, Snapshot(w, b)
      PROVE  TypeOK'
  <2>1. sender[b] \in Row
    BY <1>0, <1>2, RowShape DEF Snapshot, Due, Active
  <2>2. Identity(b) \in SnapshotOf
    BY <2>1 DEF Identity, SnapshotOf, Row
  <2>3. [pc |-> "snap", b |-> b, sent |-> worker[w] # NoWork, snap |-> Identity(b)] \in WorkerState
    BY <2>2 DEF WorkerState
  <2>4. worker' \in [Workers -> WorkerState]
    BY <1>1, <1>2, <2>3 DEF Snapshot
  <2> QED  BY <1>0, <1>1, <1>2, <2>4, SenderFrame DEF Snapshot
<1>3. ASSUME ReadPage(w)
      PROVE  TypeOK'
  <2> DEFINE page == Page(worker[w].b, worker[w].snap.received)
  <2>1. worker[w] \in [pc : {"snap", "empty", "gap", "unavailable", "encoding"},
                       b : Bindings, sent : BOOLEAN, snap : SnapshotOf]
    BY <1>0, <1>3, WorkerShape DEF ReadPage
  <2>2. page \in SUBSET Ids
    BY <1>0 DEF Page, IdsOf, OutboxTypeOK, Hint
  <2> HIDE DEF page
  <2>3. ASSUME NEW pc \in {"gap", "empty"}
        PROVE  [worker[w] EXCEPT !.pc = pc] \in WorkerState
    BY <2>1 DEF WorkerState
  <2>4. page # {} => [pc |-> "batch", b |-> worker[w].b, sent |-> worker[w].sent,
                      snap |-> worker[w].snap, batch |-> page] \in WorkerState
    BY <2>1, <2>2 DEF WorkerState, Batches
  <2>5. worker' \in [Workers -> WorkerState]
    BY <1>1, <1>3, <2>3, <2>4 DEF ReadPage, Goto, page
  <2> QED  BY <1>0, <1>1, <1>3, <2>5, SenderFrame DEF ReadPage
<1>4. ASSUME PageUnavailable(w)
      PROVE  TypeOK'
  <2>1. [worker[w] EXCEPT !.pc = "unavailable"] \in WorkerState
    BY <1>0, <1>4, WorkerShape DEF PageUnavailable, WorkerState
  <2>2. worker' \in [Workers -> WorkerState]
    BY <1>1, <1>4, <2>1 DEF PageUnavailable, Goto
  <2> QED  BY <1>0, <1>1, <1>4, <2>2, SenderFrame DEF PageUnavailable
<1>5. ASSUME EncodingFails(w)
      PROVE  TypeOK'
  <2>1. [pc |-> "encoding", b |-> worker[w].b, sent |-> worker[w].sent,
         snap |-> worker[w].snap] \in WorkerState
    BY <1>0, <1>5, WorkerShape DEF EncodingFails, WorkerState
  <2>2. worker' \in [Workers -> WorkerState]
    BY <1>1, <1>5, <2>1 DEF EncodingFails
  <2> QED  BY <1>0, <1>1, <1>5, <2>2, SenderFrame DEF EncodingFails
<1>6. ASSUME RecordFailure(w)
      PROVE  TypeOK'
  <2> DEFINE b == worker[w].b
             code == FailureCode[worker[w].pc]
             pause == worker[w].pc # "unavailable"
  <2>1. b \in Bindings /\ code \in Errors /\ pause \in BOOLEAN
    <3>1. FailureCode["gap"] \in Errors /\ FailureCode["unavailable"] \in Errors
            /\ FailureCode["encoding"] \in Errors
      BY DEF FailureCode, Errors
    <3>2. worker[w].pc \in {"gap", "unavailable", "encoding"}
      BY <1>6 DEF RecordFailure
    <3> QED  BY <1>0, <3>1, <3>2, WorkerShape
  <2>2. sender' = sender \/ (Connected(b) /\ sender' = [sender EXCEPT ![b] = Failed(@, code, pause)])
    BY <1>6 DEF RecordFailure, SameIdentity
  <2> HIDE DEF b, code, pause
  <2>3. Connected(b) => [sender EXCEPT ![b] = Failed(@, code, pause)] \in SenderRows
    BY <1>0, <2>1, RowShape, FailedType, ReplaceRowType
  <2>4. worker' \in [Workers -> WorkerState]
    BY <1>0, <1>6, ReturnType DEF RecordFailure
  <2> QED  BY <1>0, <1>1, <1>6, <2>2, <2>3, <2>4, SenderFrame DEF RecordFailure
<1>7. ASSUME DeferEmpty(w)
      PROVE  TypeOK'
  <2> DEFINE b == worker[w].b
  <2>1. b \in Bindings
    BY <1>0, <1>7, WorkerShape DEF DeferEmpty
  <2>2. sender' = sender \/ (Connected(b) /\ sender' = [sender EXCEPT ![b].next = "poll"])
    BY <1>7 DEF DeferEmpty, SameIdentity
  <2> HIDE DEF b
  <2>3. Connected(b) => [sender EXCEPT ![b].next = "poll"] \in SenderRows
    BY <1>0, <2>1, RescheduleType DEF SenderRows
  <2>4. worker' \in [Workers -> WorkerState]
    BY <1>0, <1>7, ReturnType DEF DeferEmpty
  <2> QED  BY <1>0, <1>1, <1>7, <2>2, <2>3, <2>4, SenderFrame DEF DeferEmpty
<1>8. ASSUME Post(w)
      PROVE  TypeOK'
  <2>1. worker[w] \in [pc : {"batch", "posted"}, b : Bindings, sent : BOOLEAN,
                       snap : SnapshotOf, batch : Batches]
    BY <1>0, <1>8, WorkerShape DEF Post
  <2>2. worker' \in [Workers -> WorkerState]
    <3>1. [worker[w] EXCEPT !.pc = "posted"] \in WorkerState
      BY <2>1 DEF WorkerState
    <3>2. CASE Goto(w, "posted")
      BY <1>1, <3>1, <3>2 DEF Goto
    <3>3. CASE Return(w)
      BY <1>0, <1>8, <3>3, ReturnType DEF Post
    <3> QED  BY <1>8, <3>2, <3>3 DEF Post
  <2>3. rowLock' \in RowLocks
    BY <1>0, <1>8 DEF Post, RowLocks
  <2> QED  BY <1>0, <1>1, <1>8, <2>2, <2>3, SenderFrame DEF Post
<1>9. ASSUME ConfigurationUnavailable(w)
      PROVE  TypeOK'
  <2> DEFINE b == worker[w].b
             row == Failed(sender[b], "configuration_unavailable", TRUE)
  <2>1. b \in Bindings /\ Connected(b)
    BY <1>0, <1>9, WorkerShape DEF ConfigurationUnavailable, StillCurrent, SameIdentity
  <2>2. row \in Row
    BY <1>0, <2>1, RowShape, FailedType DEF Errors
  <2>3. sender' = [sender EXCEPT ![b] = row]
    BY <1>9 DEF ConfigurationUnavailable
  <2> HIDE DEF b, row
  <2>4. sender' \in SenderRows
    BY <1>0, <2>1, <2>2, <2>3, ReplaceRowType
  <2>5. worker' \in [Workers -> WorkerState]
    BY <1>0, <1>9, ReturnType DEF ConfigurationUnavailable
  <2> QED  BY <1>0, <1>1, <1>9, <2>4, <2>5, SenderFrame DEF ConfigurationUnavailable
<1>10. ASSUME YieldTurn(w)
       PROVE  TypeOK'
  <2> DEFINE b == worker[w].b
  <2>1. b \in Bindings
    BY <1>0, <1>10, WorkerShape DEF YieldTurn
  <2>2. sender' = sender \/ (Connected(b) /\ sender' = [sender EXCEPT ![b].next = "yield"])
    BY <1>10 DEF YieldTurn, MayDefer, Due, Active
  <2> HIDE DEF b
  <2>3. Connected(b) => [sender EXCEPT ![b].next = "yield"] \in SenderRows
    BY <1>0, <2>1, RescheduleType DEF SenderRows
  <2>4. worker' \in [Workers -> WorkerState]
    BY <1>1, <1>10 DEF YieldTurn, WorkerState
  <2> QED  BY <1>0, <1>1, <1>10, <2>2, <2>3, <2>4, SenderFrame DEF YieldTurn
<1>11. ASSUME Crash(w)
       PROVE  TypeOK'
  <2>1. worker' \in [Workers -> WorkerState]
    BY <1>1, <1>11 DEF Crash, WorkerState
  <2>2. rowLock' \in RowLocks
    BY <1>0, <1>11 DEF Crash, RowLocks
  <2>3. late' \subseteq Request
    BY <1>0, <1>1, <1>11, RequestType DEF Crash
  <2> QED  BY <1>0, <1>11, <2>1, <2>2, <2>3, SenderFrame DEF Crash
<1>12. ASSUME TransportError(w)
       PROVE  TypeOK'
  <2> DEFINE b == worker[w].b
             row == Failed(sender[b], "transport_error", FALSE)
  <2>1. b \in Bindings /\ Connected(b)
    BY <1>0, <1>12, WorkerShape DEF TransportError, OnlyCurrentCredential, Waiting, Active
  <2>2. row \in Row
    BY <1>0, <2>1, RowShape, FailedType DEF Errors
  <2>3. sender' = [sender EXCEPT ![b] = row] /\ rowLock' = [rowLock EXCEPT ![b] = NoOne]
    BY <1>12 DEF TransportError
  <2> HIDE DEF b, row
  <2>4. sender' \in SenderRows /\ rowLock' \in RowLocks
    BY <1>0, <2>1, <2>2, <2>3, ReplaceRowType DEF RowLocks
  <2>5. worker' \in [Workers -> WorkerState]
    BY <1>0, <1>12, ReturnType DEF TransportError
  <2>6. late' \subseteq Request
    BY <1>0, <1>1, <1>12, RequestType DEF TransportError
  <2> QED  BY <1>0, <1>12, <2>4, <2>5, <2>6, SenderFrame DEF TransportError
<1>13. ASSUME Settle(w)
       PROVE  TypeOK'
  <2> DEFINE b == worker[w].b
             code == AnswerCode[worker[w].answer]
             pause == worker[w].answer # "retryable"
  <2>1. b \in Bindings /\ Connected(b)
    BY <1>0, <1>13, WorkerShape DEF Settle, OnlyCurrentCredential, Waiting, Active
  <2>2. worker[w].batch \in Batches /\ worker[w].answer \in Answers
    BY <1>0, <1>13, WorkerShape DEF Settle
  <2>3. sender[b] \in Row
    BY <1>0, <2>1, RowShape
  <2>4. rowLock' \in RowLocks
    BY <1>0, <1>13, <2>1 DEF Settle, RowLocks
  <2>5. CASE worker[w].answer = "exact"
    <3>1. sender' = [sender EXCEPT ![b] = Acknowledged(sender[b], worker[w].batch)]
      BY <1>13, <2>5 DEF Settle
    <3>2. sender' \in SenderRows
      BY <1>0, <2>1, <2>2, <2>3, <3>1, AcknowledgedType, ReplaceRowType
    <3>3. worker' \in [Workers -> WorkerState]
      BY <1>1, <1>13, <2>1, <2>5 DEF Settle, WorkerState
    <3> QED  BY <1>0, <1>1, <1>13, <2>4, <3>2, <3>3, SenderFrame DEF Settle
  <2>6. CASE worker[w].answer # "exact"
    <3>1. code \in Errors
      <4>1. AnswerCode["diverged"] \in Errors /\ AnswerCode["conflict"] \in Errors
              /\ AnswerCode["unauthorized"] \in Errors /\ AnswerCode["rejected"] \in Errors
              /\ AnswerCode["retryable"] \in Errors
        BY DEF AnswerCode, Errors
      <4>2. worker[w].answer \in {"diverged", "conflict", "unauthorized", "rejected", "retryable"}
        BY <2>2, <2>6 DEF Answers
      <4> QED  BY <4>1, <4>2
    <3>2. pause \in BOOLEAN
      OBVIOUS
    <3>3. sender' = [sender EXCEPT ![b] = Failed(sender[b], code, pause)]
      BY <1>13, <2>6 DEF Settle
    <3> HIDE DEF b, code, pause
    <3>4. sender' \in SenderRows
      BY <1>0, <2>1, <2>3, <3>1, <3>2, <3>3, FailedType, ReplaceRowType
    <3>5. worker' \in [Workers -> WorkerState]
      BY <1>0, <1>13, <2>6, ReturnType DEF Settle
    <3> QED  BY <1>0, <1>1, <1>13, <2>4, <3>4, <3>5, SenderFrame DEF Settle
  <2> QED  BY <2>5, <2>6
<1> QED
  BY <1>2, <1>3, <1>4, <1>5, <1>6, <1>7, <1>8, <1>9, <1>10, <1>11, <1>12, <1>13,
     Zenon DEF DeliveryStep

(* The receiver's transaction keeps its own tables well typed. *)
LEMMA IngestType ==
  ASSUME InboxTypeOK, NEW r \in Request, IngestSigned(r)
  PROVE  InboxTypeOK'
<1> DEFINE last == Max(r.batch)
<1>1. r.conn \in Connections /\ r.batch \subseteq Ids /\ r.batch # {}
  BY DEF Request, Batches
<1>2. last \in Ids
  BY <1>1, MaxOfIds
<1>3. last \in 0..MaxId
  BY <1>2, ParameterAssumption DEF Ids
<1>4. /\ inbox' = inbox \/ inbox' = [inbox EXCEPT ![r.conn] = @ \cup r.batch]
      /\ checkpoint' = checkpoint \/ checkpoint' = [checkpoint EXCEPT ![r.conn] = last]
      /\ UNCHANGED <<connection, applied>>
  BY DEF IngestSigned
<1> HIDE DEF last
<1> QED  BY <1>1, <1>3, <1>4 DEF InboxTypeOK

(* The receiver's outcome for a request is one of the answers. *)
LEMMA OutcomeType ==
  ASSUME NEW r
  PROVE  Outcome(r) \in Answers
BY DEF Outcome, Answers

(* A worker that holds an answer is in a state. *)
LEMMA AnsweredType ==
  ASSUME SenderTypeOK, NEW w \in Workers, worker[w].pc = "posted", NEW answer \in Answers
  PROVE  [pc |-> "answered", b |-> worker[w].b, sent |-> worker[w].sent,
          snap |-> worker[w].snap, batch |-> worker[w].batch, answer |-> answer] \in WorkerState
BY WorkerShape DEF WorkerState

(* The answer to a waiting request keeps the types, stored or refused. *)
LEMMA ExchangeType ==
  ASSUME TypeOK, NEW w \in Workers, ReceiverAnswers(w) \/ ReceiverRefuses(w)
  PROVE  TypeOK'
<1>1. SenderTypeOK /\ InboxTypeOK /\ worker[w].pc = "posted"
  BY DEF TypeOK, ReceiverAnswers, ReceiverRefuses
<1>2. PICK answer \in Answers :
        worker' = [worker EXCEPT ![w] =
          [pc |-> "answered", b |-> worker[w].b, sent |-> worker[w].sent,
           snap |-> worker[w].snap, batch |-> worker[w].batch, answer |-> answer]]
  BY OutcomeType DEF ReceiverAnswers, ReceiverRefuses, Answers
<1>3. SenderTypeOK'
  <2>1. late' = late
    BY DEF ReceiverAnswers, ReceiverRefuses
  <2> QED  BY <1>1, <1>2, <2>1, AnsweredType DEF SenderTypeOK, Request
<1>4. OutboxTypeOK'
  BY DEF TypeOK, ReceiverAnswers, ReceiverRefuses, OutboxTypeOK, outboxVars
<1>5. InboxTypeOK'
  <2>1. CASE ReceiverAnswers(w)
    BY <1>1, <2>1, RequestType, IngestType DEF ReceiverAnswers
  <2>2. CASE ReceiverRefuses(w)
    BY <1>1, <2>2 DEF ReceiverRefuses, inboxVars, InboxTypeOK
  <2> QED  BY <2>1, <2>2
<1> QED  BY <1>3, <1>4, <1>5 DEF TypeOK

(* A request that arrives after its timeout keeps the types. *)
LEMMA LateType ==
  ASSUME TypeOK, NEW r \in late, LateRequestArrives(r)
  PROVE  TypeOK'
<1>1. InboxTypeOK'
  BY IngestType DEF TypeOK, SenderTypeOK, LateRequestArrives
<1>2. OutboxTypeOK'
  BY DEF TypeOK, OutboxTypeOK, LateRequestArrives, outboxVars
<1>3. SenderTypeOK'
  BY DEF TypeOK, SenderTypeOK, LateRequestArrives
<1> QED  BY <1>1, <1>2, <1>3 DEF TypeOK

(* Revoking and rotating a receiver connection keeps it one. *)
LEMMA EndpointType ==
  ASSUME NEW e \in Endpoint
  PROVE  /\ [e EXCEPT !.status = "revoked", !.previous = 0] \in Endpoint
         /\ \A key, next \in 1..MaxKey : [e EXCEPT !.previous = key, !.current = next] \in Endpoint
<1>1. ASSUME NEW none \in 0..MaxKey
      PROVE  [e EXCEPT !.status = "revoked", !.previous = none] \in Endpoint
  BY DEF Endpoint
<1>2. ASSUME NEW key \in 1..MaxKey, NEW next \in 1..MaxKey
      PROVE  [e EXCEPT !.previous = key, !.current = next] \in Endpoint
  <2>1. key \in 0..MaxKey
    BY ParameterAssumption
  <2> QED  BY <2>1 DEF Endpoint
<1>3. 0 \in 0..MaxKey
  BY ParameterAssumption
<1> QED  BY <1>1, <1>2, <1>3

(* The administrator's and the dispatcher's steps at the receiver keep the types. *)
LEMMA ReceivingType ==
  ASSUME TypeOK, Receiving
  PROVE  TypeOK'
<1> USE ParameterAssumption
<1>1. OutboxTypeOK' /\ SenderTypeOK'
  BY DEF TypeOK, OutboxTypeOK, SenderTypeOK, Receiving, outboxVars, senderVars
<1>2. PICK c \in Connections :
        (\E b \in Bindings : Pair(c, b)) \/ Rotate(c) \/ GraceEnds(c) \/ Revoke(c)
          \/ AdvanceApplied(c)
  BY DEF Receiving
<1>3. connection[c] \in Endpoint \cup {Absent} /\ InboxTypeOK
  BY DEF TypeOK, InboxTypeOK
<1>4. ASSUME NEW b \in Bindings, Pair(c, b)
      PROVE  InboxTypeOK'
  <2>1. [status |-> "active", binding |-> b, current |-> 1, previous |-> 0] \in Endpoint
    BY DEF Endpoint
  <2> QED  BY <1>3, <1>4, <2>1 DEF Pair, InboxTypeOK
<1>5. ASSUME Rotate(c)
      PROVE  InboxTypeOK'
  <2>1. connection[c] \in Endpoint
    BY <1>3, <1>5 DEF Rotate, Accepting, Absent
  <2> DEFINE key == connection[c].current
  <2>2. key \in 1..MaxKey /\ key + 1 \in 1..MaxKey
    BY <1>5, <2>1 DEF Rotate, Endpoint
  <2> DEFINE rotated == [connection[c] EXCEPT !.previous = key, !.current = key + 1]
  <2>3. connection' = [connection EXCEPT ![c] = rotated] /\ UNCHANGED <<checkpoint, inbox, applied>>
    BY <1>5 DEF Rotate
  <2> HIDE DEF key
  <2>4. rotated \in Endpoint
    BY <2>1, <2>2, EndpointType
  <2> HIDE DEF rotated
  <2> QED  BY <1>3, <2>3, <2>4 DEF InboxTypeOK
<1>6. ASSUME GraceEnds(c)
      PROVE  InboxTypeOK'
  <2>1. [connection[c] EXCEPT !.previous = 0] \in Endpoint
    BY <1>3, <1>6 DEF GraceEnds, Accepting, Absent, Endpoint
  <2> QED  BY <1>3, <1>6, <2>1 DEF GraceEnds, InboxTypeOK
<1>7. ASSUME Revoke(c)
      PROVE  InboxTypeOK'
  <2> DEFINE revoked == [connection[c] EXCEPT !.status = "revoked", !.previous = 0]
  <2>1. revoked \in Endpoint
    <3>1. connection[c] \in Endpoint
      BY <1>3, <1>7 DEF Revoke, Accepting, Absent
    <3> QED  BY <3>1, EndpointType
  <2>2. connection' = [connection EXCEPT ![c] = revoked] /\ UNCHANGED <<checkpoint, inbox, applied>>
    BY <1>7 DEF Revoke
  <2> HIDE DEF revoked
  <2> QED  BY <1>3, <2>1, <2>2 DEF InboxTypeOK
<1>8. ASSUME AdvanceApplied(c)
      PROVE  InboxTypeOK'
  BY <1>3, <1>8 DEF AdvanceApplied, InboxTypeOK, Ids
<1> QED  BY <1>1, <1>2, <1>4, <1>5, <1>6, <1>7, <1>8, <1>3 DEF TypeOK

(* The applied-status poll keeps the types. *)
LEMMA PollingType ==
  ASSUME TypeOK, Polling
  PROVE  TypeOK'
<1>0. OutboxTypeOK /\ SenderTypeOK /\ InboxTypeOK /\ rowLock \in RowLocks
  BY DEF TypeOK, OutboxTypeOK, RowLocks
<1>1. worker \in [Workers -> WorkerState] /\ late \subseteq Request
  BY <1>0 DEF SenderTypeOK
<1>2. PICK b \in Bindings :
        PollStatus(b) \/ ((StatusFails(b) \/ BecomeDue(b)) /\ UNCHANGED inboxVars)
  BY DEF Polling
<1>3. Connected(b) /\ sender[b] \in Row
  BY <1>0, <1>2, RowShape
  DEF PollStatus, StatusFails, StatusUnverified, BecomeDue, Active
<1>4. UNCHANGED <<outboxVars, inboxVars, rowLock, worker, late>>
  BY <1>2 DEF PollStatus, StatusVerified, StatusFails, StatusUnverified, BecomeDue
<1> DEFINE c == sender[b].conn
           unproven == [sender[b] EXCEPT !.proof = "status_unverified"]
           proven == [sender[b] EXCEPT !.applied = applied[c], !.proof = ""]
<1>5. unproven \in Row /\ proven \in Row
  <2>1. applied[c] \in 0..MaxId
    BY <1>0, <1>3 DEF Row, InboxTypeOK
  <2> QED  BY <1>3, <2>1, ProofType
<1>6. \/ sender' = [sender EXCEPT ![b] = unproven]
      \/ sender' = [sender EXCEPT ![b] = proven]
      \/ sender' = [sender EXCEPT ![b].next = "due"]
  <2>1. CASE PollStatus(b) /\ StatusVerified(b, checkpoint[c], applied[c])
    BY <2>1 DEF StatusVerified
  <2>2. CASE StatusUnverified(b)
    BY <2>2 DEF StatusUnverified
  <2>3. CASE BecomeDue(b)
    BY <2>3 DEF BecomeDue
  <2> QED  BY <1>2, <2>1, <2>2, <2>3 DEF PollStatus, StatusFails
<1> HIDE DEF c, unproven, proven
<1>7. [sender EXCEPT ![b].next = "due"] \in SenderRows
  BY <1>0, <1>3, RescheduleType DEF SenderRows
<1>8. sender' \in SenderRows
  BY <1>0, <1>5, <1>6, <1>7, ReplaceRowType
<1> QED  BY <1>0, <1>1, <1>4, <1>8, SenderFrame

(* configure, revoke and retryPaused keep the types. *)
LEMMA AdministeringType ==
  ASSUME TypeOK, Administering
  PROVE  TypeOK'
<1>0. OutboxTypeOK /\ SenderTypeOK /\ InboxTypeOK /\ rowLock \in RowLocks
  BY DEF TypeOK, OutboxTypeOK, RowLocks
<1>1. worker \in [Workers -> WorkerState] /\ late \subseteq Request
  BY <1>0 DEF SenderTypeOK
<1>2. PICK b \in Bindings :
        Install(b) \/ ((RevokeSender(b) \/ RetryPaused(b)) /\ UNCHANGED inboxVars)
  BY DEF Administering
<1>3. UNCHANGED <<outboxVars, inboxVars, rowLock, worker, late>>
  BY <1>2 DEF Install, ConfigureNew, ConfigureRotation, RevokeSender, RetryPaused
<1>4. CASE Install(b)
  <2>1. PICK c \in Connections : \E k \in Issued(c) :
          connection[c].binding = b /\ (ConfigureNew(b, c, k) \/ ConfigureRotation(b, c, k))
    BY <1>4 DEF Install
  <2>2. PICK k \in Issued(c) : ConfigureNew(b, c, k) \/ ConfigureRotation(b, c, k)
    BY <2>1
  <2>3. k \in 1..MaxKey
    <3>1. connection[c] # Absent
      BY DEF Issued
    <3>2. connection[c] \in Endpoint
      BY <1>0, <3>1 DEF InboxTypeOK
    <3>3. connection[c].current \in 1..MaxKey /\ k \in 1..connection[c].current
      BY <3>1, <3>2 DEF Endpoint, Issued
    <3> QED  BY <3>3, ParameterAssumption
  <2>4. CASE ConfigureNew(b, c, k)
    <3>1. sender' = [sender EXCEPT ![b] = FreshRow(c, k)]
      BY <2>4 DEF ConfigureNew
    <3> QED  BY <1>0, <1>1, <1>3, <2>3, <3>1, FreshRowType, ReplaceRowType, SenderFrame
  <2>5. CASE ConfigureRotation(b, c, k)
    <3> DEFINE row == [sender[b] EXCEPT !.key = k, !.status = "active", !.next = "due",
                         !.error = "", !.proof = "status_unverified"]
    <3>1. sender' = [sender EXCEPT ![b] = row] /\ Connected(b)
      BY <2>5 DEF ConfigureRotation
    <3>2. row \in Row
      BY <1>0, <2>3, <3>1, RowShape, AdministeredType
    <3> HIDE DEF row
    <3> QED  BY <1>0, <1>1, <1>3, <3>1, <3>2, ReplaceRowType, SenderFrame
  <2> QED  BY <2>2, <2>4, <2>5
<1>5. CASE RevokeSender(b)
  <2>1. sender' \in SenderRows
    BY <1>0, <1>5 DEF RevokeSender, OutboxTypeOK, SenderRows
  <2> QED  BY <1>0, <1>1, <1>3, <2>1, SenderFrame
<1>6. CASE RetryPaused(b)
  <2> DEFINE row == [sender[b] EXCEPT !.status = "active", !.next = "due"]
  <2>1. sender' = [sender EXCEPT ![b] = row] /\ Connected(b)
    BY <1>6 DEF RetryPaused
  <2>2. row \in Row
    BY <1>0, <2>1, RowShape, AdministeredType
  <2> HIDE DEF row
  <2> QED  BY <1>0, <1>1, <1>3, <2>1, <2>2, ReplaceRowType, SenderFrame
<1> QED  BY <1>2, <1>4, <1>5, <1>6

(* Stuttering keeps the types. *)
LEMMA StutterType ==
  ASSUME TypeOK, UNCHANGED vars
  PROVE  TypeOK'
BY DEF vars, TypeOK, OutboxTypeOK, SenderTypeOK, InboxTypeOK

(* Every step keeps the types; the row lock guarantees that a request has a row. *)
LEMMA NextType ==
  ASSUME TypeOK, OnlyCurrentCredential, [Next]_vars
  PROVE  TypeOK'
BY WritingType, DeliveryType, ExchangeType, PollingType, AdministeringType, ReceivingType,
   LateType, StutterType
DEF Next, Sending, Exchange

----------------------------------------------------------------------------
(* The row lock: what one worker's exchange relies on, nobody else changes *)

Guarded(w) ==
  LET b == worker[w].b IN rowLock[b] = w /\ Active(b) /\ SameIdentity(b, worker[w].snap)

(* A step that touches one binding's row or lock does not disturb a worker that
   waits for an answer, unless that worker holds the lock. *)
LEMMA ElsewhereGuarded ==
  ASSUME TypeOK, OnlyCurrentCredential, NEW v \in Workers, Waiting(v),
         worker'[v] = worker[v], NEW b \in Bindings, rowLock[b] # v,
         \A x \in Bindings \ {b} : sender'[x] = sender[x] /\ rowLock'[x] = rowLock[x]
  PROVE  Guarded(v)'
<1> DEFINE x == worker[v].b
<1>1. x \in Bindings
  BY WorkerShape DEF TypeOK, Waiting
<1>2. rowLock[x] = v /\ Active(x) /\ SameIdentity(x, worker[v].snap)
  BY DEF OnlyCurrentCredential
<1>3. sender'[x] = sender[x] /\ rowLock'[x] = rowLock[x]
  BY <1>1, <1>2
<1> QED  BY <1>2, <1>3 DEF Guarded, Active, SameIdentity, Identity, Connected

(* A waiting worker stays guarded when neither its row nor its lock changes. *)
LEMMA UntouchedGuarded ==
  ASSUME OnlyCurrentCredential, NEW v \in Workers, Waiting(v),
         worker'[v].b = worker[v].b, worker'[v].snap = worker[v].snap,
         UNCHANGED <<sender, rowLock>>
  PROVE  Guarded(v)'
BY DEF Guarded, OnlyCurrentCredential, Active, SameIdentity, Identity, Connected

(* If every waiting worker is guarded by its row lock, its request carries the row's credential. *)
LEMMA CredentialsFromGuards ==
  ASSUME \A v \in Workers : Waiting(v)' => Guarded(v)'
  PROVE  OnlyCurrentCredential'
BY DEF OnlyCurrentCredential, Guarded

(* No step but Post leaves its own worker waiting for an answer. *)
LEMMA OnlyPostWaits ==
  ASSUME TypeOK, NEW w \in Workers, DeliveryStep(w), ~Post(w)
  PROVE  ~Waiting(w)'
<1>0. SenderTypeOK /\ worker \in [Workers -> WorkerState]
  BY DEF TypeOK, SenderTypeOK
<1>1. \A s : worker' = [worker EXCEPT ![w] = s] => worker'[w] = s
  BY <1>0
<1>2. ASSUME NEW pc \in {"empty", "gap", "unavailable"}, worker[w].pc = "snap", Goto(w, pc)
      PROVE  ~Waiting(w)'
  <2>1. [worker[w] EXCEPT !.pc = pc].pc = pc
    BY <1>0, <1>2, WorkerShape
  <2>2. worker'[w].pc = pc
    BY <1>1, <1>2, <2>1 DEF Goto
  <2> QED  BY <2>2 DEF Waiting
<1>3. ASSUME worker[w].pc \in {"gap", "unavailable", "encoding", "empty", "batch", "posted", "answered"},
             Return(w)
      PROVE  ~Waiting(w)'
  <2>1. Done(w).pc \in {"idle", "yield"}
    BY <1>0, <1>3, DoneType DEF NoWork
  <2>2. worker'[w] = Done(w)
    BY <1>1, <1>3 DEF Return
  <2> QED  BY <2>1, <2>2 DEF Waiting
<1>4. CASE \E b \in Bindings : Snapshot(w, b)
  <2>1. PICK b \in Bindings : Snapshot(w, b)
    BY <1>4
  <2>2. worker'[w] = [pc |-> "snap", b |-> b, sent |-> worker[w] # NoWork, snap |-> Identity(b)]
    BY <1>0, <2>1 DEF Snapshot
  <2> QED  BY <2>2 DEF Waiting
<1>5. CASE ReadPage(w)
  BY <1>1, <1>2, <1>5 DEF ReadPage, Waiting
<1>6. CASE PageUnavailable(w)
  BY <1>2, <1>6 DEF PageUnavailable
<1>7. CASE EncodingFails(w)
  BY <1>1, <1>7 DEF EncodingFails, Waiting
<1>8. CASE RecordFailure(w) \/ DeferEmpty(w) \/ ConfigurationUnavailable(w) \/ TransportError(w)
  BY <1>3, <1>8 DEF RecordFailure, DeferEmpty, ConfigurationUnavailable, TransportError
<1>9. CASE Settle(w)
  <2>1. CASE worker[w].answer = "exact"
    BY <1>1, <1>9, <2>1 DEF Settle, Waiting
  <2>2. CASE worker[w].answer # "exact"
    BY <1>3, <1>9, <2>2 DEF Settle
  <2> QED  BY <2>1, <2>2
<1>10. CASE YieldTurn(w) \/ Crash(w)
  BY <1>1, <1>10 DEF YieldTurn, Crash, Waiting, NoWork
<1> QED  BY <1>4, <1>5, <1>6, <1>7, <1>8, <1>9, <1>10 DEF DeliveryStep

(* Delivery steps: a worker that posts took the lock and compared the row first. *)
LEMMA DeliveryCredential ==
  ASSUME TypeOK, OnlyCurrentCredential, NEW w \in Workers, DeliveryStep(w)
  PROVE  OnlyCurrentCredential'
<1> DEFINE b == worker[w].b
<1>0. /\ SenderTypeOK
      /\ worker \in [Workers -> WorkerState]
      /\ sender \in SenderRows /\ rowLock \in RowLocks
  BY DEF TypeOK, SenderTypeOK, OutboxTypeOK, SenderRows, RowLocks
<1> SUFFICES ASSUME NEW v \in Workers, Waiting(v)'
             PROVE  Guarded(v)'
  BY CredentialsFromGuards
<1>1. v # w => worker'[v] = worker[v] /\ Waiting(v)
  BY <1>0
  DEF DeliveryStep, Snapshot, ReadPage, PageUnavailable, EncodingFails, RecordFailure,
      DeferEmpty, Post, ConfigurationUnavailable, TransportError, Settle, YieldTurn, Crash,
      Goto, Return, Waiting
<1>2. NoOne \notin Workers
  BY ParameterAssumption
<1>3. CASE \/ \E x \in Bindings : Snapshot(w, x)
           \/ ReadPage(w) \/ PageUnavailable(w) \/ EncodingFails(w)
  <2>1. UNCHANGED <<sender, rowLock>>
    BY <1>3 DEF Snapshot, ReadPage, PageUnavailable, EncodingFails
  <2>2. ~Post(w)
    <3>1. CASE \E x \in Bindings : Snapshot(w, x)
      <4>1. worker[w] = NoWork \/ worker[w].pc = "yield"
        BY <3>1 DEF Snapshot
      <4> QED  BY <4>1 DEF NoWork, Post
    <3>2. CASE ReadPage(w) \/ PageUnavailable(w)
      BY <3>2 DEF ReadPage, PageUnavailable, Post
    <3>3. CASE EncodingFails(w)
      <4>1. worker'[w].pc = "encoding" /\ worker[w].pc = "batch"
        BY <1>0, <3>3 DEF EncodingFails
      <4>2. ~Goto(w, "posted")
        BY <1>0, <4>1, WorkerShape DEF Goto
      <4>3. ~Return(w)
        BY <1>0, <4>1, DoneType DEF Return, NoWork
      <4> QED  BY <4>2, <4>3 DEF Post
    <3> QED  BY <1>3, <3>1, <3>2, <3>3
  <2> QED  BY <1>1, <2>1, <2>2, OnlyPostWaits, UntouchedGuarded
<1>4. ASSUME rowLock[b] \in {NoOne, w}, b \in Bindings, v # w,
             \A x \in Bindings \ {b} : sender'[x] = sender[x] /\ rowLock'[x] = rowLock[x]
      PROVE  Guarded(v)'
  BY <1>1, <1>2, <1>4, ElsewhereGuarded
<1>5. CASE \/ RecordFailure(w) \/ DeferEmpty(w) \/ ConfigurationUnavailable(w) \/ YieldTurn(w)
  <2>1. rowLock[b] = NoOne /\ b \in Bindings
    BY <1>0, <1>5, WorkerShape DEF RecordFailure, DeferEmpty, ConfigurationUnavailable, YieldTurn
  <2>2. \A x \in Bindings \ {b} : sender'[x] = sender[x] /\ rowLock'[x] = rowLock[x]
    BY <1>0, <1>5 DEF RecordFailure, DeferEmpty, ConfigurationUnavailable, YieldTurn, SenderRows
  <2>3. ~Post(w)
    <3>1. CASE RecordFailure(w) \/ DeferEmpty(w) \/ YieldTurn(w)
      BY <3>1 DEF RecordFailure, DeferEmpty, YieldTurn, Post
    <3>2. CASE ConfigurationUnavailable(w)
      <4>1. ~Goto(w, "posted")
        BY <1>0, <3>2, DoneType DEF ConfigurationUnavailable, Goto, Return, NoWork
      <4> QED  BY <3>2, <4>1 DEF ConfigurationUnavailable, Post
    <3> QED  BY <1>5, <3>1, <3>2
  <2> QED  BY <1>4, <2>1, <2>2, <2>3, OnlyPostWaits
<1>6. CASE TransportError(w) \/ Settle(w)
  <2>1. rowLock[b] = w /\ b \in Bindings
    BY <1>0, <1>6, WorkerShape DEF TransportError, Settle, OnlyCurrentCredential, Waiting
  <2>2. \A x \in Bindings \ {b} : sender'[x] = sender[x] /\ rowLock'[x] = rowLock[x]
    BY <1>0, <1>6 DEF TransportError, Settle, SenderRows, RowLocks
  <2>3. ~Post(w)
    BY <1>6 DEF TransportError, Settle, Post
  <2> QED  BY <1>4, <2>1, <2>2, <2>3, OnlyPostWaits
<1>7. CASE Crash(w)
  <2>1. v # w
    BY <1>0, <1>7 DEF Crash, Waiting, NoWork
  <2>2. rowLock[worker[v].b] = v /\ worker[v].b \in Bindings
    BY <1>0, <1>1, <2>1, WorkerShape DEF OnlyCurrentCredential, Waiting
  <2>3. rowLock'[worker[v].b] = v /\ sender' = sender
    BY <1>7, <2>1, <2>2 DEF Crash
  <2> QED
    BY <1>1, <2>1, <2>2, <2>3
    DEF Guarded, OnlyCurrentCredential, Active, SameIdentity, Identity, Connected
<1>8. CASE Post(w)
  <2>1. rowLock[b] = NoOne /\ b \in Bindings /\ sender' = sender
    BY <1>0, <1>8, WorkerShape DEF Post
  <2>2. \A x \in Bindings \ {b} : rowLock'[x] = rowLock[x]
    BY <1>0, <1>8 DEF Post, RowLocks
  <2>3. CASE v # w
    BY <1>4, <2>1, <2>2, <2>3
  <2>4. CASE v = w
    <3>1. CASE StillCurrent(w)
      <4>1. worker' = [worker EXCEPT ![w].pc = "posted"] /\ rowLock'[b] = w
        BY <1>0, <1>8, <2>1, <3>1 DEF Post, Goto, RowLocks
      <4>2. worker'[w].b = b /\ worker'[w].snap = worker[w].snap
        BY <1>0, <4>1
      <4> QED
        BY <2>1, <2>4, <3>1, <4>1, <4>2
        DEF Guarded, StillCurrent, Due, Active, SameIdentity, Identity, Connected
    <3>2. CASE ~StillCurrent(w)
      <4>1. Return(w) /\ worker[w].pc = "batch"
        BY <1>8, <3>2 DEF Post
      <4>2. worker'[w] = Done(w)
        BY <1>0, <4>1 DEF Return
      <4>3. Done(w).pc \in {"idle", "yield"}
        BY <1>0, <4>1, DoneType DEF NoWork
      <4> QED  BY <2>4, <4>2, <4>3 DEF Waiting
    <3> QED  BY <3>1, <3>2
  <2> QED  BY <2>3, <2>4
<1> QED  BY <1>3, <1>5, <1>6, <1>7, <1>8 DEF DeliveryStep

(* Whoever rewrites a row that no delivery holds leaves every exchange alone. *)
LEMMA UnlockedRowCredential ==
  ASSUME TypeOK, OnlyCurrentCredential, UNCHANGED <<worker, rowLock>>,
         NEW b \in Bindings, rowLock[b] = NoOne,
         \A x \in Bindings \ {b} : sender'[x] = sender[x]
  PROVE  OnlyCurrentCredential'
<1> SUFFICES ASSUME NEW v \in Workers, Waiting(v)'
             PROVE  Guarded(v)'
  BY CredentialsFromGuards
<1>1. Waiting(v) /\ worker'[v] = worker[v] /\ rowLock[b] # v
  BY ParameterAssumption DEF Waiting
<1> QED  BY <1>1, ElsewhereGuarded

(* A step that touches no row, lock or worker keeps the guards. *)
LEMMA UnchangedCredential ==
  ASSUME OnlyCurrentCredential, UNCHANGED <<sender, worker, rowLock>>
  PROVE  OnlyCurrentCredential'
BY DEF OnlyCurrentCredential, Waiting, Active, SameIdentity, Identity, Connected

(* Writers wake only rows that nobody has locked, so the guards stay. *)
LEMMA WritingCredential ==
  ASSUME TypeOK, OnlyCurrentCredential, Writing
  PROVE  OnlyCurrentCredential'
<1>0. OutboxTypeOK /\ sender \in SenderRows
  BY DEF TypeOK, OutboxTypeOK, SenderRows
<1>1. CASE \E u \in Writers : Wake(u)
  <2>1. PICK u \in Writers : Wake(u)
    BY <1>1
  <2> DEFINE b == writer[u].row.binding
  <2>2. b \in Bindings /\ rowLock[b] = NoOne
    BY <1>0, <2>1, WriterShape DEF Wake
  <2>3. \A x \in Bindings \ {b} : sender'[x] = sender[x]
    BY <1>0, <2>1 DEF Wake, SenderRows
  <2>4. UNCHANGED <<worker, rowLock>>
    BY <2>1 DEF Writing, Wake
  <2> QED  BY <2>2, <2>3, <2>4, UnlockedRowCredential
<1>2. CASE ~ \E u \in Writers : Wake(u)
  <2>1. UNCHANGED <<sender, worker, rowLock>>
    BY <1>2
    DEF Writing, OutboxNext, Append, EnsureInitialReconcile, RequestReconcile, Insert,
        ReuseReconcile, ReturnReused, CommitInsert, RollbackInsert, LoseWake, Prune
  <2> QED  BY <2>1, UnchangedCredential
<1> QED  BY <1>1, <1>2

(* An answer ends the wait of one worker and touches no other. *)
LEMMA ExchangeCredential ==
  ASSUME TypeOK, OnlyCurrentCredential, NEW w \in Workers,
         ReceiverAnswers(w) \/ ReceiverRefuses(w)
  PROVE  OnlyCurrentCredential'
<1>0. worker \in [Workers -> WorkerState] /\ worker[w].pc = "posted"
  BY DEF TypeOK, SenderTypeOK, ReceiverAnswers, ReceiverRefuses
<1> SUFFICES ASSUME NEW v \in Workers, Waiting(v)'
             PROVE  Guarded(v)'
  BY CredentialsFromGuards
<1>1. PICK answer :
        worker' = [worker EXCEPT ![w] =
          [pc |-> "answered", b |-> worker[w].b, sent |-> worker[w].sent,
           snap |-> worker[w].snap, batch |-> worker[w].batch, answer |-> answer]]
  BY DEF ReceiverAnswers, ReceiverRefuses
<1>2. Waiting(v) /\ worker'[v].b = worker[v].b /\ worker'[v].snap = worker[v].snap
  BY <1>0, <1>1 DEF Waiting
<1>3. UNCHANGED <<sender, rowLock>>
  BY DEF ReceiverAnswers, ReceiverRefuses
<1> QED  BY <1>2, <1>3, UntouchedGuarded

(* The poller writes only unlocked rows, so the guards stay. *)
LEMMA PollingCredential ==
  ASSUME TypeOK, OnlyCurrentCredential, Polling
  PROVE  OnlyCurrentCredential'
<1>0. sender \in SenderRows
  BY DEF TypeOK, OutboxTypeOK, SenderRows
<1>1. PICK b \in Bindings :
        PollStatus(b) \/ ((StatusFails(b) \/ BecomeDue(b)) /\ UNCHANGED inboxVars)
  BY DEF Polling
<1>2. UNCHANGED <<worker, rowLock>>
  BY <1>1 DEF PollStatus, StatusVerified, StatusFails, StatusUnverified, BecomeDue
<1>3. CASE PollStatus(b) \/ StatusFails(b)
  <2>1. rowLock[b] = NoOne
    BY <1>3 DEF PollStatus, StatusVerified, StatusFails, StatusUnverified
  <2>2. \A x \in Bindings \ {b} : sender'[x] = sender[x]
    BY <1>0, <1>3 DEF PollStatus, StatusVerified, StatusFails, StatusUnverified, SenderRows
  <2> QED  BY <1>2, <2>1, <2>2, UnlockedRowCredential
<1>4. CASE BecomeDue(b)
  <2>1. sender[b] \in Row
    BY <1>4, RowShape DEF BecomeDue, Active, TypeOK
  <2>2. \A x \in Bindings :
          /\ Active(x) => Active(x)'
          /\ Identity(x)' = Identity(x) \/ ~Connected(x)
    BY <1>0, <1>4, <2>1
    DEF BecomeDue, SenderRows, Active, Connected, Identity, Row, NoRow
  <2> SUFFICES ASSUME NEW v \in Workers, Waiting(v)'
               PROVE  Guarded(v)'
    BY CredentialsFromGuards
  <2>3. Waiting(v) /\ worker'[v] = worker[v] /\ worker[v].b \in Bindings
    BY <1>2, WorkerShape DEF Waiting, TypeOK
  <2> QED  BY <1>2, <2>2, <2>3 DEF Guarded, OnlyCurrentCredential, SameIdentity, Active
<1> QED  BY <1>1, <1>3, <1>4

(* Administrators write only unlocked rows, so the guards stay. *)
LEMMA AdministeringCredential ==
  ASSUME TypeOK, OnlyCurrentCredential, Administering
  PROVE  OnlyCurrentCredential'
<1>0. sender \in SenderRows
  BY DEF TypeOK, OutboxTypeOK, SenderRows
<1>1. PICK b \in Bindings :
        Install(b) \/ ((RevokeSender(b) \/ RetryPaused(b)) /\ UNCHANGED inboxVars)
  BY DEF Administering
<1>2. UNCHANGED <<worker, rowLock>> /\ rowLock[b] = NoOne
  BY <1>1
  DEF Install, ConfigureNew, ConfigureRotation, RevokeSender, RetryPaused, RowUnlocked
<1>3. \A x \in Bindings \ {b} : sender'[x] = sender[x]
  BY <1>0, <1>1
  DEF Install, ConfigureNew, ConfigureRotation, RevokeSender, RetryPaused, SenderRows
<1> QED  BY <1>2, <1>3, UnlockedRowCredential

(* Every step keeps the guards. *)
LEMMA NextCredential ==
  ASSUME TypeOK, OnlyCurrentCredential, [Next]_vars
  PROVE  OnlyCurrentCredential'
<1>1. CASE Receiving \/ (\E r \in late : LateRequestArrives(r)) \/ UNCHANGED vars
  BY <1>1, UnchangedCredential DEF Receiving, LateRequestArrives, vars, senderVars
<1> QED
  BY <1>1, WritingCredential, DeliveryCredential, ExchangeCredential, PollingCredential,
     AdministeringCredential
  DEF Next, Sending, Exchange

----------------------------------------------------------------------------
(* The theorems *)

(* Initially nothing is connected and nobody waits. *)
LEMMA InitInv == Init => TypeOK /\ OnlyCurrentCredential
<1> SUFFICES ASSUME Init PROVE TypeOK /\ OnlyCurrentCredential
  OBVIOUS
<1> USE ParameterAssumption
<1>1. OutboxTypeOK
  BY DEF Init, OutboxInit, SenderInit, OutboxTypeOK, WriterState
<1>2. SenderTypeOK
  BY DEF Init, SenderInit, SenderTypeOK, WorkerState
<1>3. InboxTypeOK
  BY DEF Init, InboxInit, InboxTypeOK
<1>4. OnlyCurrentCredential
  BY DEF Init, SenderInit, OnlyCurrentCredential, Waiting, NoWork
<1> QED  BY <1>1, <1>2, <1>3, <1>4 DEF TypeOK

(* Every table and every process keeps its type. That a finished exchange still
   finds a row to write to is not a matter of types alone: it rests on the row
   lock, so the two invariants are inductive only together. *)
THEOREM TypeCorrect == Spec => []TypeOK
<1>1. TypeOK /\ OnlyCurrentCredential /\ [Next]_vars => TypeOK' /\ OnlyCurrentCredential'
  BY NextType, NextCredential
<1> QED  BY InitInv, <1>1, PTL DEF Spec

(* A request in flight carries the current connection, key and watermark, whatever
   number of workers, administrators and pollers touch the row meanwhile
   (EventDeliveryService.php:119: "no old credential is used after their commit"). *)
THEOREM CredentialCorrect == Spec => []OnlyCurrentCredential
<1>1. TypeOK /\ OnlyCurrentCredential /\ [Next]_vars => TypeOK' /\ OnlyCurrentCredential'
  BY NextType, NextCredential
<1> QED  BY InitInv, <1>1, PTL DEF Spec
=============================================================================
