------------------------ MODULE HintDelivery_proofs ------------------------
(* What the receiver stores and what the sender believes, for every number of
   bindings, connections, workers and writers. The argument goes bottom up: the
   outbox keeps every hint above its floor, so a page leaves no hint out, so a
   batch that starts at a checkpoint extends the stored prefix without a gap.  *)
EXTENDS EventPipeline_proofs, FiniteSetTheorems

----------------------------------------------------------------------------
(* Hints become visible in id order, for every number of writers and bindings:
   the fact that every cursor into the outbox relies on.                     *)

(* Between INSERT and COMMIT a writer holds the outbox lock and has the greatest
   id ever taken; ids of rolled-back inserts are never taken again. *)
IdOrder ==
  /\ \A h \in published : h.id <= nextId
  /\ \A u \in Writers : writer[u].pc = "inserted" =>
       /\ outboxLock = u /\ writer[u].row.id = nextId
       /\ \A h \in published : h.id < nextId

(* Only writers, commits and the retention job write the outbox. *)
LEMMA OnlyWritersWrite ==
  ASSUME [Next]_vars, ~Writing
  PROVE  UNCHANGED outboxVars
<1>1. CASE Sending
  BY <1>1 DEF Sending, DeliveryStep, Snapshot, ReadPage, PageUnavailable, EncodingFails,
     RecordFailure, DeferEmpty, Post, ConfigurationUnavailable, TransportError, Settle,
     YieldTurn, Crash
<1>2. CASE Exchange \/ \E r \in late : LateRequestArrives(r)
  BY <1>2 DEF Exchange, ReceiverAnswers, ReceiverRefuses, LateRequestArrives
<1>3. CASE Administering \/ Polling
  BY <1>3 DEF Administering, Install, ConfigureNew, ConfigureRotation, RevokeSender,
     RetryPaused, Polling, PollStatus, StatusVerified, StatusUnverified, StatusFails,
     BecomeDue
<1>4. CASE Receiving \/ UNCHANGED vars
  BY <1>4 DEF Receiving, outboxVars, vars
<1> QED  BY <1>1, <1>2, <1>3, <1>4 DEF Next

(* Among the writers' steps only a commit publishes, and only an insert numbers. *)
LEMMA WritingCases ==
  ASSUME Writing
  PROVE  \/ \E u \in Writers, b \in Bindings, type \in Types : Insert(u, b, type)
         \/ \E u \in Writers : CommitInsert(u)
         \/ \E u \in Writers : RollbackInsert(u)
         \/ /\ UNCHANGED <<nextId, published, outboxLock>>
            /\ \/ UNCHANGED writer
               \/ \E u \in Writers : \E state :
                    /\ writer' = [writer EXCEPT ![u] = state]
                    /\ state.pc \in {"idle", "reused"}
                    /\ writer[u].pc # "inserted"
<1>1. CASE \E u \in Writers, b \in Bindings :
             Append(u, b) \/ EnsureInitialReconcile(u, b) \/ RequestReconcile(u, b)
  BY <1>1, ParameterAssumption DEF Append, EnsureInitialReconcile, RequestReconcile
<1>2. CASE \E u \in Writers, b \in Bindings : ReuseReconcile(u, b)
  <2>1. PICK u \in Writers, b \in Bindings : ReuseReconcile(u, b)
    BY <1>2
  <2>2. PICK r \in Reusable(b) : writer' = [writer EXCEPT ![u] = [pc |-> "reused", row |-> r]]
    BY <2>1 DEF ReuseReconcile
  <2> DEFINE state == [pc |-> "reused", row |-> r]
  <2>3. writer' = [writer EXCEPT ![u] = state]
    BY <2>2
  <2>4. state.pc = "reused"
    OBVIOUS
  <2>5. writer[u].pc # "inserted" /\ UNCHANGED <<nextId, published, outboxLock>>
    BY <2>1 DEF ReuseReconcile, IdleWriter
  <2> HIDE DEF state
  <2> QED  BY <2>3, <2>4, <2>5
<1>3. CASE \E u \in Writers : ReturnReused(u) \/ Wake(u) \/ LoseWake(u)
  <2>1. PICK u \in Writers : ReturnReused(u) \/ Wake(u) \/ LoseWake(u)
    BY <1>3
  <2>2. writer' = [writer EXCEPT ![u] = IdleWriter] /\ IdleWriter.pc = "idle"
        /\ writer[u].pc # "inserted"
    BY <2>1 DEF ReturnReused, Wake, LoseWake, IdleWriter
  <2> QED  BY <2>1, <2>2 DEF ReturnReused, Wake, LoseWake
<1>4. CASE \E b \in Bindings : Prune(b)
  BY <1>4 DEF Prune
<1> QED  BY <1>1, <1>2, <1>3, <1>4 DEF Writing, OutboxNext

(* What a committing writer publishes lies above everything published before. *)
LEMMA CommitAbove ==
  ASSUME TypeOK, IdOrder, NEW u \in Writers, CommitInsert(u)
  PROVE  /\ published' = published \cup {writer[u].row}
         /\ writer[u].row \in Hint /\ writer[u].row.id = nextId
         /\ \A g \in published : g.id < writer[u].row.id
BY WriterShape DEF CommitInsert, IdOrder, TypeOK

(* Every step keeps ids and the outbox lock in order. *)
LEMMA IdOrderStep ==
  ASSUME TypeOK, IdOrder, [Next]_vars
  PROVE  IdOrder'
<1>0. OutboxTypeOK /\ nextId \in Nat /\ \A h \in published : h.id \in Nat
  BY ParameterAssumption DEF TypeOK, OutboxTypeOK, Hint, Ids
<1>1. CASE UNCHANGED outboxVars
  BY <1>1 DEF outboxVars, IdOrder
<1>2. CASE Writing
  <2>1. ASSUME NEW u \in Writers, NEW b \in Bindings, NEW type \in Types, Insert(u, b, type)
        PROVE  IdOrder'
    <3> DEFINE row == [id |-> nextId + 1, binding |-> b, type |-> type]
               state == [pc |-> "inserted", row |-> row]
    <3>1. /\ outboxLock = NoOne /\ outboxLock' = u /\ nextId' = nextId + 1
          /\ UNCHANGED published /\ writer' = [writer EXCEPT ![u] = state]
      BY <2>1 DEF Insert, OutboxLockFree
    <3>2. state.row.id = nextId + 1
      OBVIOUS
    <3>3. \A v \in Writers : writer[v].pc # "inserted"
      BY <3>1, ParameterAssumption DEF IdOrder
    <3> HIDE DEF state
    <3>4. \A v \in Writers \ {u} : writer'[v] = writer[v]
      BY <1>0, <3>1 DEF OutboxTypeOK
    <3>5. writer'[u] = state
      BY <1>0, <3>1 DEF OutboxTypeOK
    <3>6. \A h \in published : h.id < nextId + 1
      BY <1>0 DEF IdOrder
    <3>7. \A h \in published' : h.id <= nextId'
      BY <1>0, <3>1, <3>6
    <3> QED  BY <3>1, <3>2, <3>3, <3>4, <3>5, <3>6, <3>7 DEF IdOrder
  <2>2. ASSUME NEW u \in Writers, CommitInsert(u) \/ RollbackInsert(u)
        PROVE  IdOrder'
    <3>1. \A v \in Writers \ {u} : writer[v].pc # "inserted"
      BY <2>2 DEF CommitInsert, RollbackInsert, IdOrder
    <3>2. \A v \in Writers : writer'[v].pc # "inserted"
      <4>1. writer'[u].pc # "inserted"
        BY <1>0, <2>2, WriterShape DEF CommitInsert, RollbackInsert, OutboxTypeOK, IdleWriter
      <4>2. \A v \in Writers \ {u} : writer'[v] = writer[v]
        BY <1>0, <2>2 DEF CommitInsert, RollbackInsert, OutboxTypeOK
      <4> QED  BY <3>1, <4>1, <4>2
    <3>3. \A h \in published' : h.id <= nextId'
      <4>1. CASE CommitInsert(u)
        BY <1>0, <4>1, CommitAbove DEF CommitInsert, IdOrder
      <4>2. CASE RollbackInsert(u)
        BY <4>2 DEF RollbackInsert, IdOrder
      <4> QED  BY <2>2, <4>1, <4>2
    <3> QED  BY <3>2, <3>3 DEF IdOrder
  <2>3. ASSUME UNCHANGED <<nextId, published, outboxLock>>, UNCHANGED writer
        PROVE  IdOrder'
    BY <2>3 DEF IdOrder
  <2>4. ASSUME UNCHANGED <<nextId, published, outboxLock>>, NEW u \in Writers, NEW state,
               writer' = [writer EXCEPT ![u] = state], state.pc \in {"idle", "reused"}
        PROVE  IdOrder'
    <3>1. writer'[u].pc # "inserted"
      BY <1>0, <2>4 DEF OutboxTypeOK
    <3>2. \A v \in Writers \ {u} : writer'[v] = writer[v]
      BY <1>0, <2>4 DEF OutboxTypeOK
    <3> QED  BY <2>4, <3>1, <3>2 DEF IdOrder
  <2> QED  BY <1>2, <2>1, <2>2, <2>3, <2>4, WritingCases
<1> QED  BY <1>1, <1>2, OnlyWritersWrite

(* A step publishes nothing, or one hint above all others. *)
LEMMA PublishOrder ==
  ASSUME TypeOK, IdOrder, [Next]_vars
  PROVE  \A h \in published' \ published : \A g \in published : g.id < h.id
<1>1. CASE \E u \in Writers : CommitInsert(u)
  BY <1>1, CommitAbove
<1>2. CASE ~ \E u \in Writers : CommitInsert(u)
  <2>1. published' = published
    BY <1>2, OnlyWritersWrite, WritingCases DEF Insert, RollbackInsert, outboxVars
  <2> QED  BY <2>1
<1> QED  BY <1>1, <1>2

(* Ids are handed out and published under one lock, in one order. *)
THEOREM IdsInOrder == Spec => []IdOrder
<1>1. Init => IdOrder
  BY DEF Init, OutboxInit, IdOrder, IdleWriter
<1>2. TypeOK /\ IdOrder /\ [Next]_vars => IdOrder'
  BY IdOrderStep
<1> QED  BY <1>1, <1>2, TypeCorrect, PTL DEF Spec

(* No hint ever becomes visible behind one that a reader may already have seen: a
   cursor that has passed an id has passed every id below it for good. *)
THEOREM VisibleInOrderCorrect == Spec => VisibleInOrder
<1>1. TypeOK /\ IdOrder /\ [Next]_vars =>
        [\A h \in published' \ published : \A g \in published : g.id < h.id]_vars
  BY PublishOrder
<1> QED  BY <1>1, TypeCorrect, IdsInOrder, PTL DEF Spec, VisibleInOrder

----------------------------------------------------------------------------
(* Batches *)

(* Every hint above the floor still is in the outbox, and nothing else is. *)
OutboxWhole ==
  /\ outbox \subseteq published
  /\ \A h \in published : floor[h.binding] < h.id => h \in outbox

(* A batch holds all hints of H between its start and its last id. *)
Whole(H, after, batch) ==
  /\ batch \subseteq H
  /\ \A i \in batch : after < i
  /\ \A i \in H : after < i /\ i <= Max(batch) => i \in batch

----------------------------------------------------------------------------
(* The outbox *)

(* The outbox, what was published and the floors change by commits and pruning. *)
LEMMA OutboxSteps ==
  ASSUME [Next]_vars
  PROVE  \/ \E u \in Writers : CommitInsert(u)
         \/ \E b \in Bindings : Prune(b)
         \/ UNCHANGED <<outbox, published, floor>>
<1>1. CASE Writing
  BY <1>1 DEF Writing, OutboxNext, Append, EnsureInitialReconcile, RequestReconcile, Insert,
     ReuseReconcile, ReturnReused, RollbackInsert, Wake, LoseWake
<1>2. CASE ~Writing
  BY <1>2, OnlyWritersWrite DEF outboxVars
<1> QED  BY <1>1, <1>2

(* Retention removes a prefix of one binding's hints and raises its floor to it. *)
LEMMA PruneEffect ==
  ASSUME OutboxTypeOK, NEW b \in Bindings, Prune(b)
  PROVE  \E last \in IdsOf(b) :
           /\ outbox' = {r \in outbox : r.binding = b => r.id > last}
           /\ floor' = [floor EXCEPT ![b] = IF floor[b] < last THEN last ELSE floor[b]]
           /\ \A i \in IdsOf(b) : i <= last => Prunable(b, i)
           /\ UNCHANGED <<published, sender>>
<1>1. PICK cutoff \in IdsOf(b) :
        /\ PrunePrefix(b, cutoff) # {}
        /\ floor' = [floor EXCEPT ![b] =
             IF floor[b] < Max(PrunePrefix(b, cutoff)) THEN Max(PrunePrefix(b, cutoff))
                                                      ELSE floor[b]]
        /\ outbox' = {r \in outbox : r.binding = b => r.id > Max(PrunePrefix(b, cutoff))}
  BY DEF Prune
<1> DEFINE prefix == PrunePrefix(b, cutoff)
<1>2. prefix \subseteq IdsOf(b)
  BY DEF PrunePrefix
<1>3. IdsOf(b) \subseteq Ids
  BY DEF IdsOf, OutboxTypeOK, Hint
<1>4. Max(prefix) \in prefix
  BY <1>1, <1>2, <1>3, MaxOfIds
<1>5. \A i \in IdsOf(b) : i <= Max(prefix) => Prunable(b, i)
  BY <1>4 DEF PrunePrefix
<1> HIDE DEF prefix
<1> QED  BY <1>1, <1>2, <1>4, <1>5 DEF Prune, prefix

(* Every step keeps the outbox whole above the floors. *)
LEMMA OutboxWholeStep ==
  ASSUME TypeOK, OutboxWhole, [Next]_vars
  PROVE  OutboxWhole'
<1>0. /\ OutboxTypeOK /\ \A h \in published : h.id \in Nat /\ h.binding \in Bindings
      /\ \A b \in Bindings : floor[b] \in Nat
  BY ParameterAssumption DEF TypeOK, OutboxTypeOK, Hint, Ids
<1>1. CASE \E u \in Writers : CommitInsert(u)
  BY <1>1 DEF CommitInsert, OutboxWhole
<1>2. ASSUME NEW b \in Bindings, Prune(b)
      PROVE  OutboxWhole'
  <2>1. PICK last \in IdsOf(b) :
          /\ outbox' = {r \in outbox : r.binding = b => r.id > last}
          /\ floor' = [floor EXCEPT ![b] = IF floor[b] < last THEN last ELSE floor[b]]
          /\ UNCHANGED published
    BY <1>0, <1>2, PruneEffect
  <2>2. last \in Nat
    BY <1>0 DEF IdsOf, OutboxWhole
  <2>3. \A x \in Bindings : /\ floor[x] <= floor'[x]
                            /\ x = b => last <= floor'[x]
    BY <1>0, <2>1, <2>2 DEF OutboxTypeOK
  <2>4. \A x \in Bindings : floor'[x] \in Nat
    BY <1>0, <2>1, <2>2 DEF OutboxTypeOK
  <2>5. ASSUME NEW h \in published, floor'[h.binding] < h.id
        PROVE  h \in outbox'
    <3>1. floor[h.binding] < h.id /\ (h.binding = b => last < h.id)
      BY <1>0, <2>2, <2>3, <2>4, <2>5
    <3>2. h \in outbox
      BY <3>1 DEF OutboxWhole
    <3> QED  BY <1>0, <2>1, <2>2, <3>1, <3>2
  <2> QED  BY <2>1, <2>5 DEF OutboxWhole
<1>3. CASE UNCHANGED <<outbox, published, floor>>
  BY <1>3 DEF OutboxWhole
<1> QED  BY <1>1, <1>2, <1>3, OutboxSteps

----------------------------------------------------------------------------
(* Pages and batches *)

(* The ids of a binding's hints, and that nothing else is in its outbox. *)
LEMMA HintIds ==
  ASSUME OutboxTypeOK, NEW b \in Bindings
  PROVE  HintsOf(b) \subseteq Ids /\ \A h \in published : h.binding = b => h.id \in HintsOf(b)
BY DEF HintsOf, OutboxTypeOK, Hint

(* A page leaves out no hint between its start and its last id. *)
LEMMA PageWhole ==
  ASSUME OutboxTypeOK, OutboxWhole, NEW b \in Bindings, NEW after \in 0..MaxId,
         ~Expired(b, after), Page(b, after) # {}
  PROVE  Whole(HintsOf(b), after, Page(b, after)) /\ Page(b, after) \in Batches
<1> DEFINE later == {i \in IdsOf(b) : i > after}
           page == Page(b, after)
           UpToIn(i) == {j \in later : j <= i}
<1>1. IdsOf(b) \subseteq HintsOf(b) /\ HintsOf(b) \subseteq Ids
  BY HintIds DEF IdsOf, HintsOf, OutboxWhole
<1>2. page = {i \in later : Cardinality(UpToIn(i)) <= PageSize}
  BY DEF Page
<1>3. page \subseteq Ids /\ Max(page) \in page
  BY <1>1, <1>2, MaxOfIds
<1>4. \A i \in HintsOf(b) : after < i => i \in later
  <2> SUFFICES ASSUME NEW i \in HintsOf(b), after < i PROVE i \in later
    OBVIOUS
  <2>1. PICK h \in published : h.binding = b /\ h.id = i
    BY DEF HintsOf
  <2>2. floor[b] < i
    BY <1>1, ParameterAssumption DEF Expired, OutboxTypeOK, Ids
  <2>3. h \in outbox
    BY <2>1, <2>2 DEF OutboxWhole
  <2> QED  BY <2>1, <2>3, <1>1, ParameterAssumption DEF IdsOf, Ids
<1>5. ASSUME NEW i \in later, i <= Max(page)
      PROVE  i \in page
  <2>1. UpToIn(i) \subseteq UpToIn(Max(page))
    BY <1>1, <1>3, <1>5, ParameterAssumption DEF Ids
  <2>2. IsFiniteSet(UpToIn(Max(page)))
    <3>1. IsFiniteSet(1..MaxId)
      BY FS_Interval, ParameterAssumption
    <3>2. UpToIn(Max(page)) \subseteq 1..MaxId
      BY <1>1 DEF Ids
    <3> QED  BY <3>1, <3>2, FS_Subset
  <2>3. /\ IsFiniteSet(UpToIn(i))
        /\ Cardinality(UpToIn(i)) <= Cardinality(UpToIn(Max(page)))
    BY <2>1, <2>2, FS_Subset
  <2>4. Cardinality(UpToIn(i)) \in Nat /\ Cardinality(UpToIn(Max(page))) \in Nat
    BY <2>2, <2>3, FS_CardinalityType
  <2>5. Cardinality(UpToIn(Max(page))) <= PageSize
    BY <1>2, <1>3
  <2>6. Cardinality(UpToIn(i)) <= PageSize
    BY <2>3, <2>4, <2>5, ParameterAssumption
  <2> QED  BY <1>2, <2>6
<1>6. \A i \in page : after < i
  BY <1>1, <1>2, ParameterAssumption DEF Ids
<1>7. page \in Batches
  BY <1>3 DEF Batches
<1> HIDE DEF page, later
<1>8. page \subseteq HintsOf(b)
  BY <1>1, <1>2 DEF later
<1> QED  BY <1>4, <1>5, <1>6, <1>7, <1>8 DEF Whole, page

(* A hint that becomes visible later lies above every batch. *)
LEMMA WholeKept ==
  ASSUME NEW H, NEW G, H \subseteq G, G \subseteq Ids, NEW after, NEW batch \in Batches,
         Whole(H, after, batch), \A i \in G \ H : \A j \in H : j < i
  PROVE  Whole(G, after, batch)
<1>1. Max(batch) \in batch /\ Max(batch) \in Ids
  BY MaxOfIds DEF Batches
<1>2. \A i \in G : i <= Max(batch) => i \in H
  BY <1>1, ParameterAssumption DEF Whole, Ids
<1> QED  BY <1>2 DEF Whole

(* A binding's hints only grow, and only upwards. *)
LEMMA HintsGrow ==
  ASSUME TypeOK, TypeOK', IdOrder, [Next]_vars, NEW b \in Bindings
  PROVE  /\ HintsOf(b) \subseteq HintsOf(b)' /\ HintsOf(b)' \subseteq Ids
         /\ \A i \in HintsOf(b)' \ HintsOf(b) : \A j \in HintsOf(b) : j < i
<1>1. published \subseteq published'
  BY OutboxSteps DEF CommitInsert, Prune
<1>2. \A h \in published' \ published : \A g \in published : g.id < h.id
  BY PublishOrder
<1>3. HintsOf(b)' \subseteq Ids
  BY DEF HintsOf, TypeOK, OutboxTypeOK, Hint
<1> QED  BY <1>1, <1>2, <1>3 DEF HintsOf

----------------------------------------------------------------------------
(* Batches in workers and in late requests *)

Batched == {"batch", "posted", "answered"}
Attempt(w) == <<worker[w].b, worker[w].snap, worker[w].batch>>

(* A worker gets its batch from a page and keeps it until it returns. *)
LEMMA BatchSteps ==
  ASSUME TypeOK, [Next]_vars, NEW w \in Workers, worker'[w].pc \in Batched
  PROVE  \/ worker[w].pc \in Batched /\ Attempt(w)' = Attempt(w)
         \/ /\ worker[w].pc = "snap"
            /\ ~Expired(worker[w].b, worker[w].snap.received)
            /\ Page(worker[w].b, worker[w].snap.received) # {}
            /\ worker'[w] = [pc |-> "batch", b |-> worker[w].b, sent |-> worker[w].sent,
                             snap |-> worker[w].snap,
                             batch |-> Page(worker[w].b, worker[w].snap.received)]
<1>0. worker \in [Workers -> WorkerState]
  BY DEF TypeOK, SenderTypeOK
<1>1. ASSUME NEW v \in Workers, DeliveryStep(v) \/ ReceiverAnswers(v) \/ ReceiverRefuses(v), v # w
      PROVE  worker'[w] = worker[w]
  BY <1>0, <1>1 DEF DeliveryStep, Snapshot, ReadPage, PageUnavailable, EncodingFails,
     RecordFailure, DeferEmpty, Post, ConfigurationUnavailable, TransportError, Settle,
     YieldTurn, Crash, ReceiverAnswers, ReceiverRefuses, Goto, Return
<1>2. ASSUME NEW pc \in {"gap", "empty", "unavailable"}, worker[w].pc = "snap", Goto(w, pc)
      PROVE  FALSE
  <2>1. worker[w] \in [pc : {"snap", "empty", "gap", "unavailable", "encoding"},
                       b : Bindings, sent : BOOLEAN, snap : SnapshotOf]
    BY <1>2, WorkerShape DEF TypeOK
  <2>2. worker'[w] = [worker[w] EXCEPT !.pc = pc]
    BY <1>0, <1>2 DEF Goto
  <2>3. worker'[w].pc = pc
    BY <2>1, <2>2
  <2> QED  BY <2>3 DEF Batched
<1>3. ASSUME Return(w), worker[w].pc \in {"snap", "empty", "gap", "unavailable", "encoding",
                                          "batch", "posted", "answered"}
      PROVE  FALSE
  <2>1. worker'[w] = Done(w)
    BY <1>0, <1>3 DEF Return
  <2>2. Done(w).pc \in {"idle", "yield"}
    BY <1>3, DoneType DEF TypeOK, NoWork
  <2> QED  BY <2>1, <2>2 DEF Batched
<1>4. CASE ReadPage(w)
  <2>1. CASE Goto(w, "gap") \/ Goto(w, "empty")
    BY <1>4, <1>2, <2>1 DEF ReadPage
  <2>2. CASE ~(Goto(w, "gap") \/ Goto(w, "empty"))
    BY <1>0, <1>4, <2>2 DEF ReadPage
  <2> QED  BY <2>1, <2>2
<1>5. CASE Post(w)
  <2>1. worker[w] \in [pc : {"batch", "posted"}, b : Bindings, sent : BOOLEAN,
                       snap : SnapshotOf, batch : Batches]
    BY <1>5, WorkerShape DEF Post, TypeOK
  <2>2. CASE StillCurrent(w)
    <3>1. worker'[w] = [worker[w] EXCEPT !.pc = "posted"]
      BY <1>0, <1>5, <2>2 DEF Post, Goto
    <3>2. Attempt(w)' = Attempt(w)
      BY <2>1, <3>1 DEF Attempt
    <3> QED  BY <1>5, <3>2 DEF Post, Batched
  <2>3. CASE ~StillCurrent(w)
    BY <1>0, <1>5, <2>3, DoneType DEF Post, Return, Done, Batched, NoWork, TypeOK
  <2> QED  BY <2>2, <2>3
<1>6. CASE ReceiverAnswers(w) \/ ReceiverRefuses(w)
  BY <1>0, <1>6 DEF ReceiverAnswers, ReceiverRefuses, Attempt, Batched
<1>7. CASE (\E b \in Bindings : Snapshot(w, b)) \/ EncodingFails(w) \/ Crash(w) \/ YieldTurn(w)
  BY <1>0, <1>7 DEF Snapshot, EncodingFails, Crash, YieldTurn, Batched, NoWork
<1>8. CASE PageUnavailable(w)
  BY <1>8, <1>2 DEF PageUnavailable
<1>9. CASE RecordFailure(w) \/ DeferEmpty(w) \/ ConfigurationUnavailable(w)
           \/ TransportError(w) \/ Settle(w)
  <2>1. CASE Return(w)
    BY <1>9, <1>3, <2>1 DEF RecordFailure, DeferEmpty, ConfigurationUnavailable, TransportError,
       Settle
  <2>2. CASE ~Return(w)
    <3>1. Settle(w) /\ worker' = [worker EXCEPT ![w] = [pc |-> "yield", b |-> worker[w].b]]
      BY <1>9, <2>2 DEF RecordFailure, DeferEmpty, ConfigurationUnavailable, TransportError,
         Settle
    <3> QED  BY <1>0, <3>1 DEF Batched
  <2> QED  BY <2>1, <2>2
<1>10. CASE worker'[w] = worker[w]
  BY <1>10 DEF Attempt
<1>11. CASE Writing \/ Administering \/ Polling \/ Receiving \/ UNCHANGED vars
           \/ \E r \in late : LateRequestArrives(r)
  <2>1. worker' = worker
    BY <1>11 DEF Writing, Administering, Install, ConfigureNew, ConfigureRotation, RevokeSender,
       RetryPaused, Polling, PollStatus, StatusVerified, StatusUnverified, StatusFails,
       BecomeDue, Receiving, senderVars, vars, LateRequestArrives
  <2> QED  BY <2>1, <1>10
<1> QED
  BY <1>1, <1>4, <1>5, <1>6, <1>7, <1>8, <1>9, <1>10, <1>11
  DEF Next, Sending, Exchange, DeliveryStep

(* A request is late because its sender stopped waiting for it. *)
LEMMA LateSteps ==
  ASSUME TypeOK, [Next]_vars, NEW r \in late' \ late
  PROVE  \E w \in Workers : worker[w].pc = "posted" /\ r = RequestOf(w)
<1>1. CASE Sending
  BY <1>1 DEF Sending, DeliveryStep, Snapshot, ReadPage, PageUnavailable, EncodingFails,
     RecordFailure, DeferEmpty, Post, ConfigurationUnavailable, TransportError, Settle,
     YieldTurn, Crash
<1>2. CASE ~Sending
  BY <1>2 DEF Next, Exchange, ReceiverAnswers, ReceiverRefuses, Writing, Administering, Install,
     ConfigureNew, ConfigureRotation, RevokeSender, RetryPaused, Polling, PollStatus,
     StatusVerified, StatusUnverified, StatusFails, BecomeDue, Receiving, senderVars, vars,
     LateRequestArrives
<1> QED  BY <1>1, <1>2

(* Every batch, waiting in a worker or late on the wire, leaves out no hint. *)
WholePages ==
  /\ \A w \in Workers, b \in Bindings : worker[w].pc \in Batched /\ worker[w].b = b =>
       Whole(HintsOf(b), worker[w].snap.received, worker[w].batch)
  /\ \A r \in late, b \in Bindings : r.binding = b => Whole(HintsOf(b), r.after, r.batch)

(* A batched worker carries a well-typed batch. *)
LEMMA BatchedShape ==
  ASSUME TypeOK, NEW w \in Workers, worker[w].pc \in Batched
  PROVE  /\ worker[w].b \in Bindings /\ worker[w].snap \in SnapshotOf
         /\ worker[w].batch \in Batches /\ RequestOf(w) \in Request
<1>1. worker[w].b \in Bindings /\ worker[w].snap \in SnapshotOf /\ worker[w].batch \in Batches
  BY WorkerShape DEF TypeOK, Batched
<1> QED  BY <1>1 DEF RequestOf, Request, SnapshotOf

(* Every step keeps the batches whole. *)
LEMMA WholePagesStep ==
  ASSUME TypeOK, TypeOK', IdOrder, OutboxWhole, WholePages, [Next]_vars
  PROVE  WholePages'
<1>1. ASSUME NEW w \in Workers, NEW b \in Bindings, worker'[w].pc \in Batched, worker'[w].b = b
      PROVE  Whole(HintsOf(b)', worker'[w].snap.received, worker'[w].batch)
  <2>1. CASE worker[w].pc \in Batched /\ Attempt(w)' = Attempt(w)
    <3>1. /\ worker[w].b = b /\ worker'[w].snap = worker[w].snap
          /\ worker'[w].batch = worker[w].batch
      BY <1>1, <2>1 DEF Attempt
    <3>2. Whole(HintsOf(b), worker[w].snap.received, worker[w].batch)
      BY <2>1, <3>1 DEF WholePages
    <3>3. worker[w].batch \in Batches
      BY <2>1, BatchedShape
    <3>4. Whole(HintsOf(b)', worker[w].snap.received, worker[w].batch)
      BY <3>2, <3>3, HintsGrow, WholeKept
    <3> QED  BY <3>1, <3>4
  <2>2. CASE /\ worker[w].pc = "snap"
             /\ ~Expired(worker[w].b, worker[w].snap.received)
             /\ Page(worker[w].b, worker[w].snap.received) # {}
             /\ worker'[w] = [pc |-> "batch", b |-> worker[w].b, sent |-> worker[w].sent,
                              snap |-> worker[w].snap,
                              batch |-> Page(worker[w].b, worker[w].snap.received)]
    <3> DEFINE after == worker[w].snap.received
    <3>1. worker[w].b = b /\ worker'[w].snap.received = after /\ worker'[w].batch = Page(b, after)
      BY <1>1, <2>2
    <3>2. after \in 0..MaxId
      BY <2>2, WorkerShape DEF TypeOK, SnapshotOf
    <3>3. ~Expired(b, after) /\ Page(b, after) # {}
      BY <2>2, <3>1
    <3> HIDE DEF after
    <3>4. Whole(HintsOf(b), after, Page(b, after)) /\ Page(b, after) \in Batches
      BY <3>2, <3>3, PageWhole DEF TypeOK
    <3>5. Whole(HintsOf(b)', after, Page(b, after))
      BY <3>4, HintsGrow, WholeKept
    <3> QED  BY <3>1, <3>5
  <2> QED  BY <1>1, <2>1, <2>2, BatchSteps
<1>2. ASSUME NEW r \in late', NEW b \in Bindings, r.binding = b
      PROVE  Whole(HintsOf(b)', r.after, r.batch)
  <2>1. r.batch \in Batches
    BY DEF TypeOK, SenderTypeOK, Request
  <2>2. Whole(HintsOf(b), r.after, r.batch)
    <3>1. CASE r \in late
      BY <1>2, <3>1 DEF WholePages
    <3>2. CASE r \notin late
      <4>1. PICK w \in Workers : worker[w].pc = "posted" /\ r = RequestOf(w)
        BY <3>2, LateSteps
      <4>2. /\ worker[w].b = b /\ r.after = worker[w].snap.received
            /\ r.batch = worker[w].batch
        BY <1>2, <4>1 DEF RequestOf
      <4> QED  BY <4>1, <4>2 DEF WholePages, Batched
    <3> QED  BY <3>1, <3>2
  <2> QED  BY <2>1, <2>2, HintsGrow, WholeKept
<1> QED  BY <1>1, <1>2 DEF WholePages

----------------------------------------------------------------------------
(* The receiver's store *)

At(c, b) == connection[c] # Absent /\ connection[c].binding = b

(* A receiver stores its binding's hints up to its checkpoint, which is one of them. *)
Stored ==
  \A c \in Connections :
    /\ connection[c] = Absent => inbox[c] = {} /\ checkpoint[c] = 0
    /\ checkpoint[c] = 0 \/ checkpoint[c] \in inbox[c]
    /\ \A b \in Bindings :
         At(c, b) => inbox[c] = UpTo(HintsOf(b), checkpoint[c])

(* The store changes only by a batch, late or not; a connection keeps its binding. *)
LEMMA InboxSteps ==
  ASSUME [Next]_vars
  PROVE  \/ /\ UNCHANGED published
            /\ \E r : /\ IngestSigned(r)
                      /\ \/ r \in late
                         \/ \E w \in Workers : worker[w].pc = "posted" /\ r = RequestOf(w)
         \/ /\ UNCHANGED <<checkpoint, inbox>>
            /\ \/ UNCHANGED connection
               \/ \E c \in Connections, b \in Bindings : Pair(c, b)
               \/ \E c \in Connections : Rotate(c) \/ GraceEnds(c) \/ Revoke(c)
<1>1. CASE \E w \in Workers : ReceiverAnswers(w)
  BY <1>1 DEF ReceiverAnswers, outboxVars
<1>2. CASE \E r \in late : LateRequestArrives(r)
  BY <1>2 DEF LateRequestArrives, outboxVars
<1>3. CASE Receiving
  BY <1>3 DEF Receiving, Pair, Rotate, GraceEnds, Revoke, AdvanceApplied
<1>4. CASE \/ Writing \/ Sending \/ Administering \/ Polling \/ UNCHANGED vars
           \/ \E w \in Workers : ReceiverRefuses(w)
  BY <1>4 DEF Writing, Sending, Administering, Install, Polling, PollStatus, ReceiverRefuses,
     inboxVars, vars
<1> QED  BY <1>1, <1>2, <1>3, <1>4 DEF Next, Exchange


(* The operations on a connection keep its binding and its not being absent. *)
LEMMA ConnectionKept ==
  ASSUME TypeOK, [Next]_vars, NEW c \in Connections
  PROVE  \/ /\ connection'[c] = Absent <=> connection[c] = Absent
            /\ \A b \in Bindings : At(c, b)' <=> At(c, b)
         \/ /\ connection[c] = Absent /\ connection'[c] # Absent
            /\ UNCHANGED <<checkpoint, inbox, applied>>
<1>0. /\ connection \in [Connections -> Endpoint \cup {Absent}]
      /\ \A x \in Endpoint : x # Absent
  <2>1. \A x \in Endpoint : x.status # "absent"
    BY DEF Endpoint
  <2> QED  BY <2>1 DEF TypeOK, InboxTypeOK, Absent
<1>1. CASE UNCHANGED connection
  BY <1>1 DEF At
<1>2. ASSUME NEW d \in Connections, NEW b \in Bindings, Pair(d, b)
      PROVE  \/ connection'[c] = connection[c]
             \/ /\ connection[c] = Absent /\ connection'[c] # Absent
                /\ UNCHANGED <<checkpoint, inbox, applied>>
  <2>1. connection' = [connection EXCEPT ![d] =
          [status |-> "active", binding |-> b, current |-> 1, previous |-> 0]]
    BY <1>2 DEF Pair
  <2>2. CASE c = d
    <3>1. connection'[c].status = "active"
      BY <1>0, <2>1, <2>2
    <3> QED  BY <1>2, <2>2, <3>1 DEF Pair, Absent
  <2>3. CASE c # d
    BY <1>0, <2>1, <2>3
  <2> QED  BY <2>2, <2>3
<1>3. ASSUME NEW d \in Connections, Rotate(d) \/ GraceEnds(d) \/ Revoke(d)
      PROVE  /\ connection'[c] = Absent <=> connection[c] = Absent
             /\ connection[c] # Absent => connection'[c].binding = connection[c].binding
  <2>1. connection[d] \in Endpoint
    BY <1>0, <1>3 DEF Rotate, GraceEnds, Revoke, Accepting, Absent
  <2>2. CASE c # d
    BY <1>0, <1>3, <2>2 DEF Rotate, GraceEnds, Revoke
  <2>3. CASE c = d
    <3>1. /\ connection'[d].binding = connection[d].binding
          /\ connection'[d].status \in {"active", "revoked"}
      <4>1. CASE Rotate(d)
        BY <1>0, <2>1, <4>1 DEF Rotate, Accepting, Endpoint
      <4>2. CASE GraceEnds(d)
        BY <1>0, <2>1, <4>2 DEF GraceEnds, Accepting, Endpoint
      <4>3. CASE Revoke(d)
        BY <1>0, <2>1, <4>3 DEF Revoke, Accepting, Endpoint
      <4> QED  BY <1>3, <4>1, <4>2, <4>3
    <3> QED  BY <1>0, <2>1, <2>3, <3>1 DEF Absent
  <2> QED  BY <2>2, <2>3
<1>4. \/ UNCHANGED connection
      \/ \E d \in Connections, b \in Bindings : Pair(d, b)
      \/ \E d \in Connections : Rotate(d) \/ GraceEnds(d) \/ Revoke(d)
  BY InboxSteps DEF IngestSigned
<1> QED  BY <1>1, <1>2, <1>3, <1>4 DEF At


(* A batch that reaches the receiver is a well-typed request and leaves out no hint. *)
LEMMA WireBatch ==
  ASSUME TypeOK, WholePages, NEW r,
         \/ r \in late
         \/ \E w \in Workers : worker[w].pc = "posted" /\ r = RequestOf(w)
  PROVE  r \in Request /\ Whole(HintsOf(r.binding), r.after, r.batch)
<1>1. CASE r \in late
  <2>1. r \in Request /\ r.binding \in Bindings
    BY <1>1 DEF TypeOK, SenderTypeOK, Request
  <2> QED  BY <1>1, <2>1 DEF WholePages
<1>2. ASSUME NEW w \in Workers, worker[w].pc = "posted", r = RequestOf(w)
      PROVE  r \in Request /\ Whole(HintsOf(r.binding), r.after, r.batch)
  <2>1. r \in Request /\ worker[w].b \in Bindings
    BY <1>2, BatchedShape DEF Batched
  <2>2. r.binding = worker[w].b /\ r.after = worker[w].snap.received /\ r.batch = worker[w].batch
    BY <1>2 DEF RequestOf
  <2> QED  BY <1>2, <2>1, <2>2 DEF WholePages, Batched
<1> QED  BY <1>1, <1>2

(* A whole batch that starts at the checkpoint extends the stored prefix. *)
LEMMA BatchExtends ==
  ASSUME NEW H \in SUBSET Ids, NEW after \in 0..MaxId, NEW batch \in Batches,
         Whole(H, after, batch)
  PROVE  UpTo(H, after) \cup batch = UpTo(H, Max(batch)) /\ Max(batch) \in batch
<1>1. Max(batch) \in batch /\ \A i \in batch : i <= Max(batch)
  BY MaxOfIds DEF Batches
<1>2. Max(batch) \in Ids /\ batch \subseteq Ids
  BY <1>1 DEF Batches
<1>3. after < Max(batch)
  BY <1>1 DEF Whole
<1>4. ASSUME NEW i \in H
      PROVE  i <= Max(batch) <=> (i <= after \/ i \in batch)
  <2>1. i \in Int /\ after \in Int /\ Max(batch) \in Int
    BY <1>2, ParameterAssumption DEF Ids
  <2> QED  BY <1>1, <1>3, <2>1 DEF Whole
<1> QED  BY <1>1, <1>4 DEF UpTo, Whole

(* Hints that become visible later lie above what a receiver stores. *)
LEMMA PrefixKept ==
  ASSUME TypeOK, TypeOK', IdOrder, [Next]_vars, NEW b \in Bindings, NEW n \in 0..MaxId,
         n = 0 \/ n \in HintsOf(b)
  PROVE  UpTo(HintsOf(b), n)' = UpTo(HintsOf(b), n)
<1>1. /\ HintsOf(b) \subseteq HintsOf(b)' /\ HintsOf(b)' \subseteq Ids
      /\ \A i \in HintsOf(b)' \ HintsOf(b) : \A j \in HintsOf(b) : j < i
  BY HintsGrow
<1>2. \A i \in HintsOf(b)' \ HintsOf(b) : n < i
  BY <1>1, ParameterAssumption DEF Ids
<1>3. \A i \in Ids : n < i => ~(i <= n)
  BY ParameterAssumption DEF Ids
<1> HIDE DEF HintsOf
<1> QED  BY <1>1, <1>2, <1>3 DEF UpTo

(* Every step keeps the receivers' stores gapless. *)
LEMMA StoredStep ==
  ASSUME TypeOK, TypeOK', IdOrder, WholePages, Stored, [Next]_vars
  PROVE  Stored'
<1> DEFINE Good(c) ==
      /\ connection'[c] = Absent => inbox'[c] = {} /\ checkpoint'[c] = 0
      /\ checkpoint'[c] = 0 \/ checkpoint'[c] \in inbox'[c]
      /\ \A b \in Bindings : At(c, b)' => inbox'[c] = UpTo(HintsOf(b)', checkpoint'[c])
<1> SUFFICES ASSUME NEW c \in Connections PROVE Good(c)
  BY DEF Stored, UpTo
<1>0. checkpoint \in [Connections -> 0..MaxId] /\ inbox \in [Connections -> SUBSET Ids]
  BY DEF TypeOK, InboxTypeOK
<1>1. ASSUME NEW r, IngestSigned(r), UNCHANGED published,
             \/ r \in late
             \/ \E w \in Workers : worker[w].pc = "posted" /\ r = RequestOf(w)
      PROVE  Good(c)
  <2>1. r \in Request /\ Whole(HintsOf(r.binding), r.after, r.batch)
    BY <1>1, WireBatch
  <2>2. /\ connection' = connection
        /\ \A b \in Bindings : HintsOf(b)' = HintsOf(b) /\ (At(c, b)' <=> At(c, b))
    BY <1>1 DEF IngestSigned, HintsOf, At
  <2>3. CASE Advances(r) /\ r.conn = c
    <3>1. /\ connection[c].binding = r.binding /\ connection[c] # Absent
          /\ checkpoint[c] = r.after
      BY <2>3 DEF Advances, Authorized, Accepting, Absent
    <3>2. inbox'[c] = inbox[c] \cup r.batch /\ checkpoint'[c] = Max(r.batch)
      BY <1>0, <1>1, <2>3 DEF IngestSigned
    <3>3. r.after \in 0..MaxId /\ r.batch \in Batches /\ r.binding \in Bindings
      BY <2>1 DEF Request
    <3>4. HintsOf(r.binding) \in SUBSET Ids
      BY <3>3, HintIds DEF TypeOK
    <3>5. /\ UpTo(HintsOf(r.binding), r.after) \cup r.batch
               = UpTo(HintsOf(r.binding), Max(r.batch))
          /\ Max(r.batch) \in r.batch
      BY <2>1, <3>3, <3>4, BatchExtends
    <3>6. inbox[c] = UpTo(HintsOf(r.binding), r.after)
      BY <3>1, <3>3 DEF Stored, At
    <3>7. \A b \in Bindings : At(c, b)' => b = r.binding
      BY <2>2, <3>1 DEF At
    <3>8. inbox'[c] = UpTo(HintsOf(r.binding)', checkpoint'[c])
      BY <2>2, <3>2, <3>3, <3>5, <3>6
    <3> QED  BY <2>2, <3>1, <3>2, <3>5, <3>7, <3>8
  <2>4. CASE ~(Advances(r) /\ r.conn = c)
    <3>1. inbox'[c] = inbox[c] /\ checkpoint'[c] = checkpoint[c]
      BY <1>0, <1>1, <2>4 DEF IngestSigned
    <3> QED  BY <2>2, <3>1 DEF Stored
  <2> QED  BY <2>3, <2>4
<1>2. CASE UNCHANGED <<checkpoint, inbox>>
  <2>1. CASE connection[c] = Absent
    <3>1. inbox[c] = {} /\ checkpoint[c] = 0
      BY <2>1 DEF Stored
    <3>2. \A b \in Bindings : UpTo(HintsOf(b)', 0) = {}
      <4>1. \A b \in Bindings : HintsOf(b)' \subseteq Ids
        BY HintsGrow
      <4> QED  BY <4>1, ParameterAssumption DEF UpTo, Ids
    <3> QED  BY <1>2, <3>1, <3>2
  <2>2. CASE connection[c] # Absent
    <3>1. connection'[c] # Absent /\ \A b \in Bindings : At(c, b)' <=> At(c, b)
      BY <2>2, ConnectionKept
    <3>2. ASSUME NEW b \in Bindings, At(c, b)
          PROVE  inbox'[c] = UpTo(HintsOf(b)', checkpoint'[c])
      <4>1. /\ inbox[c] = UpTo(HintsOf(b), checkpoint[c])
            /\ checkpoint[c] = 0 \/ checkpoint[c] \in inbox[c]
        BY <3>2 DEF Stored
      <4>2. PICK n \in 0..MaxId : n = checkpoint[c]
        BY <1>0
      <4>3. n = 0 \/ n \in HintsOf(b)
        BY <4>1, <4>2 DEF UpTo
      <4>4. UpTo(HintsOf(b), n)' = UpTo(HintsOf(b), n)
        BY <4>3, PrefixKept
      <4> QED  BY <1>2, <4>1, <4>2, <4>4 DEF UpTo
    <3> QED  BY <1>2, <3>1, <3>2 DEF Stored
  <2> QED  BY <2>1, <2>2
<1> QED  BY <1>1, <1>2, InboxSteps

----------------------------------------------------------------------------
(* Theorems *)

(* Retention leaves no hole: a committed hint is missing from the outbox only at or
   below its binding's floor. *)
THEOREM OutboxWholeCorrect == Spec => []OutboxWhole
<1>1. Init => OutboxWhole
  BY DEF Init, OutboxInit, OutboxWhole
<1>2. TypeOK /\ OutboxWhole /\ [Next]_vars => OutboxWhole'
  BY OutboxWholeStep
<1> QED  BY <1>1, <1>2, TypeCorrect, PTL DEF Spec

(* No batch leaves out a hint that commits late, however long ago its page was read. *)
THEOREM WholePagesCorrect == Spec => []WholePages
<1>1. Init => WholePages
  BY DEF Init, SenderInit, WholePages, NoWork, Batched
<1>2. TypeOK /\ TypeOK' /\ IdOrder /\ OutboxWhole /\ WholePages /\ [Next]_vars => WholePages'
  BY WholePagesStep
<1> QED  BY <1>1, <1>2, TypeCorrect, IdsInOrder, OutboxWholeCorrect, PTL DEF Spec

(* The receiver's store is the prefix of its binding's hints that its checkpoint names. *)
THEOREM StoredCorrect == Spec => []Stored
<1>1. Init => Stored
  BY DEF Init, InboxInit, Stored, At
<1>2. /\ TypeOK /\ TypeOK' /\ IdOrder /\ WholePages /\ Stored /\ [Next]_vars
      => Stored'
  BY StoredStep
<1> QED  BY <1>1, <1>2, TypeCorrect, IdsInOrder, WholePagesCorrect, PTL DEF Spec

(* InboxGapless: whichever retries, late requests, rotations, revocations and pruning
   interleave, the receiver stores exactly the hints up to its checkpoint. *)
THEOREM InboxGaplessCorrect == Spec => []InboxGapless
<1>1. TypeOK /\ Stored => InboxGapless
  <2> SUFFICES ASSUME TypeOK, Stored, NEW c \in Connections, connection[c] # Absent
               PROVE  inbox[c] = UpTo(HintsOf(connection[c].binding), checkpoint[c])
    BY DEF InboxGapless
  <2>1. connection[c].binding \in Bindings
    BY DEF TypeOK, InboxTypeOK, Endpoint
  <2> QED  BY <2>1 DEF Stored, At
<1> QED  BY <1>1, TypeCorrect, StoredCorrect, PTL
=============================================================================
