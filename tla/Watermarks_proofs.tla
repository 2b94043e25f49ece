-------------------------- MODULE Watermarks_proofs --------------------------
(* What a sender believes about its receiver: its two watermarks and the floor of
   its binding form one chain that the receiver's own watermarks close. From the
   chain follow the properties about skipped hints, retention and outbox gaps. Then
   that no wake of a parked sender is lost, and last that the pipeline implements
   HintFeed.                                                                    *)
EXTENDS HintDelivery_proofs

----------------------------------------------------------------------------
(* How a row may change *)

Marks(row) == <<row.conn, row.received, row.applied>>

(* A worker that found a gap, and the row still is the one it read *)
GapFound(b) ==
  \E w \in Workers : /\ worker[w].pc = "gap" /\ worker[w].b = b
                     /\ SameIdentity(b, worker[w].snap)

SameMarks(b) ==
  /\ Connected(b)
  /\ Marks(sender'[b]) = Marks(sender[b])
  /\ sender'[b].error = "outbox_gap" => sender[b].error = "outbox_gap" \/ GapFound(b)
Fresh(b) ==
  /\ ~Connected(b) /\ floor[b] = 0
  /\ \E c \in Connections : At(c, b) /\ Marks(sender'[b]) = <<c, 0, 0>>
  /\ sender'[b].error = ""
  /\ UNCHANGED <<floor, inboxVars>>
Settled(b) ==
  /\ Connected(b)
  /\ \E w \in Workers :
       /\ Settle(w) /\ worker[w].answer = "exact" /\ worker[w].b = b
       /\ Marks(sender'[b]) = <<sender[b].conn, Max(worker[w].batch), sender[b].applied>>
  /\ sender'[b].error = ""
  /\ UNCHANGED <<floor, inboxVars>>
Polled(b) ==
  /\ Connected(b)
  /\ LET proven == applied[sender[b].conn] IN
       /\ sender[b].applied <= proven /\ proven <= sender[b].received
       /\ Marks(sender'[b]) = <<sender[b].conn, sender[b].received, proven>>
  /\ sender'[b].error = sender[b].error
  /\ UNCHANGED <<floor, inboxVars>>

(* The edits that leave a row's connection and watermarks alone *)
LEMMA EditsKeepMarks ==
  ASSUME NEW row \in Row
  PROVE  /\ \A n : /\ Marks([row EXCEPT !.next = n]) = Marks(row)
                   /\ [row EXCEPT !.next = n].error = row.error
         /\ \A p : /\ Marks([row EXCEPT !.proof = p]) = Marks(row)
                   /\ [row EXCEPT !.proof = p].error = row.error
BY DEF Row, Marks

(* A failure writes a status, a schedule and a code, never a watermark. *)
LEMMA FailureKeepsMarks ==
  ASSUME NEW row \in Row, NEW code, NEW pause
  PROVE  /\ Marks(Failed(row, code, pause)) = Marks(row)
         /\ Failed(row, code, pause).error = code
<1>1. ASSUME NEW status, NEW next
      PROVE  LET new == [row EXCEPT !.status = status, !.next = next, !.error = code]
             IN  Marks(new) = Marks(row) /\ new.error = code
  BY DEF Row, Marks
<1> QED  BY <1>1 DEF Failed

(* The edits of an administrator leave them alone too. *)
LEMMA AdministratorKeepsMarks ==
  ASSUME NEW row \in Row, NEW k
  PROVE  /\ LET new == [row EXCEPT !.status = "active", !.next = "due"]
            IN  Marks(new) = Marks(row) /\ new.error = row.error
         /\ LET new == [row EXCEPT !.key = k, !.status = "active", !.next = "due", !.error = "",
                                   !.proof = "status_unverified"]
            IN  Marks(new) = Marks(row) /\ new.error = ""
BY DEF Row, Marks

(* A receipt moves the received watermark, a verified status the applied one. *)
LEMMA MarkEdits ==
  ASSUME NEW row \in Row
  PROVE  /\ \A batch : /\ Marks(Acknowledged(row, batch)) = <<row.conn, Max(batch), row.applied>>
                       /\ Acknowledged(row, batch).error = ""
         /\ \A n : LET new == [row EXCEPT !.applied = n, !.proof = ""]
                   IN  Marks(new) = <<row.conn, row.received, n>> /\ new.error = row.error
<1>1. ASSUME NEW n
      PROVE  LET new == [row EXCEPT !.received = n, !.next = "due", !.error = ""]
             IN  Marks(new) = <<row.conn, n, row.applied>> /\ new.error = ""
  BY DEF Row, Marks
<1>2. ASSUME NEW n
      PROVE  LET new == [row EXCEPT !.applied = n, !.proof = ""]
             IN  Marks(new) = <<row.conn, row.received, n>> /\ new.error = row.error
  BY DEF Row, Marks
<1>3. ASSUME NEW batch
      PROVE  /\ Marks(Acknowledged(row, batch)) = <<row.conn, Max(batch), row.applied>>
             /\ Acknowledged(row, batch).error = ""
  <2> DEFINE last == Max(batch)
  <2>1. Acknowledged(row, batch) = [row EXCEPT !.received = last, !.next = "due", !.error = ""]
    BY DEF Acknowledged
  <2> HIDE DEF last
  <2>2. /\ Marks(Acknowledged(row, batch)) = <<row.conn, last, row.applied>>
        /\ Acknowledged(row, batch).error = ""
    BY <1>1, <2>1
  <2> QED  BY <2>2 DEF last
<1> QED  BY <1>2, <1>3

RowStep(b) == SameMarks(b) \/ Fresh(b) \/ Settled(b) \/ Polled(b) \/ RevokeSender(b)

(* Revocation deletes the row. *)
LEMMA RevokedRow ==
  ASSUME TypeOK, NEW b \in Bindings, RevokeSender(b)
  PROVE  ~Connected(b)'
BY DEF TypeOK, OutboxTypeOK, RevokeSender, Connected

(* A row that a step does not write keeps its marks. *)
LEMMA OtherRow ==
  ASSUME NEW b \in Bindings, Connected(b) \/ Connected(b)', sender'[b] = sender[b]
  PROVE  SameMarks(b)
BY DEF SameMarks, Connected

(* Writers write a row only to wake its sender. *)
LEMMA WritingRows ==
  ASSUME TypeOK, Writing, NEW b \in Bindings, Connected(b) \/ Connected(b)'
  PROVE  SameMarks(b)
<1>0. OutboxTypeOK /\ sender \in SenderRows
  BY DEF TypeOK, OutboxTypeOK, SenderRows
<1>1. CASE sender'[b] = sender[b]
  BY <1>1, OtherRow
<1>2. CASE sender'[b] # sender[b]
  <2>1. PICK u \in Writers : Wake(u)
    BY <1>2
    DEF Writing, OutboxNext, Append, EnsureInitialReconcile, RequestReconcile, Insert,
        ReuseReconcile, ReturnReused, CommitInsert, RollbackInsert, LoseWake, Prune
  <2>2. Connected(b) /\ sender'[b] = [sender[b] EXCEPT !.next = "due"]
    BY <1>0, <1>2, <2>1 DEF Wake, SenderRows
  <2>3. sender[b] \in Row
    BY <1>0, <2>2, RowShape
  <2> QED  BY <2>2, <2>3, EditsKeepMarks DEF SameMarks
<1> QED  BY <1>1, <1>2

(* A delivery moves a watermark only when it settles an exact receipt. *)
LEMMA DeliveryRows ==
  ASSUME TypeOK, OnlyCurrentCredential, NEW w \in Workers, DeliveryStep(w),
         UNCHANGED inboxVars, NEW b \in Bindings, Connected(b) \/ Connected(b)'
  PROVE  SameMarks(b) \/ Settled(b)
<1>0. /\ OutboxTypeOK /\ SenderTypeOK /\ sender \in SenderRows
  BY DEF TypeOK, OutboxTypeOK, SenderRows
<1>1. CASE sender'[b] = sender[b]
  BY <1>1, OtherRow
<1>2. ASSUME sender'[b] # sender[b], NEW x \in Bindings, NEW row,
             sender' = [sender EXCEPT ![x] = row]
      PROVE  b = x /\ sender'[b] = row
  BY <1>0, <1>2 DEF SenderRows
<1>3. CASE sender'[b] # sender[b] /\ RecordFailure(w)
  <2>1. /\ worker[w].b \in Bindings /\ Active(worker[w].b)
        /\ SameIdentity(worker[w].b, worker[w].snap)
        /\ sender' = [sender EXCEPT ![worker[w].b] =
             Failed(sender[worker[w].b], FailureCode[worker[w].pc], worker[w].pc # "unavailable")]
    BY <1>0, <1>3, WorkerShape DEF RecordFailure
  <2>2. /\ worker[w].b = b
        /\ sender'[b] = Failed(sender[b], FailureCode[worker[w].pc], worker[w].pc # "unavailable")
    BY <1>2, <1>3, <2>1
  <2>3. Connected(b) /\ sender[b] \in Row
    BY <1>0, <2>1, <2>2, RowShape DEF Active
  <2>4. FailureCode[worker[w].pc] = "outbox_gap" => worker[w].pc = "gap"
    BY <1>3 DEF RecordFailure, FailureCode
  <2>5. Marks(sender'[b]) = Marks(sender[b]) /\ sender'[b].error = FailureCode[worker[w].pc]
    BY <2>2, <2>3, FailureKeepsMarks
  <2> QED  BY <2>1, <2>2, <2>3, <2>4, <2>5 DEF SameMarks, GapFound
<1>4. CASE sender'[b] # sender[b] /\ (DeferEmpty(w) \/ YieldTurn(w))
  <2>1. PICK next \in {"poll", "yield"} :
          /\ worker[w].b \in Bindings /\ Connected(worker[w].b)
          /\ sender' = [sender EXCEPT ![worker[w].b].next = next]
    BY <1>0, <1>4, WorkerShape DEF DeferEmpty, YieldTurn, MayDefer, Due, Active
  <2>2. worker[w].b = b /\ sender'[b] = [sender[b] EXCEPT !.next = next]
    BY <1>0, <1>4, <2>1 DEF SenderRows
  <2> QED  BY <1>0, <2>1, <2>2, RowShape, EditsKeepMarks DEF SameMarks
<1>5. CASE sender'[b] # sender[b] /\ ConfigurationUnavailable(w)
  <2>1. /\ worker[w].b \in Bindings /\ Connected(worker[w].b)
        /\ sender' = [sender EXCEPT ![worker[w].b] =
             Failed(sender[worker[w].b], "configuration_unavailable", TRUE)]
    BY <1>0, <1>5, WorkerShape DEF ConfigurationUnavailable, StillCurrent, Due, Active
  <2>2. worker[w].b = b /\ sender'[b] = Failed(sender[b], "configuration_unavailable", TRUE)
    BY <1>2, <1>5, <2>1
  <2>3. Connected(b) /\ sender[b] \in Row
    BY <1>0, <2>1, <2>2, RowShape
  <2>4. /\ Marks(Failed(sender[b], "configuration_unavailable", TRUE)) = Marks(sender[b])
        /\ Failed(sender[b], "configuration_unavailable", TRUE).error = "configuration_unavailable"
    BY <2>3, FailureKeepsMarks
  <2> QED  BY <2>2, <2>3, <2>4 DEF SameMarks
<1>6. CASE sender'[b] # sender[b] /\ TransportError(w)
  <2>1. /\ worker[w].b \in Bindings /\ Connected(worker[w].b)
        /\ sender' = [sender EXCEPT ![worker[w].b] =
             Failed(sender[worker[w].b], "transport_error", FALSE)]
    BY <1>0, <1>6, WorkerShape DEF TransportError, OnlyCurrentCredential, Waiting, Active
  <2>2. worker[w].b = b /\ sender'[b] = Failed(sender[b], "transport_error", FALSE)
    BY <1>2, <1>6, <2>1
  <2>3. Connected(b) /\ sender[b] \in Row
    BY <1>0, <2>1, <2>2, RowShape
  <2>4. /\ Marks(Failed(sender[b], "transport_error", FALSE)) = Marks(sender[b])
        /\ Failed(sender[b], "transport_error", FALSE).error = "transport_error"
    BY <2>3, FailureKeepsMarks
  <2> QED  BY <2>2, <2>3, <2>4 DEF SameMarks
<1>7. CASE sender'[b] # sender[b] /\ Settle(w)
  <2>0. /\ worker[w].b \in Bindings /\ Connected(worker[w].b) /\ worker[w].answer \in Answers
        /\ worker[w].pc = "answered"
    BY <1>0, <1>7, WorkerShape DEF Settle, OnlyCurrentCredential, Waiting, Active
  <2>1. CASE worker[w].answer = "exact"
    <3>1. sender' = [sender EXCEPT ![worker[w].b] =
            Acknowledged(sender[worker[w].b], worker[w].batch)]
      BY <1>7, <2>1 DEF Settle
    <3>2. worker[w].b = b /\ sender'[b] = Acknowledged(sender[b], worker[w].batch)
      BY <1>2, <1>7, <2>0, <3>1
    <3>3. sender[b] \in Row /\ Connected(b)
      BY <1>0, <2>0, <3>2, RowShape
    <3>4. /\ Marks(Acknowledged(sender[b], worker[w].batch))
               = <<sender[b].conn, Max(worker[w].batch), sender[b].applied>>
          /\ Acknowledged(sender[b], worker[w].batch).error = ""
      BY <3>3, MarkEdits, Zenon
    <3>5. UNCHANGED floor
      BY <1>7 DEF Settle, outboxVars
    <3> QED  BY <1>7, <2>0, <2>1, <3>2, <3>3, <3>4, <3>5 DEF Settled
  <2>2. CASE worker[w].answer # "exact"
    <3>1. sender' = [sender EXCEPT ![worker[w].b] =
            Failed(sender[worker[w].b], AnswerCode[worker[w].answer],
                   worker[w].answer # "retryable")]
      BY <1>7, <2>2 DEF Settle
    <3>2. /\ worker[w].b = b
          /\ sender'[b] = Failed(sender[b], AnswerCode[worker[w].answer],
                                 worker[w].answer # "retryable")
      BY <1>2, <1>7, <2>0, <3>1
    <3>3. sender[b] \in Row /\ Connected(b)
      BY <1>0, <2>0, <3>2, RowShape
    <3>4. AnswerCode[worker[w].answer] # "outbox_gap"
      BY <2>0, <2>2 DEF AnswerCode, Answers
    <3>5. Marks(sender'[b]) = Marks(sender[b]) /\ sender'[b].error # "outbox_gap"
      BY <3>2, <3>3, <3>4, FailureKeepsMarks
    <3> QED  BY <3>3, <3>5 DEF SameMarks
  <2> QED  BY <2>1, <2>2
<1>8. CASE \/ \E x \in Bindings : Snapshot(w, x)
           \/ ReadPage(w) \/ PageUnavailable(w) \/ EncodingFails(w) \/ Post(w) \/ Crash(w)
  <2>1. sender'[b] = sender[b]
    BY <1>8 DEF Snapshot, ReadPage, PageUnavailable, EncodingFails, Post, Crash
  <2> QED  BY <1>1, <2>1
<1> QED  BY <1>1, <1>3, <1>4, <1>5, <1>6, <1>7, <1>8 DEF DeliveryStep

(* The status poll moves the applied watermark only to what the receiver has
   applied and the sender has a receipt for. *)
LEMMA PollingRows ==
  ASSUME TypeOK, Polling, NEW b \in Bindings, Connected(b) \/ Connected(b)'
  PROVE  SameMarks(b) \/ Polled(b)
<1>0. OutboxTypeOK /\ sender \in SenderRows
  BY DEF TypeOK, OutboxTypeOK, SenderRows
<1>1. CASE sender'[b] = sender[b]
  BY <1>1, OtherRow
<1>2. CASE sender'[b] # sender[b]
  <2>1. PICK x \in Bindings :
          PollStatus(x) \/ ((StatusFails(x) \/ BecomeDue(x)) /\ UNCHANGED inboxVars)
    BY DEF Polling
  <2>2. x = b
    BY <1>0, <1>2, <2>1
    DEF PollStatus, StatusVerified, StatusUnverified, StatusFails, BecomeDue, SenderRows
  <2>3. Connected(b) /\ sender[b] \in Row
    BY <1>0, <2>1, <2>2, RowShape
    DEF PollStatus, StatusFails, StatusUnverified, BecomeDue, Active
  <2>4. CASE BecomeDue(b)
    <3>1. sender'[b] = [sender[b] EXCEPT !.next = "due"]
      BY <1>0, <2>4 DEF BecomeDue, SenderRows
    <3> QED  BY <2>3, <3>1, EditsKeepMarks DEF SameMarks
  <2>5. CASE StatusUnverified(b)
    <3>1. sender'[b] = [sender[b] EXCEPT !.proof = "status_unverified"]
      BY <1>0, <2>5 DEF StatusUnverified, SenderRows
    <3> QED  BY <2>3, <3>1, EditsKeepMarks DEF SameMarks
  <2>6. CASE PollStatus(b) /\ ~StatusUnverified(b)
    <3> DEFINE c == sender[b].conn
    <3>1. StatusVerified(b, checkpoint[c], applied[c])
      BY <2>6 DEF PollStatus
    <3>2. UNCHANGED <<floor, inboxVars>>
      BY <2>6, <3>1 DEF PollStatus, StatusVerified, outboxVars
    <3>3. CASE ValidStatus(sender[b], checkpoint[c], applied[c])
      <4>1. sender'[b] = [sender[b] EXCEPT !.applied = applied[c], !.proof = ""]
        BY <1>0, <3>1, <3>3 DEF StatusVerified, SenderRows
      <4>2. sender[b].applied <= applied[c] /\ applied[c] <= sender[b].received
        <5>1. sender[b].applied \in 0..MaxId /\ c \in Connections
          BY <2>3 DEF Row
        <5>2. applied[c] \in 0..MaxId
          BY <5>1 DEF TypeOK, InboxTypeOK
        <5> QED  BY <3>3, <5>1, <5>2, ParameterAssumption DEF ValidStatus
      <4>3. LET new == [sender[b] EXCEPT !.applied = applied[c], !.proof = ""]
            IN  /\ Marks(new) = <<sender[b].conn, sender[b].received, applied[c]>>
                /\ new.error = sender[b].error
        BY <2>3, MarkEdits
      <4> QED  BY <2>3, <3>2, <4>1, <4>2, <4>3 DEF Polled
    <3>4. CASE ~ValidStatus(sender[b], checkpoint[c], applied[c])
      <4>1. sender'[b] = [sender[b] EXCEPT !.proof = "status_unverified"]
        BY <1>0, <3>1, <3>4 DEF StatusVerified, SenderRows
      <4> QED  BY <2>3, <4>1, EditsKeepMarks DEF SameMarks
    <3> QED  BY <3>3, <3>4
  <2> QED  BY <2>1, <2>2, <2>4, <2>5, <2>6 DEF StatusFails
<1> QED  BY <1>1, <1>2

(* An administrator writes watermarks only into a row that did not exist. *)
LEMMA AdministeringRows ==
  ASSUME TypeOK, Administering, NEW b \in Bindings, Connected(b) \/ Connected(b)'
  PROVE  SameMarks(b) \/ Fresh(b) \/ RevokeSender(b)
<1>0. OutboxTypeOK /\ sender \in SenderRows
  BY DEF TypeOK, OutboxTypeOK, SenderRows
<1>1. CASE sender'[b] = sender[b]
  BY <1>1, OtherRow
<1>2. CASE sender'[b] # sender[b]
  <2>1. PICK x \in Bindings :
          Install(x) \/ ((RevokeSender(x) \/ RetryPaused(x)) /\ UNCHANGED inboxVars)
    BY DEF Administering
  <2>2. x = b
    BY <1>0, <1>2, <2>1
    DEF Install, ConfigureNew, ConfigureRotation, RevokeSender, RetryPaused, SenderRows
  <2>3. CASE RevokeSender(b)
    BY <2>3
  <2>4. CASE RetryPaused(b)
    <3>1. sender'[b] = [sender[b] EXCEPT !.status = "active", !.next = "due"]
      BY <1>0, <2>4 DEF RetryPaused, SenderRows
    <3>2. Connected(b) /\ sender[b] \in Row
      BY <1>0, <2>4, RowShape DEF RetryPaused
    <3> QED  BY <3>1, <3>2, AdministratorKeepsMarks DEF SameMarks
  <2>5. CASE Install(b)
    <3>1. PICK c \in Connections : \E k \in Issued(c) :
            /\ connection[c].binding = b
            /\ ConfigureNew(b, c, k) \/ ConfigureRotation(b, c, k)
      BY <2>5 DEF Install
    <3>2. PICK k \in Issued(c) : ConfigureNew(b, c, k) \/ ConfigureRotation(b, c, k)
      BY <3>1
    <3>5. At(c, b)
      BY <3>1 DEF At, Issued
    <3>3. CASE ConfigureNew(b, c, k)
      <4>1. sender'[b] = FreshRow(c, k) /\ ~Connected(b) /\ floor[b] = 0
        BY <1>0, <3>3 DEF ConfigureNew, HistoryComplete, SenderRows
      <4>2. Marks(FreshRow(c, k)) = <<c, 0, 0>> /\ FreshRow(c, k).error = ""
        BY DEF FreshRow, Marks
      <4>3. UNCHANGED <<floor, inboxVars>>
        BY <2>5, <3>3 DEF Install, ConfigureNew, outboxVars
      <4> QED  BY <3>5, <4>1, <4>2, <4>3 DEF Fresh
    <3>4. CASE ConfigureRotation(b, c, k)
      <4>1. /\ Connected(b)
            /\ sender'[b] = [sender[b] EXCEPT !.key = k, !.status = "active", !.next = "due",
                               !.error = "", !.proof = "status_unverified"]
        BY <1>0, <3>4 DEF ConfigureRotation, SenderRows
      <4>2. LET new == [sender[b] EXCEPT !.key = k, !.status = "active", !.next = "due",
                          !.error = "", !.proof = "status_unverified"]
            IN  Marks(new) = Marks(sender[b]) /\ new.error = ""
        BY <1>0, <4>1, RowShape, AdministratorKeepsMarks
      <4> QED  BY <4>1, <4>2 DEF SameMarks
    <3> QED  BY <3>2, <3>3, <3>4
  <2> QED  BY <2>1, <2>2, <2>3, <2>4, <2>5
<1> QED  BY <1>1, <1>2

(* The five ways a step can treat a row *)
LEMMA RowSteps ==
  ASSUME TypeOK, OnlyCurrentCredential, [Next]_vars, NEW b \in Bindings,
         Connected(b) \/ Connected(b)'
  PROVE  RowStep(b)
<1>1. CASE \/ Receiving \/ UNCHANGED vars \/ \E r \in late : LateRequestArrives(r)
           \/ \E w \in Workers : ReceiverAnswers(w) \/ ReceiverRefuses(w)
  <2>1. sender' = sender
    BY <1>1 DEF Receiving, vars, LateRequestArrives, ReceiverAnswers, ReceiverRefuses, senderVars
  <2> QED  BY <2>1, OtherRow DEF RowStep
<1> QED
  BY <1>1, WritingRows, DeliveryRows, PollingRows, AdministeringRows
  DEF Next, Sending, Exchange, RowStep

----------------------------------------------------------------------------
(* How the receiver's watermarks may change *)

(* Only the dispatcher moves an applied watermark. *)
LEMMA AppliedSteps ==
  ASSUME [Next]_vars
  PROVE  \/ UNCHANGED applied
         \/ \E c \in Connections : AdvanceApplied(c)
<1>1. CASE \/ \E w \in Workers : ReceiverAnswers(w)
           \/ \E r \in late : LateRequestArrives(r)
  BY <1>1 DEF ReceiverAnswers, LateRequestArrives, IngestSigned
<1>2. CASE Receiving
  BY <1>2 DEF Receiving, Pair, Rotate, GraceEnds, Revoke
<1>3. CASE \/ Writing \/ Sending \/ Administering \/ Polling \/ UNCHANGED vars
           \/ \E w \in Workers : ReceiverRefuses(w)
  BY <1>3 DEF Writing, Sending, Administering, Install, Polling, PollStatus, ReceiverRefuses,
     inboxVars, vars
<1> QED  BY <1>1, <1>2, <1>3 DEF Next, Exchange

(* Whatever happens, a receiver's watermarks and binding are never taken back. *)
LEMMA ReceiverGrows ==
  ASSUME TypeOK, TypeOK', WholePages, [Next]_vars, NEW c \in Connections
  PROVE  /\ checkpoint[c] <= checkpoint'[c] /\ applied[c] <= applied'[c]
         /\ \A b \in Bindings : At(c, b) => At(c, b)'
<1>0. /\ checkpoint \in [Connections -> 0..MaxId] /\ applied \in [Connections -> 0..MaxId]
      /\ checkpoint'[c] \in 0..MaxId /\ applied'[c] \in 0..MaxId
      /\ inbox \in [Connections -> SUBSET Ids]
  BY DEF TypeOK, InboxTypeOK
<1>1. checkpoint[c] <= checkpoint'[c]
  <2>1. CASE UNCHANGED checkpoint
    BY <1>0, <2>1, ParameterAssumption
  <2>2. ASSUME NEW r, IngestSigned(r),
               \/ r \in late
               \/ \E w \in Workers : worker[w].pc = "posted" /\ r = RequestOf(w)
        PROVE  checkpoint[c] <= checkpoint'[c]
    <3>1. r \in Request /\ Whole(HintsOf(r.binding), r.after, r.batch)
      BY <2>2, WireBatch
    <3>2. CASE Advances(r) /\ r.conn = c
      <4>1. checkpoint'[c] = Max(r.batch) /\ checkpoint[c] = r.after
        BY <1>0, <2>2, <3>2 DEF IngestSigned, Advances
      <4>2. Max(r.batch) \in r.batch
        BY <3>1, MaxOfIds DEF Request, Batches
      <4>3. checkpoint[c] < checkpoint'[c]
        BY <3>1, <4>1, <4>2 DEF Whole
      <4> QED  BY <1>0, <4>3, ParameterAssumption
    <3>3. CASE ~(Advances(r) /\ r.conn = c)
      BY <1>0, <2>2, <3>3, ParameterAssumption DEF IngestSigned
    <3> QED  BY <3>2, <3>3
  <2> QED  BY <2>1, <2>2, InboxSteps
<1>2. applied[c] <= applied'[c]
  <2>1. CASE UNCHANGED applied
    BY <1>0, <2>1, ParameterAssumption
  <2>2. ASSUME NEW d \in Connections, AdvanceApplied(d)
        PROVE  applied[c] <= applied'[c]
    <3>1. PICK i \in inbox[d] : i > applied[d] /\ applied' = [applied EXCEPT ![d] = i]
      BY <2>2 DEF AdvanceApplied
    <3> QED  BY <1>0, <3>1, ParameterAssumption DEF Ids
  <2> QED  BY <2>1, <2>2, AppliedSteps
<1>3. \A b \in Bindings : At(c, b) => At(c, b)'
  BY ConnectionKept DEF At
<1> QED  BY <1>1, <1>2, <1>3

(* An answer stays as it is until the worker settles it or fails. *)
LEMMA AnswerSteps ==
  ASSUME TypeOK, [Next]_vars, NEW w \in Workers,
         worker'[w].pc = "answered", worker'[w].answer = "exact"
  PROVE  worker'[w] = worker[w] \/ (ReceiverAnswers(w) /\ Outcome(RequestOf(w)) = "exact")
<1>0. SenderTypeOK /\ worker \in [Workers -> WorkerState]
  BY DEF TypeOK, SenderTypeOK
<1>1. ASSUME NEW v \in Workers, DeliveryStep(v) \/ ReceiverAnswers(v) \/ ReceiverRefuses(v), v # w
      PROVE  worker'[w] = worker[w]
  BY <1>0, <1>1 DEF DeliveryStep, Snapshot, ReadPage, PageUnavailable, EncodingFails,
     RecordFailure, DeferEmpty, Post, ConfigurationUnavailable, TransportError, Settle,
     YieldTurn, Crash, ReceiverAnswers, ReceiverRefuses, Goto, Return
<1>2. CASE DeliveryStep(w)
  <2>1. Post(w)
    BY <1>2, OnlyPostWaits DEF Waiting
  <2>2. CASE StillCurrent(w)
    <3>1. worker'[w] = [worker[w] EXCEPT !.pc = "posted"]
      BY <1>0, <2>1, <2>2 DEF Post, Goto
    <3>2. worker'[w].pc = "posted"
      BY <1>0, <2>1, <3>1, WorkerShape DEF Post
    <3> QED  BY <3>2
  <2>3. CASE ~StillCurrent(w)
    <3>1. worker'[w] = Done(w)
      BY <1>0, <2>1, <2>3 DEF Post, Return
    <3>2. Done(w).pc \in {"idle", "yield"}
      BY <1>0, <2>1, DoneType DEF Post, NoWork
    <3> QED  BY <3>1, <3>2
  <2> QED  BY <2>2, <2>3
<1>3. CASE ReceiverAnswers(w)
  BY <1>0, <1>3 DEF ReceiverAnswers
<1>4. CASE ReceiverRefuses(w)
  BY <1>0, <1>4 DEF ReceiverRefuses
<1>5. CASE Writing \/ Administering \/ Polling \/ Receiving \/ UNCHANGED vars
           \/ \E r \in late : LateRequestArrives(r)
  BY <1>5 DEF Writing, Administering, Install, ConfigureNew, ConfigureRotation, RevokeSender,
     RetryPaused, Polling, PollStatus, StatusVerified, StatusUnverified, StatusFails,
     BecomeDue, Receiving, senderVars, vars, LateRequestArrives
<1> QED  BY <1>1, <1>2, <1>3, <1>4, <1>5 DEF Next, Sending, Exchange

(* The exact receipt a worker holds tells of a checkpoint the receiver has reached. *)
ReceiptsTrue ==
  \A w \in Workers : worker[w].pc = "answered" /\ worker[w].answer = "exact" =>
    Max(worker[w].batch) <= checkpoint[worker[w].snap.conn]

(* Every step keeps the receipts true. *)
LEMMA ReceiptsTrueStep ==
  ASSUME TypeOK, TypeOK', WholePages, ReceiptsTrue, [Next]_vars
  PROVE  ReceiptsTrue'
<1> SUFFICES ASSUME NEW w \in Workers, worker'[w].pc = "answered", worker'[w].answer = "exact"
             PROVE  Max(worker'[w].batch) <= checkpoint'[worker'[w].snap.conn]
  BY DEF ReceiptsTrue
<1>1. /\ checkpoint \in [Connections -> 0..MaxId] /\ checkpoint' \in [Connections -> 0..MaxId]
      /\ inbox \in [Connections -> SUBSET Ids]
  BY DEF TypeOK, InboxTypeOK
<1>2. CASE worker'[w] = worker[w]
  <2>1. worker[w].batch \in Batches /\ worker[w].snap.conn \in Connections
    BY <1>2, WorkerShape DEF TypeOK, SnapshotOf
  <2>2. Max(worker[w].batch) \in Ids
    BY <2>1, MaxOfIds DEF Batches
  <2>3. /\ checkpoint[worker[w].snap.conn] <= checkpoint'[worker[w].snap.conn]
        /\ Max(worker[w].batch) <= checkpoint[worker[w].snap.conn]
    BY <1>2, <2>1, ReceiverGrows DEF ReceiptsTrue
  <2> QED  BY <1>1, <1>2, <2>1, <2>2, <2>3, ParameterAssumption DEF Ids
<1>3. CASE ReceiverAnswers(w) /\ Outcome(RequestOf(w)) = "exact"
  <2> DEFINE r == RequestOf(w)
  <2>1. IngestSigned(r) /\ worker[w].pc = "posted"
    BY <1>3 DEF ReceiverAnswers
  <2>2. r \in Request
    BY <2>1, BatchedShape DEF Batched
  <2>3. worker'[w].batch = r.batch /\ worker'[w].snap.conn = r.conn
    BY <1>3 DEF ReceiverAnswers, RequestOf, TypeOK, SenderTypeOK
  <2>4. r.conn \in Connections /\ Max(r.batch) \in Ids
    BY <2>2, MaxOfIds DEF Request, Batches
  <2>5. checkpoint'[r.conn] = Max(r.batch)
    <3>1. CASE Advances(r)
      BY <1>1, <2>1, <2>4, <3>1 DEF IngestSigned
    <3>2. CASE ~Advances(r)
      <4>1. checkpoint[r.conn] = Max(r.batch)
        BY <1>3, <3>2 DEF Outcome
      <4> QED  BY <2>1, <3>2, <4>1 DEF IngestSigned
    <3> QED  BY <3>1, <3>2
  <2> QED  BY <2>3, <2>4, <2>5, ParameterAssumption DEF Ids
<1> QED  BY <1>2, <1>3, AnswerSteps

----------------------------------------------------------------------------
(* The chain of watermarks *)

(* Retention raises a floor at most to what a connected receiver has applied. *)
LEMMA FloorSteps ==
  ASSUME TypeOK, [Next]_vars, NEW b \in Bindings
  PROVE  /\ floor[b] <= floor'[b]
         /\ Connected(b) => floor'[b] = floor[b] \/ floor'[b] <= sender[b].applied
<1>0. OutboxTypeOK /\ floor \in [Bindings -> 0..MaxId]
  BY DEF TypeOK, OutboxTypeOK
<1>1. CASE floor' = floor
  BY <1>0, <1>1, ParameterAssumption
<1>2. ASSUME NEW x \in Bindings, Prune(x)
      PROVE  /\ floor[b] <= floor'[b]
             /\ Connected(b) => floor'[b] = floor[b] \/ floor'[b] <= sender[b].applied
  <2>1. PICK last \in IdsOf(x) :
          /\ floor' = [floor EXCEPT ![x] = IF floor[x] < last THEN last ELSE floor[x]]
          /\ \A i \in IdsOf(x) : i <= last => Prunable(x, i)
    BY <1>0, <1>2, PruneEffect
  <2>2. last \in Nat
    BY <1>0, ParameterAssumption DEF IdsOf, OutboxTypeOK, Hint, Ids
  <2>3. Connected(x) => last <= sender[x].applied
    <3>1. Prunable(x, last)
      BY <2>1, <2>2
    <3> QED  BY <3>1 DEF Prunable
  <2>4. CASE x = b
    BY <1>0, <2>1, <2>2, <2>3, <2>4, ParameterAssumption
  <2>5. CASE x # b
    BY <1>0, <2>1, <2>5, ParameterAssumption
  <2> QED  BY <2>4, <2>5
<1>3. floor' = floor \/ \E x \in Bindings : Prune(x)
  BY OutboxSteps DEF CommitInsert
<1> QED  BY <1>1, <1>2, <1>3

(* A connected sender's watermarks lie between its floor and its receiver's. *)
Chain(b) ==
  LET row == sender[b] IN
    /\ At(row.conn, b)
    /\ floor[b] <= row.applied /\ row.applied <= row.received
    /\ row.received <= checkpoint[row.conn] /\ row.applied <= applied[row.conn]
Trailing ==
  /\ \A c \in Connections : applied[c] <= checkpoint[c]
  /\ \A b \in Bindings : Connected(b) => Chain(b)

(* The ranges of everything the chain compares *)
LEMMA ChainRange ==
  ASSUME TypeOK, NEW b \in Bindings, Connected(b)
  PROVE  /\ sender[b] \in Row /\ sender[b].conn \in Connections
         /\ sender[b].received \in Nat /\ sender[b].applied \in Nat /\ floor[b] \in Nat
         /\ checkpoint[sender[b].conn] \in Nat /\ applied[sender[b].conn] \in Nat
<1>1. sender[b] \in Row
  BY RowShape DEF TypeOK
<1>2. /\ sender[b].conn \in Connections
      /\ sender[b].received \in 0..MaxId /\ sender[b].applied \in 0..MaxId
  BY <1>1 DEF Row
<1>3. /\ floor[b] \in 0..MaxId /\ checkpoint[sender[b].conn] \in 0..MaxId
      /\ applied[sender[b].conn] \in 0..MaxId
  BY <1>2 DEF TypeOK, OutboxTypeOK, InboxTypeOK
<1> QED  BY <1>1, <1>2, <1>3, ParameterAssumption

(* A receiver applies only what it stores. *)
LEMMA AppliedStored ==
  ASSUME TypeOK, TypeOK', WholePages, Stored, Trailing, [Next]_vars, NEW c \in Connections
  PROVE  applied'[c] <= checkpoint'[c]
<1>1. /\ checkpoint \in [Connections -> 0..MaxId] /\ applied \in [Connections -> 0..MaxId]
      /\ checkpoint'[c] \in 0..MaxId /\ connection \in [Connections -> Endpoint \cup {Absent}]
      /\ inbox \in [Connections -> SUBSET Ids]
  BY DEF TypeOK, InboxTypeOK
<1>2. checkpoint[c] <= checkpoint'[c] /\ applied[c] <= checkpoint[c]
  BY ReceiverGrows DEF Trailing
<1>3. CASE applied'[c] = applied[c]
  BY <1>1, <1>2, <1>3, ParameterAssumption
<1>4. CASE applied'[c] # applied[c]
  <2>1. PICK d \in Connections : AdvanceApplied(d)
    BY <1>4, AppliedSteps
  <2>2. PICK i \in inbox[d] : applied' = [applied EXCEPT ![d] = i]
    BY <2>1 DEF AdvanceApplied
  <2>3. d = c /\ applied'[c] = i /\ i \in Ids
    BY <1>1, <1>4, <2>2
  <2>4. connection[c] # Absent /\ connection[c].binding \in Bindings
    BY <1>1, <2>1, <2>3 DEF AdvanceApplied, Accepting, Absent, Endpoint
  <2>5. i <= checkpoint[c]
    BY <2>3, <2>4 DEF Stored, At, UpTo
  <2>6. UNCHANGED checkpoint
    BY <2>1 DEF AdvanceApplied
  <2> QED  BY <2>3, <2>5, <2>6
<1> QED  BY <1>3, <1>4

(* An exact receipt moves the received watermark forward, and never past the receiver. *)
LEMMA SettledMarks ==
  ASSUME TypeOK, OnlyCurrentCredential, WholePages, ReceiptsTrue, NEW b \in Bindings, Settled(b)
  PROVE  /\ Connected(b) /\ sender'[b].conn = sender[b].conn
         /\ sender'[b].applied = sender[b].applied
         /\ sender'[b].received \in Ids /\ sender[b].received < sender'[b].received
         /\ sender'[b].received <= checkpoint[sender[b].conn]
<1>1. PICK w \in Workers :
        /\ Settle(w) /\ worker[w].answer = "exact" /\ worker[w].b = b
        /\ Marks(sender'[b]) = <<sender[b].conn, Max(worker[w].batch), sender[b].applied>>
  BY DEF Settled
<1>2. worker[w].pc = "answered" /\ Connected(b)
  BY <1>1 DEF Settle, Settled
<1>3. /\ sender'[b].conn = sender[b].conn /\ sender'[b].received = Max(worker[w].batch)
      /\ sender'[b].applied = sender[b].applied
  BY <1>1 DEF Marks
<1>4. worker[w].snap.conn = sender[b].conn /\ worker[w].snap.received = sender[b].received
  <2>1. SameIdentity(b, worker[w].snap)
    BY <1>1, <1>2 DEF OnlyCurrentCredential, Waiting
  <2> QED  BY <2>1 DEF SameIdentity, Identity
<1>5. Max(worker[w].batch) <= checkpoint[sender[b].conn]
  BY <1>1, <1>2, <1>4 DEF ReceiptsTrue
<1>6. Max(worker[w].batch) \in worker[w].batch /\ Max(worker[w].batch) \in Ids
  BY <1>2, BatchedShape, MaxOfIds DEF Batched, Batches
<1>7. sender[b].received < Max(worker[w].batch)
  BY <1>1, <1>2, <1>4, <1>6 DEF WholePages, Batched, Whole
<1> QED  BY <1>2, <1>3, <1>5, <1>6, <1>7

(* Every step keeps the chain. *)
LEMMA TrailingStep ==
  ASSUME TypeOK, TypeOK', OnlyCurrentCredential, WholePages, Stored, ReceiptsTrue, Trailing,
         [Next]_vars
  PROVE  Trailing'
<1>1. ASSUME NEW c \in Connections
      PROVE  applied'[c] <= checkpoint'[c]
  BY AppliedStored
<1>2. ASSUME NEW b \in Bindings, Connected(b)'
      PROVE  Chain(b)'
  <2> DEFINE c == sender[b].conn
  <2>1. RowStep(b)
    BY <1>2, RowSteps
  <2>2. /\ sender'[b].conn \in Connections
        /\ sender'[b].received \in Nat /\ sender'[b].applied \in Nat /\ floor'[b] \in Nat
        /\ \A d \in Connections : checkpoint'[d] \in Nat /\ applied'[d] \in Nat
    <3>1. sender'[b] \in Row
      BY <1>2 DEF TypeOK, OutboxTypeOK, Connected
    <3>2. /\ sender'[b].conn \in Connections /\ sender'[b].received \in 0..MaxId
          /\ sender'[b].applied \in 0..MaxId
      BY <3>1 DEF Row
    <3>3. /\ floor'[b] \in 0..MaxId
          /\ \A d \in Connections : checkpoint'[d] \in 0..MaxId /\ applied'[d] \in 0..MaxId
      BY DEF TypeOK, OutboxTypeOK, InboxTypeOK
    <3> QED  BY <3>2, <3>3, ParameterAssumption
  <2>3. ASSUME Connected(b), sender'[b].conn = sender[b].conn,
               sender[b].applied <= sender'[b].applied,
               sender'[b].applied <= sender'[b].received,
               sender'[b].received <= checkpoint[sender[b].conn],
               sender'[b].applied <= applied[sender[b].conn]
        PROVE  Chain(b)'
    <3>0. PICK d \in Connections : d = sender[b].conn
      BY <2>3, ChainRange
    <3>1. /\ sender[b].received \in Nat /\ sender[b].applied \in Nat /\ floor[b] \in Nat
          /\ checkpoint[d] \in Nat /\ applied[d] \in Nat
      BY <2>3, <3>0, ChainRange
    <3>2. checkpoint[d] <= checkpoint'[d] /\ applied[d] <= applied'[d] /\ (At(d, b) => At(d, b)')
      BY ReceiverGrows
    <3>3. At(d, b) /\ floor[b] <= sender[b].applied
      BY <2>3, <3>0 DEF Trailing, Chain
    <3>4. floor'[b] <= sender[b].applied
      BY <2>3, <3>1, <3>3, FloorSteps
    <3>5. floor'[b] <= sender'[b].applied /\ sender'[b].received <= checkpoint'[d]
          /\ sender'[b].applied <= applied'[d]
      BY <2>2, <2>3, <3>0, <3>1, <3>2, <3>4
    <3>6. At(sender[b].conn, b)' /\ sender'[b].conn = d
      BY <2>3, <3>0, <3>2, <3>3 DEF At
    <3> QED  BY <2>3, <3>5, <3>6 DEF Chain
  <2>4. CASE SameMarks(b)
    <3>1. /\ Connected(b) /\ sender'[b].conn = sender[b].conn
          /\ sender'[b].received = sender[b].received /\ sender'[b].applied = sender[b].applied
      BY <2>4 DEF SameMarks, Marks
    <3>2. Chain(b) /\ sender[b].applied \in Nat
      BY <3>1, ChainRange DEF Trailing
    <3> QED  BY <2>3, <3>1, <3>2 DEF Chain
  <2>5. CASE Fresh(b)
    <3>1. PICK d \in Connections : At(d, b) /\ Marks(sender'[b]) = <<d, 0, 0>>
      BY <2>5 DEF Fresh
    <3>2. sender'[b].conn = d /\ sender'[b].received = 0 /\ sender'[b].applied = 0
      BY <3>1 DEF Marks
    <3>3. At(d, b)' /\ floor'[b] = 0
      BY <2>5, <3>1 DEF Fresh, At, inboxVars
    <3>4. At(sender[b].conn, b)'
      BY <3>2, <3>3 DEF At
    <3> QED  BY <2>2, <3>2, <3>3, <3>4 DEF Chain
  <2>6. CASE Settled(b)
    <3>1. /\ Connected(b) /\ sender'[b].conn = c /\ sender'[b].applied = sender[b].applied
          /\ sender[b].received < sender'[b].received /\ sender'[b].received <= checkpoint[c]
      BY <2>6, SettledMarks
    <3>2. /\ sender[b].received \in Nat /\ sender[b].applied \in Nat
          /\ sender[b].applied <= sender[b].received /\ sender[b].applied <= applied[c]
      BY <3>1, ChainRange DEF Trailing, Chain
    <3>3. sender[b].applied <= sender'[b].received
      BY <2>2, <3>1, <3>2
    <3> QED  BY <2>3, <3>1, <3>2, <3>3
  <2>7. CASE Polled(b)
    <3>1. /\ Connected(b) /\ sender'[b].conn = c /\ sender'[b].received = sender[b].received
          /\ sender'[b].applied = applied[c]
          /\ sender[b].applied <= applied[c] /\ applied[c] <= sender[b].received
      BY <2>7 DEF Polled, Marks
    <3>2. Chain(b) /\ applied[c] \in Nat
      BY <3>1, ChainRange DEF Trailing
    <3> QED  BY <2>3, <3>1, <3>2 DEF Chain
  <2> QED  BY <1>2, <2>1, <2>4, <2>5, <2>6, <2>7, RevokedRow DEF RowStep
<1> QED  BY <1>1, <1>2 DEF Trailing

----------------------------------------------------------------------------
(* Gaps *)

(* A worker reports a gap only after it read a floor above its snapshot. *)
LEMMA GapSteps ==
  ASSUME TypeOK, [Next]_vars, NEW w \in Workers, worker'[w].pc = "gap"
  PROVE  \/ worker'[w] = worker[w]
         \/ /\ worker[w].pc = "snap" /\ Expired(worker[w].b, worker[w].snap.received)
            /\ worker'[w].b = worker[w].b /\ worker'[w].snap = worker[w].snap
            /\ UNCHANGED floor
<1>0. SenderTypeOK /\ worker \in [Workers -> WorkerState]
  BY DEF TypeOK, SenderTypeOK
<1>1. ASSUME NEW v \in Workers, DeliveryStep(v) \/ ReceiverAnswers(v) \/ ReceiverRefuses(v), v # w
      PROVE  worker'[w] = worker[w]
  BY <1>0, <1>1 DEF DeliveryStep, Snapshot, ReadPage, PageUnavailable, EncodingFails,
     RecordFailure, DeferEmpty, Post, ConfigurationUnavailable, TransportError, Settle,
     YieldTurn, Crash, ReceiverAnswers, ReceiverRefuses, Goto, Return
<1>2. ASSUME NEW pc, worker[w].pc \in {"snap", "batch"}, Goto(w, pc)
      PROVE  /\ worker'[w].pc = pc /\ worker'[w].b = worker[w].b
             /\ worker'[w].snap = worker[w].snap
  <2>1. worker'[w] = [worker[w] EXCEPT !.pc = pc]
    BY <1>0, <1>2 DEF Goto
  <2> QED  BY <1>0, <1>2, <2>1, WorkerShape
<1>3. ASSUME Return(w), worker[w].pc \in {"snap", "empty", "gap", "unavailable", "encoding",
                                          "batch", "posted", "answered"}
      PROVE  FALSE
  <2>1. worker'[w] = Done(w)
    BY <1>0, <1>3 DEF Return
  <2>2. Done(w).pc \in {"idle", "yield"}
    BY <1>0, <1>3, DoneType DEF NoWork
  <2> QED  BY <2>1, <2>2
<1>4. CASE ReadPage(w)
  <2>1. CASE Expired(worker[w].b, worker[w].snap.received)
    <3>1. Goto(w, "gap") /\ worker[w].pc = "snap" /\ UNCHANGED floor
      BY <1>4, <2>1 DEF ReadPage, outboxVars
    <3> QED  BY <1>2, <2>1, <3>1
  <2>2. CASE ~Expired(worker[w].b, worker[w].snap.received)
    <3>1. CASE Goto(w, "empty")
      BY <1>2, <1>4, <3>1 DEF ReadPage
    <3>2. CASE ~Goto(w, "empty")
      BY <1>0, <1>4, <2>2, <3>2 DEF ReadPage
    <3> QED  BY <3>1, <3>2
  <2> QED  BY <2>1, <2>2
<1>5. CASE PageUnavailable(w)
  BY <1>2, <1>5 DEF PageUnavailable
<1>6. CASE Post(w)
  BY <1>2, <1>3, <1>6 DEF Post
<1>7. CASE \/ RecordFailure(w) \/ DeferEmpty(w) \/ ConfigurationUnavailable(w)
           \/ TransportError(w)
  BY <1>3, <1>7 DEF RecordFailure, DeferEmpty, ConfigurationUnavailable, TransportError
<1>8. CASE Settle(w)
  <2>1. CASE worker[w].answer = "exact"
    BY <1>0, <1>8, <2>1 DEF Settle
  <2>2. CASE worker[w].answer # "exact"
    BY <1>3, <1>8, <2>2 DEF Settle
  <2> QED  BY <2>1, <2>2
<1>9. CASE (\E b \in Bindings : Snapshot(w, b)) \/ EncodingFails(w) \/ Crash(w) \/ YieldTurn(w)
           \/ ReceiverAnswers(w) \/ ReceiverRefuses(w)
  BY <1>0, <1>9 DEF Snapshot, EncodingFails, Crash, YieldTurn, NoWork, ReceiverAnswers,
     ReceiverRefuses
<1>10. CASE Writing \/ Administering \/ Polling \/ Receiving \/ UNCHANGED vars
           \/ \E r \in late : LateRequestArrives(r)
  BY <1>10 DEF Writing, Administering, Install, ConfigureNew, ConfigureRotation, RevokeSender,
     RetryPaused, Polling, PollStatus, StatusVerified, StatusUnverified, StatusFails,
     BecomeDue, Receiving, senderVars, vars, LateRequestArrives
<1> QED
  BY <1>1, <1>4, <1>5, <1>6, <1>7, <1>8, <1>9, <1>10 DEF Next, Sending, Exchange, DeliveryStep

(* A gap a worker has read is really there, and no connected row is paused for one. *)
Gaps ==
  /\ \A w \in Workers, b \in Bindings :
       worker[w].pc = "gap" /\ worker[w].b = b => worker[w].snap.received < floor[b]
  /\ \A b \in Bindings : Connected(b) => sender[b].error # "outbox_gap"

(* Every step keeps it so: the row a gap would pause has moved on. *)
LEMMA GapsStep ==
  ASSUME TypeOK, TypeOK', OnlyCurrentCredential, Trailing, Gaps, [Next]_vars
  PROVE  Gaps'
<1>1. ASSUME NEW w \in Workers, NEW b \in Bindings, worker'[w].pc = "gap", worker'[w].b = b
      PROVE  worker'[w].snap.received < floor'[b]
  <2>1. /\ floor[b] \in 0..MaxId /\ floor'[b] \in 0..MaxId
        /\ worker'[w].snap.received \in 0..MaxId
    <3>1. worker'[w].snap \in SnapshotOf
      BY <1>1 DEF TypeOK, SenderTypeOK, WorkerState, NoWork
    <3> QED  BY <3>1 DEF TypeOK, OutboxTypeOK, SnapshotOf
  <2>2. floor[b] <= floor'[b]
    BY FloorSteps
  <2>3. worker'[w].snap.received < floor[b]
    <3>1. CASE worker'[w] = worker[w]
      BY <1>1, <3>1 DEF Gaps
    <3>2. CASE worker'[w] # worker[w]
      BY <1>1, <3>2, GapSteps DEF Expired
    <3> QED  BY <3>1, <3>2
  <2> QED  BY <2>1, <2>2, <2>3, ParameterAssumption
<1>2. ASSUME NEW b \in Bindings, Connected(b)', sender'[b].error = "outbox_gap"
      PROVE  FALSE
  <2>1. Connected(b) /\ GapFound(b)
    BY <1>2, RowSteps, RevokedRow DEF RowStep, SameMarks, Fresh, Settled, Polled, Gaps
  <2>2. PICK w \in Workers :
          worker[w].pc = "gap" /\ worker[w].b = b /\ SameIdentity(b, worker[w].snap)
    BY <2>1 DEF GapFound
  <2>3. worker[w].snap.received = sender[b].received
    BY <2>2 DEF SameIdentity, Identity
  <2>4. sender[b].received < floor[b]
    BY <2>2, <2>3 DEF Gaps
  <2>5. floor[b] <= sender[b].applied /\ sender[b].applied <= sender[b].received
    BY <2>1 DEF Trailing, Chain
  <2> QED  BY <2>1, <2>4, <2>5, ChainRange
<1> QED  BY <1>1, <1>2 DEF Gaps

----------------------------------------------------------------------------
(* Theorems *)

(* An exact receipt is never ahead of the receiver, however long its worker holds
   it before it settles: a receiver does not lose a checkpoint it has reported. *)
THEOREM ReceiptsTrueCorrect == Spec => []ReceiptsTrue
<1>1. Init => ReceiptsTrue
  BY DEF Init, SenderInit, ReceiptsTrue, NoWork
<1>2. TypeOK /\ TypeOK' /\ WholePages /\ ReceiptsTrue /\ [Next]_vars => ReceiptsTrue'
  BY ReceiptsTrueStep
<1> QED  BY <1>1, <1>2, TypeCorrect, WholePagesCorrect, PTL DEF Spec

(* The invariant behind the four properties below *)
THEOREM TrailingCorrect == Spec => []Trailing
<1>1. Init => Trailing
  BY DEF Init, InboxInit, SenderInit, Trailing, Connected
<1>2. /\ TypeOK /\ TypeOK' /\ OnlyCurrentCredential /\ WholePages /\ Stored /\ ReceiptsTrue
      /\ Trailing /\ [Next]_vars
      => Trailing'
  BY TrailingStep
<1> QED
  BY <1>1, <1>2, TypeCorrect, CredentialCorrect, WholePagesCorrect, StoredCorrect,
     ReceiptsTrueCorrect, PTL
  DEF Spec

(* WatermarksOrdered: the sender's watermarks trail the receiver's own. *)
THEOREM WatermarksOrderedCorrect == Spec => []WatermarksOrdered
<1>1. TypeOK /\ Trailing => WatermarksOrdered
  BY ChainRange DEF Trailing, Chain, WatermarksOrdered
<1> QED  BY <1>1, TypeCorrect, TrailingCorrect, PTL

(* NoHintSkipped: what the sender counts as received, the receiver stores. *)
THEOREM NoHintSkippedCorrect == Spec => []NoHintSkipped
<1>1. TypeOK /\ Trailing /\ Stored => NoHintSkipped
  <2> SUFFICES ASSUME TypeOK, Trailing, Stored, NEW b \in Bindings, Connected(b),
                      NEW i \in HintsOf(b), i <= sender[b].received
               PROVE  i \in inbox[sender[b].conn]
    BY DEF NoHintSkipped, UpTo
  <2> DEFINE c == sender[b].conn
  <2>1. /\ c \in Connections /\ sender[b].received \in Nat /\ checkpoint[c] \in Nat
        /\ At(c, b) /\ sender[b].received <= checkpoint[c]
    BY ChainRange DEF Trailing, Chain
  <2>2. inbox[c] = UpTo(HintsOf(b), checkpoint[c])
    BY <2>1 DEF Stored
  <2>3. i \in Ids
    BY HintIds DEF TypeOK
  <2>4. i <= checkpoint[c]
    BY <2>1, <2>3, ParameterAssumption DEF Ids
  <2> QED  BY <2>2, <2>4 DEF UpTo
<1> QED  BY <1>1, TypeCorrect, TrailingCorrect, StoredCorrect, PTL

(* RetainedUntilApplied: a hint leaves the outbox of a connected binding only after
   its receiver has applied it. *)
THEOREM RetainedUntilAppliedCorrect == Spec => []RetainedUntilApplied
<1>1. TypeOK /\ Trailing /\ OutboxWhole => RetainedUntilApplied
  <2> SUFFICES ASSUME TypeOK, Trailing, OutboxWhole, NEW b \in Bindings, Connected(b),
                      NEW i \in HintsOf(b), i \notin IdsOf(b)
               PROVE  i <= applied[sender[b].conn]
    BY DEF RetainedUntilApplied, UpTo
  <2>1. PICK h \in published : h.binding = b /\ h.id = i
    BY DEF HintsOf
  <2>2. ~(floor[b] < i)
    BY <2>1 DEF OutboxWhole, IdsOf
  <2>3. i \in Ids
    BY HintIds DEF TypeOK
  <2>4. floor[b] <= sender[b].applied /\ sender[b].applied <= applied[sender[b].conn]
    BY DEF Trailing, Chain
  <2> QED  BY <2>2, <2>3, <2>4, ChainRange, ParameterAssumption DEF Ids
<1> QED  BY <1>1, TypeCorrect, TrailingCorrect, OutboxWholeCorrect, PTL

(* NoOutboxGap: retention never overtakes a connected sender, and a gap that was
   true when it was read never pauses a row that has moved on. *)
THEOREM NoOutboxGapCorrect == Spec => []NoOutboxGap
<1>1. Init => Gaps
  BY DEF Init, SenderInit, Gaps, NoWork, Connected
<1>2. /\ TypeOK /\ TypeOK' /\ OnlyCurrentCredential /\ Trailing /\ Gaps /\ [Next]_vars
      => Gaps'
  BY GapsStep
<1>3. TypeOK /\ Trailing /\ Gaps => NoOutboxGap
  <2> SUFFICES ASSUME TypeOK, Trailing, Gaps, NEW b \in Bindings, Connected(b)
               PROVE  floor[b] <= sender[b].received /\ sender[b].error # "outbox_gap"
    BY DEF NoOutboxGap
  <2>1. floor[b] <= sender[b].applied /\ sender[b].applied <= sender[b].received
    BY DEF Trailing, Chain
  <2> QED  BY <2>1, ChainRange DEF Gaps
<1> QED
  BY <1>1, <1>2, <1>3, TypeCorrect, CredentialCorrect, TrailingCorrect, PTL DEF Spec

----------------------------------------------------------------------------
(* No wake is lost: a sender that an empty poll has parked sleeps past a pending
   hint only while a writer is about to wake it. Proved where writers reach their
   wake, as NoLostWake says.                                                     *)

Parked(b) == Active(b) /\ sender[b].error = "" /\ sender[b].next = "poll"

----------------------------------------------------------------------------
(* How a row gets parked *)

(* Only deferPoll schedules the next poll; every other write goes elsewhere. *)
LEMMA NotParked ==
  ASSUME NEW row \in Row
  PROVE  /\ [row EXCEPT !.next = "due"].next # "poll"
         /\ [row EXCEPT !.next = "yield"].next # "poll"
         /\ [row EXCEPT !.status = "active", !.next = "due"].next # "poll"
         /\ \A k : [row EXCEPT !.key = k, !.status = "active", !.next = "due", !.error = "",
                               !.proof = "status_unverified"].next # "poll"
         /\ \A batch : Acknowledged(row, batch).next # "poll"
<1>1. \A k : [row EXCEPT !.key = k, !.status = "active", !.next = "due", !.error = "",
                         !.proof = "status_unverified"].next # "poll"
  BY DEF Row
<1>2. ASSUME NEW batch
      PROVE  Acknowledged(row, batch).next # "poll"
  <2>1. ASSUME NEW n
        PROVE  [row EXCEPT !.received = n, !.next = "due", !.error = ""].next # "poll"
    BY DEF Row
  <2> QED  BY <2>1 DEF Acknowledged
<1>3. /\ [row EXCEPT !.next = "due"].next # "poll"
      /\ [row EXCEPT !.next = "yield"].next # "poll"
      /\ [row EXCEPT !.status = "active", !.next = "due"].next # "poll"
  BY DEF Row
<1> QED  BY <1>1, <1>2, <1>3

(* A failure is retried after a delay, or pauses the row. *)
LEMMA FailedNotParked ==
  ASSUME NEW row \in Row, NEW code, NEW pause
  PROVE  Failed(row, code, pause).next # "poll"
<1>1. ASSUME NEW status, NEW next, next \in {"due", "backoff"}
      PROVE  [row EXCEPT !.status = status, !.next = next, !.error = code].next # "poll"
  BY <1>1 DEF Row
<1>2. (IF pause THEN "due" ELSE "backoff") \in {"due", "backoff"}
  OBVIOUS
<1> QED  BY <1>1, <1>2 DEF Failed

(* The row was parked before, or deferPoll parks it because nothing is pending. *)
ParkedBefore(b) == Parked(b) /\ sender'[b].received = sender[b].received
ParkedNow(b) == ~HasPending(b) /\ sender'[b].received = sender[b].received /\ UNCHANGED outbox

(* A writer never parks a row. *)
LEMMA WritingParks ==
  ASSUME TypeOK, Writing, NEW b \in Bindings, Parked(b)'
  PROVE  ParkedBefore(b)
<1>0. OutboxTypeOK /\ sender \in SenderRows
  BY DEF TypeOK, OutboxTypeOK, SenderRows
<1>1. sender'[b] = sender[b]
  <2>1. CASE \E u \in Writers : Wake(u)
    <3>1. PICK u \in Writers : Wake(u)
      BY <2>1
    <3>2. CASE sender'[b] # sender[b]
      <4>1. Connected(b) /\ sender'[b] = [sender[b] EXCEPT !.next = "due"]
        BY <1>0, <3>1, <3>2 DEF Wake, SenderRows
      <4> QED  BY <1>0, <4>1, RowShape, NotParked DEF Parked
    <3> QED  BY <3>2
  <2>2. CASE ~ \E u \in Writers : Wake(u)
    BY <2>2
    DEF Writing, OutboxNext, Append, EnsureInitialReconcile, RequestReconcile, Insert,
        ReuseReconcile, ReturnReused, CommitInsert, RollbackInsert, LoseWake, Prune
  <2> QED  BY <2>1, <2>2
<1> QED  BY <1>1 DEF Parked, ParkedBefore, Active, Connected

(* deferPoll parks a row only after it has looked for pending hints under its lock. *)
LEMMA DeliveryParks ==
  ASSUME TypeOK, OnlyCurrentCredential, NEW w \in Workers, DeliveryStep(w),
         NEW b \in Bindings, Parked(b)'
  PROVE  ParkedBefore(b) \/ ParkedNow(b)
<1>0. OutboxTypeOK /\ SenderTypeOK /\ sender \in SenderRows
  BY DEF TypeOK, OutboxTypeOK, SenderRows
<1>1. CASE sender'[b] = sender[b]
  BY <1>1 DEF Parked, ParkedBefore, Active, Connected
<1>2. CASE sender'[b] # sender[b] /\ DeferEmpty(w)
  <2>1. /\ worker[w].b = b /\ Connected(b) /\ sender'[b] = [sender[b] EXCEPT !.next = "poll"]
        /\ StillEmpty(b) /\ UNCHANGED outbox
    BY <1>0, <1>2, WorkerShape DEF DeferEmpty, MayDefer, Due, Active, SenderRows, outboxVars
  <2>2. sender'[b].received = sender[b].received
    BY <1>0, <2>1, RowShape DEF Row
  <2> QED  BY <2>1, <2>2 DEF ParkedNow, StillEmpty
<1>3. CASE sender'[b] # sender[b] /\ ~DeferEmpty(w)
  <2>1. worker[w].b = b /\ Connected(b)
    <3>1. CASE YieldTurn(w) \/ RecordFailure(w) \/ ConfigurationUnavailable(w)
      BY <1>0, <1>3, <3>1, WorkerShape
      DEF YieldTurn, RecordFailure, ConfigurationUnavailable, MayDefer, StillCurrent, Due,
          Active, SenderRows
    <3>2. CASE TransportError(w) \/ Settle(w)
      <4>1. Connected(worker[w].b)
        BY <3>2 DEF TransportError, Settle, OnlyCurrentCredential, Waiting, Active
      <4> QED  BY <1>0, <1>3, <3>2, <4>1 DEF TransportError, Settle, SenderRows
    <3>3. CASE \/ \E x \in Bindings : Snapshot(w, x)
               \/ ReadPage(w) \/ PageUnavailable(w) \/ EncodingFails(w) \/ Post(w) \/ Crash(w)
      BY <1>3, <3>3 DEF Snapshot, ReadPage, PageUnavailable, EncodingFails, Post, Crash
    <3> QED  BY <1>3, <3>1, <3>2, <3>3 DEF DeliveryStep
  <2>2. sender[b] \in Row
    BY <1>0, <2>1, RowShape
  <2>3. sender'[b].next # "poll"
    <3>1. CASE YieldTurn(w)
      <4>1. sender'[b] = [sender[b] EXCEPT !.next = "yield"]
        BY <1>0, <1>3, <2>1, <3>1 DEF YieldTurn, SenderRows
      <4> QED  BY <2>2, <4>1, NotParked
    <3>2. CASE RecordFailure(w)
      <4>1. sender'[b] = Failed(sender[b], FailureCode[worker[w].pc], worker[w].pc # "unavailable")
        BY <1>0, <1>3, <2>1, <3>2 DEF RecordFailure, SenderRows
      <4> QED  BY <2>2, <4>1, FailedNotParked
    <3>3. CASE ConfigurationUnavailable(w)
      <4>1. sender'[b] = Failed(sender[b], "configuration_unavailable", TRUE)
        BY <1>0, <1>3, <2>1, <3>3 DEF ConfigurationUnavailable, SenderRows
      <4> QED  BY <2>2, <4>1, FailedNotParked
    <3>4. CASE TransportError(w)
      <4>1. sender'[b] = Failed(sender[b], "transport_error", FALSE)
        BY <1>0, <1>3, <2>1, <3>4 DEF TransportError, SenderRows
      <4> QED  BY <2>2, <4>1, FailedNotParked
    <3>5. CASE Settle(w) /\ worker[w].answer = "exact"
      <4>1. sender'[b] = Acknowledged(sender[b], worker[w].batch)
        BY <1>0, <1>3, <2>1, <3>5 DEF Settle, SenderRows
      <4> QED  BY <2>2, <4>1, NotParked
    <3>6. CASE Settle(w) /\ worker[w].answer # "exact"
      <4>1. sender'[b] = Failed(sender[b], AnswerCode[worker[w].answer],
                                worker[w].answer # "retryable")
        BY <1>0, <1>3, <2>1, <3>6 DEF Settle, SenderRows
      <4> QED  BY <2>2, <4>1, FailedNotParked
    <3>7. CASE \/ \E x \in Bindings : Snapshot(w, x)
               \/ ReadPage(w) \/ PageUnavailable(w) \/ EncodingFails(w) \/ Post(w) \/ Crash(w)
      BY <1>3, <3>7 DEF Snapshot, ReadPage, PageUnavailable, EncodingFails, Post, Crash
    <3> QED  BY <1>3, <3>1, <3>2, <3>3, <3>4, <3>5, <3>6, <3>7 DEF DeliveryStep
  <2> QED  BY <2>3 DEF Parked
<1> QED  BY <1>1, <1>2, <1>3

(* Polling the status never parks a row, administrators make rows due. *)
LEMMA OthersPark ==
  ASSUME TypeOK, Polling \/ Administering, NEW b \in Bindings, Parked(b)'
  PROVE  ParkedBefore(b)
<1>0. OutboxTypeOK /\ sender \in SenderRows
  BY DEF TypeOK, OutboxTypeOK, SenderRows
<1>1. CASE sender'[b] = sender[b]
  BY <1>1 DEF Parked, ParkedBefore, Active, Connected
<1>2. CASE sender'[b] # sender[b] /\ Polling
  <2>1. PICK x \in Bindings :
          PollStatus(x) \/ ((StatusFails(x) \/ BecomeDue(x)) /\ UNCHANGED inboxVars)
    BY <1>2 DEF Polling
  <2>2. x = b /\ Active(b)
    BY <1>0, <1>2, <2>1
    DEF PollStatus, StatusVerified, StatusUnverified, StatusFails, BecomeDue, SenderRows
  <2>3. sender[b] \in Row /\ Connected(b)
    BY <1>0, <2>2, RowShape DEF Active
  <2>4. \/ sender'[b] = [sender[b] EXCEPT !.next = "due"]
        \/ sender'[b] = [sender[b] EXCEPT !.proof = "status_unverified"]
        \/ \E n : sender'[b] = [sender[b] EXCEPT !.applied = n, !.proof = ""]
    BY <1>0, <1>2, <2>1, <2>2
    DEF PollStatus, StatusVerified, StatusUnverified, StatusFails, BecomeDue, SenderRows
  <2>5. CASE sender'[b] = [sender[b] EXCEPT !.next = "due"]
    BY <2>3, <2>5, NotParked DEF Parked
  <2>6. CASE sender'[b] = [sender[b] EXCEPT !.proof = "status_unverified"]
    BY <2>2, <2>3, <2>6 DEF Row, Parked, ParkedBefore, Active
  <2>7. CASE \E n : sender'[b] = [sender[b] EXCEPT !.applied = n, !.proof = ""]
    BY <2>2, <2>3, <2>7 DEF Row, Parked, ParkedBefore, Active
  <2> QED  BY <2>4, <2>5, <2>6, <2>7
<1>3. CASE sender'[b] # sender[b] /\ Administering
  <2>1. PICK x \in Bindings :
          Install(x) \/ ((RevokeSender(x) \/ RetryPaused(x)) /\ UNCHANGED inboxVars)
    BY <1>3 DEF Administering
  <2>2. x = b
    BY <1>0, <1>3, <2>1
    DEF Install, ConfigureNew, ConfigureRotation, RevokeSender, RetryPaused, SenderRows
  <2>3. CASE RevokeSender(b)
    BY <1>0, <2>3 DEF RevokeSender, Parked, Active, Connected, SenderRows
  <2>4. CASE RetryPaused(b)
    <3>1. sender'[b] = [sender[b] EXCEPT !.status = "active", !.next = "due"] /\ Connected(b)
      BY <1>0, <2>4 DEF RetryPaused, SenderRows
    <3> QED  BY <1>0, <3>1, RowShape, NotParked DEF Parked
  <2>5. CASE Install(b)
    <3>1. PICK c \in Connections : \E k \in Issued(c) :
            ConfigureNew(b, c, k) \/ ConfigureRotation(b, c, k)
      BY <2>5 DEF Install
    <3>2. PICK k \in Issued(c) : ConfigureNew(b, c, k) \/ ConfigureRotation(b, c, k)
      BY <3>1
    <3>3. CASE ConfigureNew(b, c, k)
      BY <1>0, <3>3 DEF ConfigureNew, FreshRow, SenderRows, Parked
    <3>4. CASE ConfigureRotation(b, c, k)
      <4>1. /\ Connected(b)
            /\ sender'[b] = [sender[b] EXCEPT !.key = k, !.status = "active", !.next = "due",
                               !.error = "", !.proof = "status_unverified"]
        BY <1>0, <3>4 DEF ConfigureRotation, SenderRows
      <4> QED  BY <1>0, <4>1, RowShape, NotParked DEF Parked
    <3> QED  BY <3>2, <3>3, <3>4
  <2> QED  BY <2>1, <2>2, <2>3, <2>4, <2>5
<1> QED  BY <1>1, <1>2, <1>3

(* A row is parked after a step because it was, or because nothing is pending. *)
LEMMA ParkSteps ==
  ASSUME TypeOK, OnlyCurrentCredential, [Next]_vars, NEW b \in Bindings, Parked(b)'
  PROVE  ParkedBefore(b) \/ ParkedNow(b)
<1>1. CASE \/ Receiving \/ UNCHANGED vars \/ \E r \in late : LateRequestArrives(r)
           \/ \E w \in Workers : ReceiverAnswers(w) \/ ReceiverRefuses(w)
  <2>1. sender' = sender
    BY <1>1 DEF Receiving, vars, LateRequestArrives, ReceiverAnswers, ReceiverRefuses, senderVars
  <2> QED  BY <2>1 DEF Parked, ParkedBefore, Active, Connected
<1> QED
  BY <1>1, WritingParks, DeliveryParks, OthersPark DEF Next, Sending, Exchange

----------------------------------------------------------------------------
(* Who is about to wake it *)

WakeAhead(b) == \E u \in Writers : writer[u].pc = "wake" /\ writer[u].row.binding = b

(* A hint becomes pending only by a commit, whose writer then goes on to the wake. *)
LEMMA PendingSteps ==
  ASSUME TypeOK, [Next]_vars, NEW b \in Bindings, ~HasPending(b), HasPending(b)',
         sender'[b].received = sender[b].received
  PROVE  WakeAhead(b)'
<1>0. OutboxTypeOK /\ writer \in [Writers -> WriterState]
  BY DEF TypeOK, OutboxTypeOK
<1>1. PICK h \in outbox' : h.binding = b /\ h.id > sender[b].received /\ h \notin outbox
  BY DEF HasPending, IdsOf
<1>2. PICK u \in Writers : CommitInsert(u)
  <2>1. CASE UNCHANGED outbox
    BY <1>1, <2>1
  <2>2. CASE \E x \in Bindings : Prune(x)
    BY <1>1, <2>2 DEF Prune
  <2>3. CASE Writing
    BY <2>1, <2>2, <2>3
    DEF Writing, OutboxNext, Append, EnsureInitialReconcile, RequestReconcile, Insert,
        ReuseReconcile, ReturnReused, RollbackInsert, Wake, LoseWake
  <2>4. CASE ~Writing
    <3>1. UNCHANGED outbox
      BY <2>4
      DEF Next, Sending, DeliveryStep, Snapshot, ReadPage, PageUnavailable, EncodingFails,
          RecordFailure, DeferEmpty, Post, ConfigurationUnavailable, TransportError, Settle,
          YieldTurn, Crash, Exchange, ReceiverAnswers, ReceiverRefuses, Polling, PollStatus,
          StatusVerified, StatusUnverified, StatusFails, BecomeDue, Administering, Install,
          ConfigureNew, ConfigureRotation, RevokeSender, RetryPaused, Receiving,
          LateRequestArrives, outboxVars, vars
    <3> QED  BY <2>1, <3>1
  <2> QED  BY <2>3, <2>4
<1>3. h = writer[u].row
  BY <1>1, <1>2 DEF CommitInsert
<1>4. writer'[u].pc = "wake" /\ writer'[u].row = h
  BY <1>0, <1>2, <1>3, WriterShape DEF CommitInsert
<1> QED  BY <1>1, <1>4 DEF WakeAhead

(* A writer that is about to wake a sender stays so until it has. *)
LEMMA WakeSteps ==
  ASSUME TypeOK, "lost_wake" \notin Disruptions, [Next]_vars, NEW b \in Bindings, WakeAhead(b),
         Parked(b), Parked(b)'
  PROVE  WakeAhead(b)'
<1>0. OutboxTypeOK /\ writer \in [Writers -> WriterState] /\ sender \in SenderRows
  BY DEF TypeOK, OutboxTypeOK, SenderRows
<1>1. PICK u \in Writers : writer[u].pc = "wake" /\ writer[u].row.binding = b
  BY DEF WakeAhead
<1>2. CASE writer'[u] = writer[u]
  BY <1>1, <1>2 DEF WakeAhead
<1>3. CASE Wake(u)
  <2>1. sender'[b] = [sender[b] EXCEPT !.next = "due"]
    BY <1>0, <1>1, <1>3 DEF Wake, Parked, Active, SenderRows
  <2> QED  BY <1>0, <2>1, RowShape, NotParked DEF Parked, Active
<1>4. CASE Writing /\ ~Wake(u)
  <2>1. writer'[u] = writer[u]
    <3>1. writer[u] # IdleWriter
      BY <1>1 DEF IdleWriter
    <3>2. ASSUME NEW v \in Writers, v # u \/ ~Wake(u),
                 \/ \E x \in Bindings : \/ Append(v, x) \/ EnsureInitialReconcile(v, x)
                                       \/ RequestReconcile(v, x) \/ ReuseReconcile(v, x)
                 \/ ReturnReused(v) \/ CommitInsert(v) \/ RollbackInsert(v) \/ Wake(v)
          PROVE  writer'[u] = writer[u]
      <4>1. v # u
        BY <1>1, <3>1, <3>2
        DEF Append, EnsureInitialReconcile, RequestReconcile, Insert, ReuseReconcile,
            ReturnReused, CommitInsert, RollbackInsert
      <4>2. \E state : writer' = [writer EXCEPT ![v] = state]
        BY <3>2
        DEF Append, EnsureInitialReconcile, RequestReconcile, Insert, ReuseReconcile,
            ReturnReused, CommitInsert, RollbackInsert, Wake
      <4> QED  BY <1>0, <4>1, <4>2
    <3>3. CASE \E x \in Bindings : Prune(x)
      BY <3>3 DEF Prune
    <3>4. \A v \in Writers : ~LoseWake(v)
      BY DEF LoseWake
    <3> QED  BY <1>4, <3>2, <3>3, <3>4 DEF Writing, OutboxNext
  <2> QED  BY <1>2, <2>1
<1>5. CASE ~Writing
  <2>1. UNCHANGED writer
    BY <1>5
    DEF Next, Sending, DeliveryStep, Snapshot, ReadPage, PageUnavailable, EncodingFails,
        RecordFailure, DeferEmpty, Post, ConfigurationUnavailable, TransportError, Settle,
        YieldTurn, Crash, Exchange, ReceiverAnswers, ReceiverRefuses, Polling, PollStatus,
        StatusVerified, StatusUnverified, StatusFails, BecomeDue, Administering, Install,
        ConfigureNew, ConfigureRotation, RevokeSender, RetryPaused, Receiving,
        LateRequestArrives, outboxVars, vars
  <2> QED  BY <1>2, <2>1
<1> QED  BY <1>3, <1>4, <1>5

(* NoLostWake: where no writer dies between its commit and its wake, the empty poll's
   check and a concurrent append never miss each other. *)
THEOREM NoLostWakeCorrect ==
  ASSUME "lost_wake" \notin Disruptions
  PROVE  Spec => []NoLostWake
<1>1. Init => NoLostWake
  BY DEF Init, SenderInit, NoLostWake, Active, Connected
<1>2. TypeOK /\ OnlyCurrentCredential /\ NoLostWake /\ [Next]_vars => NoLostWake'
  <2> SUFFICES ASSUME TypeOK, OnlyCurrentCredential, NoLostWake, [Next]_vars, NEW b \in Bindings,
                      Parked(b)', HasPending(b)'
               PROVE  WakeAhead(b)'
    BY DEF NoLostWake, Parked, WakeAhead
  <2>1. sender'[b].received = sender[b].received
    BY ParkSteps DEF ParkedBefore, ParkedNow
  <2>2. CASE ~HasPending(b)
    BY <2>1, <2>2, PendingSteps
  <2>3. CASE HasPending(b)
    <3>1. Parked(b)
      BY <2>3, ParkSteps DEF ParkedBefore, ParkedNow
    <3>2. WakeAhead(b)
      BY <2>3, <3>1 DEF NoLostWake, Parked, WakeAhead
    <3> QED  BY <3>1, <3>2, WakeSteps
  <2> QED  BY <2>2, <2>3
<1> QED  BY <1>1, <1>2, TypeCorrect, CredentialCorrect, PTL DEF Spec

-----------------------------------------------------------------------------
(* The pipeline implements HintFeed: every step of its processes, receivers and
   administrators is one step of the abstract feed, or none.                    *)
(* The abstract state, as Feed's substitution reads it *)
Hints == [b \in Bindings |-> HintsOf(b)]
Retained == [b \in Bindings |-> IdsOf(b)]
Attached == [b \in Bindings |-> sender[b].conn]
Confirmed == [b \in Bindings |-> Received(b)]
Home == [c \in Connections |->
           IF connection[c] = Absent THEN NoOne ELSE connection[c].binding]
feedVars == <<Hints, Retained, Attached, Confirmed, Home, inbox, applied>>

Safe == /\ TypeOK /\ OnlyCurrentCredential /\ IdOrder /\ OutboxWhole /\ WholePages
        /\ Stored /\ ReceiptsTrue /\ Trailing

----------------------------------------------------------------------------
(* What leaves a part of the abstract state alone *)

(* Feed's variables are these. *)
LEMMA SameFeedVars == UNCHANGED feedVars => UNCHANGED Feed!vars
BY DEF Feed!vars, feedVars, Hints, Retained, Attached, Confirmed, Home

(* Hints and what is retained of them depend on the outbox alone. *)
LEMMA SameOutbox ==
  ASSUME UNCHANGED <<outbox, published>>
  PROVE  UNCHANGED <<Hints, Retained>>
BY DEF Hints, Retained, HintsOf, IdsOf

(* The abstract store of a receiver depends on its own tables alone. *)
LEMMA SameInbox ==
  ASSUME UNCHANGED inboxVars
  PROVE  UNCHANGED <<Home, inbox, applied>>
BY DEF inboxVars, Home

RowSame(b) ==
  /\ Connected(b) <=> Connected(b)'
  /\ Connected(b) => /\ sender'[b].conn = sender[b].conn
                     /\ sender'[b].received = sender[b].received

(* A row that keeps its connection and its receipt is the same to the feed. *)
LEMMA SameRows ==
  ASSUME TypeOK, TypeOK', \A b \in Bindings : RowSame(b)
  PROVE  UNCHANGED <<Attached, Confirmed>>
<1>1. ASSUME NEW b \in Bindings
      PROVE  sender'[b].conn = sender[b].conn
  <2>1. CASE Connected(b)
    BY <2>1 DEF RowSame
  <2>2. CASE ~Connected(b)
    BY <2>2 DEF RowSame, Connected
  <2> QED  BY <2>1, <2>2
<1>2. ASSUME NEW b \in Bindings
      PROVE  Received(b)' = Received(b)
  BY DEF RowSame, Received
<1> QED  BY <1>1, <1>2 DEF Attached, Confirmed

(* A row with a connection is not NoRow, before or after a step. *)
LEMMA HasConnection ==
  ASSUME TypeOK, NEW b \in Bindings
  PROVE  /\ Connected(b) <=> sender[b].conn # NoOne
         /\ Connected(b) => sender[b].conn \in Connections
         /\ Connected(b)' <=> sender'[b] # NoRow
         /\ sender'[b].conn # NoOne => Connected(b)'
<1>1. Connected(b) => sender[b].conn \in Connections
  BY ChainRange
<1>2. ~Connected(b) => sender[b].conn = NoOne
  BY DEF Connected, NoRow
<1> QED  BY <1>1, <1>2, ParameterAssumption DEF Connected, NoRow

(* A step that leaves the marks of a row alone, or only its applied mark changes *)
LEMMA RowSameByMarks ==
  ASSUME TypeOK, NEW b \in Bindings, SameMarks(b) \/ Polled(b)
  PROVE  RowSame(b)
<1>1. /\ Connected(b) /\ sender'[b].conn = sender[b].conn
      /\ sender'[b].received = sender[b].received
  BY DEF SameMarks, Polled, Marks
<1>2. Connected(b)'
  BY <1>1, HasConnection, ParameterAssumption
<1> QED  BY <1>1, <1>2 DEF RowSame

FeedStep == Feed!Next \/ UNCHANGED feedVars

(* Rows that only Wake or the poller write *)
LEMMA QuietRows ==
  ASSUME TypeOK, TypeOK',
         \A b \in Bindings : Connected(b) \/ Connected(b)' => SameMarks(b) \/ Polled(b)
  PROVE  UNCHANGED <<Attached, Confirmed>>
<1>1. \A b \in Bindings : RowSame(b)
  BY RowSameByMarks DEF RowSame
<1> QED  BY <1>1, SameRows

----------------------------------------------------------------------------
(* One lemma per part of Next *)

(* A commit publishes; retention retires a prefix the receiver has applied. *)
LEMMA AbstractWriting ==
  ASSUME Safe, TypeOK', [Next]_vars, Writing
  PROVE  FeedStep
<1>0. /\ OutboxTypeOK /\ UNCHANGED <<Home, inbox, applied>>
      /\ TypeOK /\ OutboxWhole /\ Trailing
  BY SameInbox DEF Safe, Writing, TypeOK
<1>1. UNCHANGED <<Attached, Confirmed>>
  BY WritingRows, QuietRows DEF Safe
<1>2. ASSUME NEW u \in Writers, CommitInsert(u)
      PROVE  FeedStep
  <2> DEFINE row == writer[u].row
  <2>0. row \in Hint /\ outbox' = outbox \cup {row} /\ published' = published \cup {row}
    BY <1>0, <1>2, WriterShape DEF CommitInsert
  <2> HIDE DEF row
  <2>1. PICK b \in Bindings, i \in 1..MaxId : row.binding = b /\ row.id = i
    BY <2>0 DEF Hint, Ids
  <2>2. Hints' = [Hints EXCEPT ![b] = @ \cup {i}]
    BY <2>0, <2>1 DEF Hints, HintsOf
  <2>3. Retained' = [Retained EXCEPT ![b] = @ \cup {i}]
    BY <2>0, <2>1 DEF Retained, IdsOf
  <2>4. \A h \in published : h.id < i
    BY <1>2, <2>1, CommitAbove DEF Safe, row
  <2>5. \A x \in Bindings : \A j \in Hints[x] : j < i
    BY <2>4 DEF Hints, HintsOf
  <2>6. Feed!Publish(b, i)
    BY <1>0, <1>1, <2>2, <2>3, <2>5
    DEF Feed!Publish, Hints, Retained, Attached, Confirmed, Home
  <2> QED  BY <2>6 DEF Feed!Next, FeedStep
<1>3. ASSUME NEW b \in Bindings, Prune(b)
      PROVE  FeedStep
  <2>1. PICK n \in IdsOf(b) :
          /\ outbox' = {r \in outbox : r.binding = b => r.id > n}
          /\ \A i \in IdsOf(b) : i <= n => Prunable(b, i)
          /\ UNCHANGED <<published, sender>>
    BY <1>0, <1>3, PruneEffect
  <2>2. n \in 1..MaxId /\ \A h \in outbox : h.id \in Ids
    BY <1>0 DEF IdsOf, OutboxTypeOK, Hint, Ids
  <2>3. Hints' = Hints
    BY <2>1 DEF Hints, HintsOf
  <2>4. Retained' = [Retained EXCEPT ![b] = @ \ Feed!UpTo(@, n)]
    <3>1. IdsOf(b)' = IdsOf(b) \ Feed!UpTo(IdsOf(b), n)
      <4>1. \A i \in Ids : i > n <=> ~(i <= n)
        BY <2>2, ParameterAssumption DEF Ids
      <4> QED  BY <2>1, <2>2, <4>1 DEF IdsOf, Feed!UpTo
    <3>2. \A x \in Bindings : x # b => IdsOf(x)' = IdsOf(x)
      BY <2>1 DEF IdsOf
    <3> QED  BY <3>1, <3>2 DEF Retained
  <2>5. Attached[b] # NoOne => n <= applied[Attached[b]] /\ n <= Confirmed[b]
    <3> SUFFICES ASSUME sender[b].conn # NoOne
                 PROVE  n <= applied[sender[b].conn] /\ n <= Received(b)
      BY DEF Attached, Confirmed
    <3>1. Connected(b)
      BY <1>0, HasConnection
    <3>2. Prunable(b, n)
      BY <2>1, <2>2, ParameterAssumption
    <3>3. n <= sender[b].received /\ n <= sender[b].applied
      BY <3>1, <3>2 DEF Prunable
    <3>4. sender[b].applied <= applied[sender[b].conn]
      BY <1>0, <3>1 DEF Trailing, Chain
    <3> QED  BY <1>0, <2>2, <3>1, <3>3, <3>4, ChainRange DEF Received
  <2>6. Feed!Retire(b, n)
    BY <1>0, <1>1, <2>3, <2>4, <2>5
    DEF Feed!Retire, Hints, Retained, Attached, Confirmed, Home
  <2> QED  BY <2>2, <2>6 DEF Feed!Next, FeedStep
<1>4. CASE UNCHANGED <<outbox, published, floor>>
  BY <1>0, <1>1, <1>4, SameOutbox DEF FeedStep, feedVars
<1> QED  BY <1>2, <1>3, <1>4, OutboxSteps

(* A delivery confirms what the receiver stores, or does nothing to the feed. *)
LEMMA AbstractDelivery ==
  ASSUME Safe, TypeOK', NEW w \in Workers, DeliveryStep(w), UNCHANGED inboxVars
  PROVE  FeedStep
<1>0. /\ TypeOK /\ UNCHANGED <<Home, inbox, applied>>
      /\ UNCHANGED <<Hints, Retained>> /\ sender \in SenderRows
  <2>1. UNCHANGED <<outbox, published>>
    BY DEF DeliveryStep, Snapshot, ReadPage, PageUnavailable, EncodingFails, RecordFailure,
       DeferEmpty, Post, ConfigurationUnavailable, TransportError, Settle, YieldTurn, Crash,
       outboxVars
  <2> QED  BY <2>1, SameInbox, SameOutbox DEF Safe, TypeOK, OutboxTypeOK, SenderRows
<1>1. CASE \A b \in Bindings : ~Settled(b)
  <2>1. UNCHANGED <<Attached, Confirmed>>
    BY <1>1, DeliveryRows, QuietRows DEF Safe
  <2> QED  BY <1>0, <2>1 DEF FeedStep, feedVars
<1>2. ASSUME NEW b \in Bindings, Settled(b)
      PROVE  FeedStep
  <2>1. /\ Connected(b) /\ sender'[b].conn = sender[b].conn
        /\ sender'[b].received \in Ids /\ sender[b].received < sender'[b].received
        /\ sender'[b].received <= checkpoint[sender[b].conn]
    BY <1>2, SettledMarks DEF Safe
  <2>2. PICK v \in Workers : Settle(v) /\ worker[v].answer = "exact" /\ worker[v].b = b
    BY <1>2 DEF Settled
  <2>3. \A x \in Bindings : x # b => sender'[x] = sender[x]
    BY <1>0, <2>2 DEF Settle, SenderRows
  <2>4. PICK n \in 1..MaxId : n = sender'[b].received
    BY <2>1 DEF Ids
  <2>5. Attached' = Attached
    BY <2>1, <2>3 DEF Attached
  <2>6. Connected(b)' /\ \A x \in Bindings : x # b => Received(x)' = Received(x)
    BY <1>0, <2>1, <2>3, HasConnection DEF Received, Connected
  <2>7. Confirmed' = [Confirmed EXCEPT ![b] = n]
    BY <2>4, <2>6 DEF Confirmed, Received
  <2>8. n > Confirmed[b] /\ Attached[b] # NoOne
    <3>1. Confirmed[b] = sender[b].received /\ sender[b].received < n
      BY <2>1, <2>4 DEF Confirmed, Received
    <3>2. n > Confirmed[b]
      BY <1>0, <2>1, <3>1, ChainRange
    <3> QED  BY <1>0, <2>1, <3>2, HasConnection DEF Attached
  <2>9. Feed!UpTo(Hints[b], n) \subseteq inbox[Attached[b]]
    <3>1. At(sender[b].conn, b) /\ sender[b].conn \in Connections
      BY <1>0, <2>1, ChainRange DEF Safe, Trailing, Chain
    <3>2. inbox[sender[b].conn] = UpTo(HintsOf(b), checkpoint[sender[b].conn])
      BY <3>1 DEF Safe, Stored
    <3>3. HintsOf(b) \subseteq Ids /\ checkpoint[sender[b].conn] \in Nat
      BY <1>0, <2>1, HintIds, ChainRange DEF TypeOK
    <3>4. \A i \in Ids : i <= n => i <= checkpoint[sender[b].conn]
      BY <2>1, <2>4, <3>3, ParameterAssumption DEF Ids
    <3> QED  BY <3>2, <3>3, <3>4 DEF Hints, Attached, UpTo, Feed!UpTo
  <2>10. Feed!Confirm(b, n)
    BY <1>0, <2>5, <2>7, <2>8, <2>9
    DEF Feed!Confirm, Hints, Retained, Attached, Confirmed, Home
  <2> QED  BY <2>10 DEF Feed!Next, FeedStep
<1> QED  BY <1>1, <1>2

(* A batch that reaches the receiver extends its store, or changes nothing. *)
LEMMA AbstractIngest ==
  ASSUME Safe, TypeOK', NEW r, IngestSigned(r), UNCHANGED <<outbox, published, sender>>,
         \/ r \in late
         \/ \E w \in Workers : worker[w].pc = "posted" /\ r = RequestOf(w)
  PROVE  FeedStep
<1>0. TypeOK /\ UNCHANGED <<Hints, Retained, Attached, Confirmed, Home, applied>>
  BY SameOutbox DEF Safe, IngestSigned, Attached, Confirmed, Received, Connected, Home
<1>1. CASE ~Advances(r)
  BY <1>0, <1>1 DEF IngestSigned, FeedStep, feedVars
<1>2. CASE Advances(r)
  <2>1. r \in Request /\ Whole(HintsOf(r.binding), r.after, r.batch)
    BY WireBatch DEF Safe
  <2>2. PICK c \in Connections, b \in Bindings : c = r.conn /\ b = r.binding
    BY <2>1 DEF Request
  <2>3. r.after \in 0..MaxId /\ r.batch \in Batches
    BY <2>1 DEF Request
  <2>4. PICK n \in 1..MaxId : n = Max(r.batch)
    BY <2>3, MaxOfIds DEF Batches, Ids
  <2>5. At(c, b) /\ checkpoint[c] = r.after
    BY <1>2, <2>2 DEF At, Advances, Authorized, Accepting, Absent
  <2>6. inbox[c] = UpTo(HintsOf(b), r.after)
    BY <2>5 DEF Safe, Stored
  <2>7. inbox' = [inbox EXCEPT ![c] = UpTo(HintsOf(b), n)]
    <3>1. HintsOf(b) \in SUBSET Ids
      BY <1>0, HintIds DEF TypeOK
    <3>2. UpTo(HintsOf(b), r.after) \cup r.batch = UpTo(HintsOf(b), n)
      BY <2>1, <2>2, <2>3, <2>4, <3>1, BatchExtends
    <3> QED  BY <1>2, <2>2, <2>6, <3>2 DEF IngestSigned
  <2>8. Home[c] = b /\ Hints[b] = HintsOf(b)
    BY <2>5 DEF Home, Hints, At
  <2>9. inbox[c] \subseteq UpTo(HintsOf(b), n)
    <3>1. inbox \in [Connections -> SUBSET Ids]
      BY <1>0 DEF TypeOK, InboxTypeOK
    <3>2. inbox'[c] = inbox[c] \cup r.batch
      BY <1>2, <2>2, <3>1 DEF IngestSigned
    <3> QED  BY <2>7, <3>1, <3>2
  <2>10. b # NoOne
    BY ParameterAssumption
  <2>11. Feed!Receive(c, n)
    <3>1. Feed!UpTo(Hints[Home[c]], n) = UpTo(HintsOf(b), n)
      BY <2>8 DEF Feed!UpTo, UpTo
    <3>2. Home[c] # NoOne
      BY <2>8, <2>10
    <3>3. inbox[c] \subseteq Feed!UpTo(Hints[Home[c]], n)
      BY <2>9, <3>1
    <3>4. inbox' = [inbox EXCEPT ![c] = Feed!UpTo(Hints[Home[c]], n)]
      BY <2>7, <3>1
    <3> QED  BY <1>0, <3>2, <3>3, <3>4
             DEF Feed!Receive, Hints, Retained, Attached, Confirmed, Home
  <2> QED  BY <2>11 DEF Feed!Next, FeedStep
<1> QED  BY <1>1, <1>2

(* The status poll is invisible to the feed: it only learns what was applied. *)
LEMMA AbstractPolling ==
  ASSUME Safe, TypeOK', Polling
  PROVE  FeedStep
<1>1. UNCHANGED <<outbox, published, inboxVars>>
  BY DEF Polling, PollStatus, StatusVerified, StatusUnverified, StatusFails, BecomeDue, outboxVars
<1>2. UNCHANGED <<Attached, Confirmed>>
  BY PollingRows, QuietRows DEF Safe
<1> QED  BY <1>1, <1>2, SameOutbox, SameInbox DEF FeedStep, feedVars

(* An administrator attaches a connection to a complete history, or detaches one. *)
LEMMA AbstractAdministering ==
  ASSUME Safe, TypeOK', Administering
  PROVE  FeedStep
<1>0. /\ TypeOK /\ sender \in SenderRows
      /\ UNCHANGED <<Hints, Retained, Home, inbox, applied>>
  <2>1. UNCHANGED <<outbox, published, inboxVars>>
    BY DEF Administering, Install, ConfigureNew, ConfigureRotation, RevokeSender, RetryPaused,
       outboxVars
  <2> QED  BY <2>1, SameOutbox, SameInbox DEF Safe, TypeOK, OutboxTypeOK, SenderRows
<1>1. CASE \A b \in Bindings : ~Fresh(b) /\ ~RevokeSender(b)
  <2>1. UNCHANGED <<Attached, Confirmed>>
    BY <1>1, AdministeringRows, QuietRows DEF Safe
  <2> QED  BY <1>0, <2>1 DEF FeedStep, feedVars
<1>2. ASSUME NEW b \in Bindings, RevokeSender(b)
      PROVE  FeedStep
  <2>1. sender' = [sender EXCEPT ![b] = NoRow]
    BY <1>2 DEF RevokeSender
  <2>2. /\ sender'[b] = NoRow /\ NoRow.conn = NoOne
        /\ \A x \in Bindings : x # b => sender'[x] = sender[x]
    BY <1>0, <2>1 DEF SenderRows, NoRow
  <2>3. Attached' = [Attached EXCEPT ![b] = NoOne]
    BY <2>2 DEF Attached
  <2>4. Confirmed' = [Confirmed EXCEPT ![b] = 0]
    BY <2>2 DEF Confirmed, Received, Connected
  <2>5. Feed!Detach(b)
    BY <1>0, <2>3, <2>4 DEF Feed!Detach, Hints, Retained, Attached, Confirmed, Home
  <2> QED  BY <2>5 DEF Feed!Next, FeedStep
<1>3. ASSUME NEW b \in Bindings, Fresh(b)
      PROVE  FeedStep
  <2>1. PICK c \in Connections : At(c, b) /\ Marks(sender'[b]) = <<c, 0, 0>>
    BY <1>3 DEF Fresh
  <2>2. sender'[b].conn = c /\ sender'[b].received = 0 /\ ~Connected(b) /\ floor[b] = 0
    BY <1>3, <2>1 DEF Fresh, Marks
  <2>3. Connected(b)'
    BY <1>0, <2>2, HasConnection, ParameterAssumption
  <2>4. \A x \in Bindings : x # b => sender'[x] = sender[x]
    <3>1. PICK x \in Bindings :
            Install(x) \/ ((RevokeSender(x) \/ RetryPaused(x)) /\ UNCHANGED inboxVars)
      BY DEF Administering
    <3>2. \A y \in Bindings : y # x => sender'[y] = sender[y]
      BY <1>0, <3>1
      DEF Install, ConfigureNew, ConfigureRotation, RevokeSender, RetryPaused, SenderRows
    <3>3. x = b
      BY <2>2, <2>3, <3>2 DEF Connected
    <3> QED  BY <3>2, <3>3
  <2>5. Attached' = [Attached EXCEPT ![b] = c]
    BY <2>2, <2>4 DEF Attached
  <2>6. Confirmed' = Confirmed
    BY <2>2, <2>3, <2>4 DEF Confirmed, Received, Connected
  <2>7. Attached[b] = NoOne /\ Home[c] = b
    BY <1>0, <2>1, <2>2, HasConnection DEF Attached, Home, At
  <2>8. Retained[b] = Hints[b]
    <3>1. HintsOf(b) \subseteq Ids
      BY <1>0, HintIds DEF TypeOK
    <3>2. \A h \in published : h.binding = b => floor[b] < h.id
      BY <1>0, <2>2, <3>1, HintIds, ParameterAssumption DEF TypeOK, Ids
    <3>3. HintsOf(b) \subseteq IdsOf(b)
      BY <3>2 DEF Safe, OutboxWhole, HintsOf, IdsOf
    <3>4. IdsOf(b) \subseteq HintsOf(b)
      BY DEF Safe, OutboxWhole, HintsOf, IdsOf
    <3> QED  BY <3>3, <3>4 DEF Retained, Hints
  <2>9. Feed!Attach(b, c)
    BY <1>0, <2>5, <2>6, <2>7, <2>8
    DEF Feed!Attach, Hints, Retained, Attached, Confirmed, Home
  <2> QED  BY <2>9 DEF Feed!Next, FeedStep
<1> QED  BY <1>1, <1>2, <1>3

(* At the receiver, pairing opens a connection and the dispatcher applies a hint. *)
LEMMA AbstractReceiving ==
  ASSUME Safe, TypeOK', [Next]_vars, Receiving
  PROVE  FeedStep
<1>0. /\ TypeOK /\ connection \in [Connections -> Endpoint \cup {Absent}]
      /\ inbox \in [Connections -> SUBSET Ids]
      /\ UNCHANGED <<Hints, Retained, Attached, Confirmed>>
  <2>1. UNCHANGED <<outbox, published, sender>>
    BY DEF Receiving, outboxVars, senderVars
  <2> QED
    BY <2>1, SameOutbox
    DEF Safe, TypeOK, InboxTypeOK, Attached, Confirmed, Received, Connected
<1>1. ASSUME NEW c \in Connections, NEW b \in Bindings, Pair(c, b)
      PROVE  FeedStep
  <2>1. /\ connection[c] = Absent /\ UNCHANGED <<inbox, applied>>
        /\ connection' = [connection EXCEPT ![c] =
             [status |-> "active", binding |-> b, current |-> 1, previous |-> 0]]
    BY <1>1 DEF Pair
  <2>2. connection'[c].status = "active" /\ connection'[c].binding = b
    BY <1>0, <2>1
  <2>3. connection'[c] # Absent
    BY <2>2 DEF Absent
  <2>4. Home' = [Home EXCEPT ![c] = b]
    BY <1>0, <2>1, <2>2, <2>3 DEF Home
  <2>5. Home[c] = NoOne
    BY <2>1 DEF Home
  <2>6. Feed!Open(c, b)
    BY <1>0, <2>1, <2>4, <2>5 DEF Feed!Open, Hints, Retained, Attached, Confirmed, Home
  <2> QED  BY <2>6 DEF Feed!Next, FeedStep
<1>2. ASSUME NEW c \in Connections, Rotate(c) \/ GraceEnds(c) \/ Revoke(c)
      PROVE  FeedStep
  <2>1. UNCHANGED <<inbox, applied>>
    BY <1>2 DEF Rotate, GraceEnds, Revoke
  <2>2. ASSUME NEW d \in Connections
        PROVE  /\ connection'[d] = Absent <=> connection[d] = Absent
               /\ connection'[d] # Absent => connection'[d].binding = connection[d].binding
    <3>1. connection[c] # Absent
      BY <1>2 DEF Rotate, GraceEnds, Revoke, Accepting, Absent
    <3>2. CASE d # c
      BY <1>0, <1>2, <3>2 DEF Rotate, GraceEnds, Revoke
    <3>3. CASE d = c
      BY <1>0, <3>1, <3>3, ConnectionKept DEF At, TypeOK, InboxTypeOK, Endpoint
    <3> QED  BY <3>2, <3>3
  <2>3. Home' = Home
    BY <2>2 DEF Home
  <2> QED  BY <1>0, <2>1, <2>3 DEF FeedStep, feedVars
<1>3. ASSUME NEW c \in Connections, AdvanceApplied(c)
      PROVE  FeedStep
  <2>1. PICK n \in inbox[c] : n > applied[c] /\ applied' = [applied EXCEPT ![c] = n]
    BY <1>3 DEF AdvanceApplied
  <2>2. n \in 1..MaxId
    BY <1>0, <2>1 DEF Ids
  <2>3. UNCHANGED <<Home, inbox>>
    BY <1>3 DEF AdvanceApplied, Home
  <2>4. Feed!Apply(c, n)
    BY <1>0, <2>1, <2>3 DEF Feed!Apply, Hints, Retained, Attached, Confirmed, Home
  <2> QED  BY <2>2, <2>4 DEF Feed!Next, FeedStep
<1> QED  BY <1>1, <1>2, <1>3 DEF Receiving

(* Every step of the pipeline is a step of the feed, or invisible to it. *)
LEMMA AbstractNext ==
  ASSUME Safe, TypeOK', [Next]_vars
  PROVE  FeedStep
<1>1. CASE \E w \in Workers : ReceiverAnswers(w)
  BY <1>1, AbstractIngest DEF ReceiverAnswers, outboxVars
<1>2. CASE \E r \in late : LateRequestArrives(r)
  BY <1>2, AbstractIngest DEF LateRequestArrives, outboxVars
<1>3. CASE UNCHANGED vars \/ \E w \in Workers : ReceiverRefuses(w)
  <2>1. UNCHANGED <<outbox, published, sender, inboxVars>>
    BY <1>3 DEF vars, inboxVars, ReceiverRefuses, outboxVars
  <2> QED
    BY <2>1, SameOutbox, SameInbox
    DEF FeedStep, feedVars, Attached, Confirmed, Received, Connected
<1>4. CASE Sending
  BY <1>4, AbstractDelivery DEF Sending
<1> QED
  BY <1>1, <1>2, <1>3, <1>4, AbstractWriting, AbstractPolling, AbstractAdministering,
     AbstractReceiving
  DEF Next, Exchange

(* Nothing is published, connected or stored at first, in the feed as in the pipeline. *)
LEMMA AbstractInit == Init => Feed!Init
<1> SUFFICES ASSUME Init PROVE Feed!Init
  OBVIOUS
<1>1. /\ published = {} /\ outbox = {} /\ sender = [b \in Bindings |-> NoRow]
      /\ connection = [c \in Connections |-> Absent]
      /\ inbox = [c \in Connections |-> {}] /\ applied = [c \in Connections |-> 0]
  BY DEF Init, OutboxInit, SenderInit, InboxInit
<1>2. \A b \in Bindings : HintsOf(b) = {} /\ IdsOf(b) = {}
  BY <1>1 DEF HintsOf, IdsOf
<1>3. \A b \in Bindings : sender[b].conn = NoOne /\ Received(b) = 0
  BY <1>1 DEF Received, Connected, NoRow
<1> QED  BY <1>1, <1>2, <1>3 DEF Feed!Init

(* ImplementsFeed: whatever its workers, receivers and administrators do, and whatever
   fails, the pipeline behaves like an append-only feed with a receiver that owns a
   prefix of it and a retention that takes only what this receiver has applied. *)
THEOREM FeedCorrect == Spec => ImplementsFeed
<1>1. Safe /\ TypeOK' /\ [Next]_vars => [Feed!Next]_(Feed!vars)
  BY AbstractNext, SameFeedVars DEF FeedStep
<1>2. /\ TypeOK /\ OnlyCurrentCredential /\ IdOrder /\ OutboxWhole /\ WholePages
      /\ Stored /\ ReceiptsTrue /\ Trailing
      => Safe
  BY DEF Safe
<1> QED
  BY <1>1, <1>2, AbstractInit, TypeCorrect, CredentialCorrect, IdsInOrder, OutboxWholeCorrect,
     WholePagesCorrect, StoredCorrect, ReceiptsTrueCorrect, TrailingCorrect, PTL
  DEF Spec, ImplementsFeed, Feed!Spec
=============================================================================
