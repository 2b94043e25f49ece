------------------------------ MODULE EventInbox ------------------------------
(* The receiving side in WeKnora: NextcloudEventInboxRepository. Every operation
   is one database transaction that holds the connection row, so each is one
   action. What a hint says is abstracted to its id: ids are never reused and
   outbox rows never change, so the stored payload hash of an id always equals
   the one of a second copy.                                                 *)
EXTENDS EventParameters

VARIABLES
  connection,   \* nextcloud_event_connections: binding, status and the two keys
  checkpoint,   \* nextcloud_event_checkpoint.received_id
  inbox,        \* event ids of nextcloud_event_inbox, per connection
  applied       \* nextcloud_event_dispatch.applied_id

inboxVars == <<connection, checkpoint, inbox, applied>>

Absent == [status |-> "absent"]
Endpoint == [status : {"active", "revoked"}, binding : Bindings,
             current : 1..MaxKey, previous : 0..MaxKey]

InboxInit ==
  /\ connection = [c \in Connections |-> Absent]
  /\ checkpoint = [c \in Connections |-> 0]
  /\ inbox = [c \in Connections |-> {}]
  /\ applied = [c \in Connections |-> 0]

Accepting(c) == connection[c].status = "active"
Issued(c) == IF connection[c] = Absent THEN {} ELSE 1..connection[c].current

(* Pair: one active connection per data source, that is per binding here *)
Pair(c, b) ==
  /\ connection[c] = Absent
  /\ \A d \in Connections : Accepting(d) => connection[d].binding # b
  /\ connection' = [connection EXCEPT ![c] =
       [status |-> "active", binding |-> b, current |-> 1, previous |-> 0]]
  /\ UNCHANGED <<checkpoint, inbox, applied>>

(* Rotate: the outgoing key stays valid for a grace period, the one before dies *)
Rotate(c) ==
  /\ Accepting(c)
  /\ connection[c].current < MaxKey
  /\ LET key == connection[c].current IN
       connection' = [connection EXCEPT ![c] =
         [@ EXCEPT !.previous = key, !.current = key + 1]]
  /\ UNCHANGED <<checkpoint, inbox, applied>>

GraceEnds(c) ==
  /\ Accepting(c)
  /\ connection[c].previous # 0
  /\ connection' = [connection EXCEPT ![c].previous = 0]
  /\ UNCHANGED <<checkpoint, inbox, applied>>

Revoke(c) ==
  /\ "revoke" \in Disruptions
  /\ Accepting(c)
  /\ connection' = [connection EXCEPT ![c] = [@ EXCEPT !.status = "revoked", !.previous = 0]]
  /\ UNCHANGED <<checkpoint, inbox, applied>>

(* verifyNextcloudEventSignature; previous is 0, which no request carries, while
   there is no key in its grace period *)
KeyAccepted(c, key) == key \in {connection[c].current, connection[c].previous}

(* The four ways IngestSigned ends for a well-formed request r *)
Authorized(r) ==
  /\ Accepting(r.conn)
  /\ connection[r.conn].binding = r.binding
  /\ KeyAccepted(r.conn, r.key)
\* mutant: any batch that starts at or before the checkpoint advances it
AdvancesFromBehind(r) == Authorized(r) /\ r.after <= checkpoint[r.conn]
Advances(r) == Authorized(r) /\ r.after = checkpoint[r.conn]
Duplicate(r) ==
  /\ Authorized(r)
  /\ r.after < checkpoint[r.conn]
  /\ \A i \in r.batch : i <= checkpoint[r.conn] /\ i \in inbox[r.conn]
Outcome(r) ==
  IF ~Authorized(r) THEN "unauthorized"
  ELSE IF Advances(r) THEN "exact"
  ELSE IF ~Duplicate(r) THEN "conflict"
  ELSE IF checkpoint[r.conn] = Max(r.batch) THEN "exact" ELSE "diverged"

IngestSigned(r) ==
  /\ IF Advances(r)
     THEN /\ inbox' = [inbox EXCEPT ![r.conn] = @ \cup r.batch]
          /\ checkpoint' = [checkpoint EXCEPT ![r.conn] = Max(r.batch)]
     ELSE UNCHANGED <<inbox, checkpoint>>
  /\ UNCHANGED <<connection, applied>>

(* The dispatcher moves the applied watermark to a received id once a complete
   publication run is proven. *)
AdvanceApplied(c) ==
  /\ Accepting(c)
  /\ \E i \in inbox[c] : i > applied[c] /\ applied' = [applied EXCEPT ![c] = i]
  /\ UNCHANGED <<connection, checkpoint, inbox>>

InboxTypeOK ==
  /\ connection \in [Connections -> Endpoint \cup {Absent}]
  /\ checkpoint \in [Connections -> 0..MaxId]
  /\ inbox \in [Connections -> SUBSET Ids]
  /\ applied \in [Connections -> 0..MaxId]
=============================================================================
