----------------------------- MODULE EventRebind -----------------------------
(* local-source-rotation.py rebind: after a finalized rotation of the source's machine key,
   bind WeKnora's event connection to it again and resume the Nextcloud sender that the
   rotation paused. The tool reads each side on its own, between two deliveries, while other
   administrators rotate the event key or resume the sender themselves. *)
EXTENDS Integers

CONSTANTS
  MaxHintId,      \* bound: event ids
  MaxEventKeys,   \* bound: event keys
  MaxRetries      \* bound: times somebody else resumes the sender

VARIABLES
  eSender,     \* Nextcloud's row of the connection
  eReceiver,   \* WeKnora's connection, checkpoint and dispatch row
  delivery,    \* the one delivery under way, and its answer
  rebinder,    \* the tool: what it read, and what it reported
  retries

rebindVars == <<eSender, eReceiver, delivery, rebinder, retries>>

NoDelivery == [key |-> 0, event |-> 0, answer |-> "none"]
NoScope == [key |-> 0, sent |-> 0, seen |-> 0, received |-> 0, dispatched |-> 0, applied |-> 0]
NoRebind == [pc |-> "idle", sender |-> [key |-> 0], before |-> NoScope, rebound |-> NoScope,
             safe |-> FALSE, after |-> NoScope, report |-> "none"]

RebindInit ==
  /\ eSender \in [key : {1}, status : {"active"}, error : {""}, received : {0}, applied : {0}]
  /\ eReceiver = [key |-> 1, bound |-> FALSE, received |-> 0, dispatched |-> 0, applied |-> 0,
                  dispatch |-> "idle"]
  /\ delivery = NoDelivery /\ rebinder = NoRebind /\ retries = 0

RebindAt(pc) == rebinder.pc = pc
Quits == rebinder' = [NoRebind EXCEPT !.pc = "failed"]

----------------------------------------------------------------------------
(* The two services meanwhile *)
PostHint ==
  /\ eSender.status = "active" /\ delivery = NoDelivery /\ eSender.received < MaxHintId
  /\ delivery' = [key |-> eSender.key, event |-> eSender.received + 1, answer |-> "none"]
  /\ UNCHANGED <<eSender, eReceiver, rebinder, retries>>
AcceptHint ==
  /\ delivery # NoDelivery /\ delivery.answer = "none"
  /\ \/ /\ eReceiver.bound /\ delivery.key = eReceiver.key
        /\ eReceiver' = IF delivery.event > eReceiver.received
             THEN [eReceiver EXCEPT !.received = delivery.event, !.dispatch = "queued"]
             ELSE eReceiver
        /\ delivery' = [delivery EXCEPT !.answer = "received"]
     \/ /\ ~(eReceiver.bound /\ delivery.key = eReceiver.key)
        /\ delivery' = [delivery EXCEPT !.answer = "unauthorized"] /\ UNCHANGED eReceiver
     \/ /\ delivery' = [delivery EXCEPT !.answer = "rejected"] /\ UNCHANGED eReceiver
  /\ UNCHANGED <<eSender, rebinder, retries>>
(* The answer, or the timeout; a row that changed meanwhile keeps what it has. *)
TakeAnswer ==
  /\ delivery # NoDelivery
  /\ delivery' = NoDelivery
  /\ \/ UNCHANGED eSender
     \/ /\ delivery.key = eSender.key /\ delivery.event = eSender.received + 1
        /\ \/ /\ delivery.answer = "received"
              /\ eSender' = [eSender EXCEPT !.received = delivery.event, !.error = ""]
           \/ /\ delivery.answer \in {"unauthorized", "rejected"}
              /\ eSender' = [eSender EXCEPT !.status = "paused", !.error = delivery.answer]
  /\ UNCHANGED <<eReceiver, rebinder, retries>>
DispatchHints ==
  /\ eReceiver.bound /\ eReceiver.dispatch = "queued"
  /\ \/ eReceiver' = [eReceiver EXCEPT !.dispatched = eReceiver.received]
     \/ /\ eReceiver.applied < eReceiver.dispatched
        /\ eReceiver' = [eReceiver EXCEPT !.applied = eReceiver.dispatched,
             !.dispatch = IF eReceiver.dispatched = eReceiver.received THEN "idle" ELSE "queued"]
     \/ eReceiver' = [eReceiver EXCEPT !.dispatch = "blocked"]
  /\ UNCHANGED <<eSender, delivery, rebinder, retries>>
PollApplied ==
  /\ eSender' = [eSender EXCEPT !.applied =
       IF eReceiver.applied <= eSender.received THEN eReceiver.applied ELSE eSender.received]
  /\ UNCHANGED <<eReceiver, delivery, rebinder, retries>>
(* Another administrator: retryPaused, or a new event key, first here and then there. *)
RetryElsewhere ==
  /\ eSender.status = "paused" /\ retries < MaxRetries
  /\ eSender' = [eSender EXCEPT !.status = "active"] /\ retries' = retries + 1
  /\ UNCHANGED <<eReceiver, delivery, rebinder>>
RotateEventKey ==
  /\ \/ /\ eReceiver.key = eSender.key /\ eReceiver.key < MaxEventKeys /\ eReceiver.bound
        /\ eReceiver' = [eReceiver EXCEPT !.key = @ + 1] /\ UNCHANGED eSender
     \/ /\ eReceiver.key # eSender.key
        /\ eSender' = [eSender EXCEPT !.key = eReceiver.key, !.status = "active", !.error = ""]
        /\ UNCHANGED eReceiver
  /\ UNCHANGED <<delivery, rebinder, retries>>

----------------------------------------------------------------------------
(* checked_event_scope: one key on both sides, and no watermark ahead of another *)
Scope(s, r) ==
  [key |-> s.key, sent |-> s.received, seen |-> s.applied,
   received |-> r.received, dispatched |-> r.dispatched, applied |-> r.applied]
Ordered(r) == r.applied <= r.dispatched /\ r.dispatched <= r.received
ScopeChecked(s, r) ==
  /\ s.key = r.key /\ Ordered(r)
  /\ s.applied <= s.received /\ s.received <= r.received /\ s.applied <= r.applied
NotBehind(new, old) ==
  new.received >= old.received /\ new.dispatched >= old.dispatched /\ new.applied >= old.applied
SafeDispatch(r) == r.dispatch \in {"idle", "queued"}

(* Before anything changes: the sender, then the receiver *)
ReadSender(next) ==
  rebinder' = [rebinder EXCEPT !.pc = next, !.sender = eSender]
InspectSender ==
  /\ RebindAt("idle") /\ ReadSender("inspect")
  /\ UNCHANGED <<eSender, eReceiver, delivery, retries>>
InspectReceiver ==
  /\ RebindAt("inspect")
  /\ IF ScopeChecked(rebinder.sender, eReceiver) /\ rebinder.sender.received = eReceiver.received
     THEN rebinder' = [rebinder EXCEPT !.pc = "rebind", !.before = Scope(rebinder.sender, eReceiver)]
     ELSE Quits
  /\ UNCHANGED <<eSender, eReceiver, delivery, retries>>
(* RebindFinalizedSourceRotation: a quiescent dispatch row, or a rebind that was done before *)
Quiescent ==
  eReceiver.dispatched = eReceiver.applied /\ eReceiver.dispatch = "idle"
RebindReceiver ==
  /\ RebindAt("rebind")
  /\ \/ /\ eReceiver.bound \/ Quiescent
        /\ eReceiver' = [eReceiver EXCEPT !.bound = TRUE]
        /\ IF eReceiver.key = rebinder.before.key /\ NotBehind(eReceiver, rebinder.before)
              /\ Ordered(eReceiver)
           THEN rebinder' = [rebinder EXCEPT !.pc = "sender", !.safe = SafeDispatch(eReceiver),
                                              !.rebound = Scope(rebinder.sender, eReceiver)]
           ELSE Quits
     \/ ~eReceiver.bound /\ ~Quiescent /\ Quits /\ UNCHANGED eReceiver
  /\ UNCHANGED <<eSender, delivery, retries>>

(* Afterwards: the same connection, nothing went backwards, a dispatch nobody must repair *)
RereadSender ==
  /\ RebindAt("sender") /\ ReadSender("receiver")
  /\ UNCHANGED <<eSender, eReceiver, delivery, retries>>
SameConnection(s) ==
  /\ ScopeChecked(s, eReceiver) /\ s.key = rebinder.before.key
  /\ s.received >= rebinder.before.sent /\ s.applied >= rebinder.before.seen
  /\ NotBehind(eReceiver, rebinder.rebound)
StoppedByRotation(s) ==
  /\ s.error = "unauthorized" /\ s.received = rebinder.before.sent /\ eReceiver.received = s.received
RereadReceiver ==
  /\ RebindAt("receiver")
  /\ LET s == rebinder.sender IN
       IF ~SameConnection(s) \/ ~rebinder.safe \/ ~SafeDispatch(eReceiver) THEN Quits
       ELSE IF s.status = "active"
       THEN rebinder' = [rebinder EXCEPT !.pc = "done", !.after = Scope(s, eReceiver),
                                         !.report = "already_active"]
       ELSE IF StoppedByRotation(s)
       THEN rebinder' = [rebinder EXCEPT !.pc = "resume", !.after = Scope(s, eReceiver)]
       ELSE Quits
  /\ UNCHANGED <<eSender, eReceiver, delivery, retries>>

(* retryPaused: the sender still is the one that was shown *)
StillPaused == eSender.status = "paused"  \* mutant: only the status is compared
AsInspected ==
  /\ eSender.status = "paused" /\ eSender.key = rebinder.before.key
  /\ eSender.received = rebinder.sender.received
ResumeSender ==
  /\ RebindAt("resume")
  /\ \/ /\ AsInspected
        /\ eSender' = [eSender EXCEPT !.status = "active"]
        /\ rebinder' = [rebinder EXCEPT !.pc = "check", !.sender = eSender']
     \/ ~AsInspected /\ Quits /\ UNCHANGED eSender
  /\ UNCHANGED <<eReceiver, delivery, retries>>
CheckResumed ==
  /\ RebindAt("check")
  /\ IF /\ ScopeChecked(rebinder.sender, eReceiver) /\ SafeDispatch(eReceiver)
        /\ NotBehind(eReceiver, rebinder.after) /\ rebinder.sender.key = rebinder.before.key
     THEN rebinder' = [rebinder EXCEPT !.pc = "done", !.report = "resumed",
                                       !.after = Scope(rebinder.sender, eReceiver)]
     ELSE Quits
  /\ UNCHANGED <<eSender, eReceiver, delivery, retries>>

RebindStep ==
  \/ PostHint \/ AcceptHint \/ TakeAnswer \/ DispatchHints \/ PollApplied
  \/ RetryElsewhere \/ RotateEventKey
  \/ InspectSender \/ InspectReceiver \/ RebindReceiver
  \/ RereadSender \/ RereadReceiver \/ ResumeSender \/ CheckResumed

----------------------------------------------------------------------------
(* A success report is about one connection: the key the tool found first is the key of its
   last reads, the receiver is bound again, and no watermark in it is behind the first read
   or behind the sender's, although each side was read at a moment of its own. *)
ReportedOnce ==
  rebinder.report # "none" =>
    /\ eReceiver.bound
    /\ rebinder.after.key = rebinder.before.key
    /\ NotBehind(rebinder.after, rebinder.before)
    /\ rebinder.before.sent <= rebinder.after.sent /\ rebinder.after.sent <= rebinder.after.received

(* The tool resumes the sender only where the rotation stopped it: under the key and with the
   receipt of its first read, not one that somebody resumed and that stopped again further on. *)
ResumesWhereItStopped ==
  RebindAt("resume") /\ rebinder'.pc = "check" =>
    eSender.key = rebinder.before.key /\ eSender.received = rebinder.before.sent
=============================================================================
