---------------------------- MODULE SourceDriver ----------------------------
(* The operator's command line for source trust, local-source-pairing.py and
   local-source-rotation.py, driven from more than one terminal at a time. The protocol
   behind it is SourceTrust; here each operation is only as far as a driver can see it, and
   a WeKnora request goes on after the driver that sent it is gone. *)
EXTENDS Integers, Sequences, FiniteSets

CONSTANTS
  DriverOps,      \* operation ids, positive numbers
  Terminals,      \* drivers that may run at the same time
  MaxDriverRuns   \* bound: commands given

VARIABLES
  trust,      \* which of the two tools this is: one pairing's operations or one pair's rotations
  intents,    \* Nextcloud's row per operation
  latestOp,   \* the operation Nextcloud's status endpoint shows
  remotes,    \* WeKnora's row per operation
  serving,    \* per terminal: the request WeKnora works on for it
  terminal,   \* per terminal: the driver
  claims,     \* what drivers that exited with success said of an operation
  driverRuns

driverVars == <<trust, intents, latestOp, remotes, serving, terminal, claims, driverRuns>>

NoOp == 0
NoCall == [stage |-> "none", verb |-> "none", op |-> NoOp, code |-> 0]
NoDriver == [pc |-> "idle", action |-> "none", op |-> NoOp, token |-> FALSE, seen |-> "none"]

DriverInit ==
  /\ trust \in {"pairing", "rotation"}
  /\ intents = [o \in DriverOps |-> "none"] /\ latestOp = NoOp
  /\ remotes = [o \in DriverOps |-> "none"]
  /\ serving = [t \in Terminals |-> NoCall]
  /\ terminal = [t \in Terminals |-> NoDriver]
  /\ claims = {} /\ driverRuns = 0

Pairing == trust = "pairing"
DriverAt(t, pc) == terminal[t].pc = pc
Moves(t, pc) == terminal' = [terminal EXCEPT ![t] = [@ EXCEPT !.pc = pc]]
Exits(t) == terminal' = [terminal EXCEPT ![t] = NoDriver]
Opened(op) == intents[op] \in {"pending", "committed", "done"}

----------------------------------------------------------------------------
(* WeKnora. It reads the row, asks Nextcloud with a signed request, and writes the row. *)
Admits(t, stage, code) ==
  serving' = [serving EXCEPT ![t] = [stage |-> stage, verb |-> @.verb, op |-> @.op, code |-> code]]
(* A new row needs the operation's key, and no other operation in the way. *)
MayOpen(op) ==
  /\ Opened(op)
  /\ \A q \in DriverOps \ {op} :
       remotes[q] \in {"none", "aborted"} \cup (IF Pairing THEN {} ELSE {"done"})
KnoraAdmits(t) ==
  LET call == serving[t] row == remotes[call.op] IN
  /\ call.stage = "sent"
  /\ \/ /\ call.verb = "start" /\ row = "none" /\ MayOpen(call.op)
        /\ remotes' = [remotes EXCEPT ![call.op] = "pending"]
        /\ Admits(t, "exchange", 0)
     \/ /\ call.verb \in {"start", "retry"} /\ row \in {"pending", "switched"}
        /\ Admits(t, "exchange", 0) /\ UNCHANGED remotes
     \/ /\ call.verb = "abort" /\ row = "pending"
        /\ Admits(t, "exchange", 0) /\ UNCHANGED remotes
     \/ /\ call.verb # "start" /\ row = "none"
        /\ Admits(t, "answered", 404) /\ UNCHANGED remotes
     \/ /\ \/ row = "done" /\ call.verb # "abort"
           \/ row = "aborted" /\ call.verb = "abort"
        /\ Admits(t, "answered", 200) /\ UNCHANGED remotes
     \/ /\ \/ row = "aborted" /\ call.verb # "abort"
           \/ row \in {"done", "switched"} /\ call.verb = "abort"
           \/ row = "none" /\ call.verb = "start" /\ ~MayOpen(call.op)
        /\ Admits(t, "answered", 409) /\ UNCHANGED remotes
  /\ UNCHANGED <<trust, intents, latestOp, terminal, claims, driverRuns>>

(* How far an operation can get: Nextcloud commits, WeKnora follows, and an answer may be
   lost after every write. A rotation takes two exchanges. *)
PairPath == << <<"pending", "pending">>, <<"done", "pending">>, <<"done", "done">> >>
RotationPath ==
  << <<"pending", "pending">>, <<"committed", "pending">>, <<"committed", "switched">>,
     <<"done", "switched">>, <<"done", "done">> >>
Path == IF Pairing THEN PairPath ELSE RotationPath
Exchanged(t, op, states) ==
  /\ intents' = [intents EXCEPT ![op] = states[1]]
  /\ remotes' = [remotes EXCEPT ![op] = states[2]]
  /\ Admits(t, "answered", IF states[2] = "done" THEN 200 ELSE 202)
KnoraCommits(t) ==
  LET call == serving[t] op == call.op IN
  /\ call.stage = "exchange" /\ call.verb # "abort"
  /\ \/ \E from, to \in 1..Len(Path) :
          /\ from <= to /\ Path[from] = <<intents[op], remotes[op]>>
          /\ Exchanged(t, op, Path[to])
     \/ /\ \A i \in 1..Len(Path) : Path[i] # <<intents[op], remotes[op]>>
        /\ Admits(t, "answered", 409) /\ UNCHANGED <<intents, remotes>>
  /\ UNCHANGED <<trust, latestOp, terminal, claims, driverRuns>>
KnoraAborts(t) ==
  LET call == serving[t] op == call.op IN
  /\ call.stage = "exchange" /\ call.verb = "abort"
  /\ \/ /\ intents[op] \in {"pending", "aborted"}
        /\ intents' \in {intents, [intents EXCEPT ![op] = "aborted"]}
        /\ \/ Admits(t, "answered", 202) /\ UNCHANGED remotes
           \/ /\ intents'[op] = "aborted" /\ remotes[op] = "pending"
              /\ remotes' = [remotes EXCEPT ![op] = "aborted"]
              /\ Admits(t, "answered", 200)
     \/ /\ intents[op] \in {"committed", "done"}
        /\ Admits(t, "answered", 409) /\ UNCHANGED <<intents, remotes>>
  /\ UNCHANGED <<trust, latestOp, terminal, claims, driverRuns>>
(* A driver that stopped waiting leaves its request behind. *)
Forgotten(t) ==
  /\ DriverAt(t, "idle") /\ serving[t].stage = "answered"
  /\ serving' = [serving EXCEPT ![t] = NoCall]
  /\ UNCHANGED <<trust, intents, latestOp, remotes, terminal, claims, driverRuns>>

----------------------------------------------------------------------------
(* A command: both logins work, or it ends here; the tenant is the login's own. *)
GiveCommand(t) ==
  /\ DriverAt(t, "idle") /\ serving[t] = NoCall /\ driverRuns < MaxDriverRuns
  /\ \E op \in DriverOps, a \in {"open", "retry", "abort", "status"} :
       terminal' = [terminal EXCEPT ![t] =
         [NoDriver EXCEPT !.op = op, !.action = a,
            !.pc = CASE a = "open" -> "prepare" [] a = "status" -> "cloud" [] OTHER -> a]]
  /\ driverRuns' = driverRuns + 1
  /\ UNCHANGED <<trust, intents, latestOp, remotes, serving, claims>>
(* An HTTP error, a lost answer or a closed terminal; a token it holds is gone with it. *)
DriverDies(t) ==
  /\ ~DriverAt(t, "idle")
  /\ Exits(t)
  /\ UNCHANGED <<trust, intents, latestOp, remotes, serving, claims, driverRuns>>

Sends(t, verb) ==
  /\ serving[t] = NoCall
  /\ serving' = [serving EXCEPT ![t] = [NoCall EXCEPT !.stage = "sent", !.verb = verb,
                                          !.op = terminal[t].op]]
Receives(t) == serving[t].stage = "answered" /\ serving' = [serving EXCEPT ![t] = NoCall]
Code(t) == serving[t].code

----------------------------------------------------------------------------
(* open: Nextcloud prepares the operation and shows its token once. *)
NothingLive(op) ==
  /\ intents[op] = "none"
  /\ \A q \in DriverOps : intents[q] \notin
       {"pending", "committed"} \cup (IF Pairing THEN {"done"} ELSE {})
Prepared(t) ==
  LET op == terminal[t].op IN
  \/ /\ NothingLive(op)
     /\ intents' = [intents EXCEPT ![op] = "pending"] /\ latestOp' = op
     /\ terminal' = [terminal EXCEPT ![t] = [@ EXCEPT !.pc = "start", !.token = TRUE]]
  \/ /\ Opened(op)
     /\ Moves(t, "retry") /\ UNCHANGED <<intents, latestOp>>
  \/ /\ ~NothingLive(op) /\ ~Opened(op)
     /\ Exits(t) /\ UNCHANGED <<intents, latestOp>>
PreparePairing(t) ==
  /\ Pairing /\ DriverAt(t, "prepare")
  /\ Prepared(t)
  /\ UNCHANGED <<trust, remotes, serving, claims, driverRuns>>
PrepareKeyRotation(t) ==
  /\ ~Pairing /\ DriverAt(t, "prepare")
  /\ Prepared(t)
  /\ UNCHANGED <<trust, remotes, serving, claims, driverRuns>>
SendToken(t) ==
  /\ DriverAt(t, "start") /\ terminal[t].token
  /\ Sends(t, "start")
  /\ terminal' = [terminal EXCEPT ![t] = [@ EXCEPT !.pc = "opened", !.token = FALSE]]
  /\ UNCHANGED <<trust, intents, latestOp, remotes, claims, driverRuns>>
SendRetry(t) ==
  /\ DriverAt(t, "retry")
  /\ Sends(t, "retry") /\ Moves(t, "opened")
  /\ UNCHANGED <<trust, intents, latestOp, remotes, claims, driverRuns>>
(* 404: the one-time token never reached WeKnora; only an abort helps. *)
OpenAnswered(t) ==
  /\ DriverAt(t, "opened") /\ Receives(t)
  /\ IF Code(t) \in {200, 202} THEN Moves(t, "cloud") ELSE Exits(t)
  /\ UNCHANGED <<trust, intents, latestOp, remotes, claims, driverRuns>>

----------------------------------------------------------------------------
(* abort *)
SendAbort(t) ==
  /\ DriverAt(t, "abort")
  /\ Sends(t, "abort") /\ Moves(t, "aborted")
  /\ UNCHANGED <<trust, intents, latestOp, remotes, claims, driverRuns>>
AbortAnswered(t) ==
  /\ DriverAt(t, "aborted") /\ Receives(t)
  /\ \/ Code(t) = 404 /\ Moves(t, "cloud_abort")
     \/ Code(t) = 200 /\ Moves(t, "cloud")
     \/ Code(t) \in {202, 409} /\ Exits(t)
  /\ UNCHANGED <<trust, intents, latestOp, remotes, claims, driverRuns>>
Claims(t, what) == claims' = claims \cup {<<what, terminal[t].op>>}
CloudCloses(op) ==
  /\ intents[op] \in {"pending", "aborted"}
  /\ intents' = [intents EXCEPT ![op] = "aborted"]
CloudRefuses(t) ==
  /\ intents[terminal[t].op] \notin {"pending", "aborted"}
  /\ Exits(t) /\ UNCHANGED <<intents, claims>>
AbortPairingUnread(t) ==  \* mutant: Nextcloud's answer is not looked at
  /\ Pairing /\ DriverAt(t, "cloud_abort")
  /\ \/ CloudCloses(terminal[t].op) /\ Claims(t, "aborted") /\ Exits(t)
     \/ Claims(t, "aborted") /\ Exits(t) /\ UNCHANGED intents
  /\ UNCHANGED <<trust, latestOp, remotes, serving, driverRuns>>
(* A pairing WeKnora never stored: Nextcloud's acknowledgement is the whole report. *)
AbortPairingAlone(t) ==
  /\ Pairing /\ DriverAt(t, "cloud_abort")
  /\ \/ CloudCloses(terminal[t].op) /\ Claims(t, "aborted") /\ Exits(t)
     \/ CloudRefuses(t)
  /\ UNCHANGED <<trust, latestOp, remotes, serving, driverRuns>>
AbortRotationAlone(t) ==
  /\ ~Pairing /\ DriverAt(t, "cloud_abort")
  /\ \/ CloudCloses(terminal[t].op) /\ Moves(t, "cloud") /\ UNCHANGED claims
     \/ CloudRefuses(t)
  /\ UNCHANGED <<trust, latestOp, remotes, serving, driverRuns>>
(* Nextcloud shows its newest intent; behind a later one, WeKnora's tombstone is the proof. *)
PairingAbortShown(t) ==
  /\ Pairing /\ DriverAt(t, "cloud") /\ terminal[t].action = "abort"
  /\ IF latestOp # terminal[t].op \/ intents[latestOp] = "aborted"
     THEN Claims(t, "aborted") ELSE UNCHANGED claims
  /\ Exits(t)
  /\ UNCHANGED <<trust, intents, latestOp, remotes, serving, driverRuns>>

----------------------------------------------------------------------------
(* The two statuses, one after the other, and what is said of them. *)
CloudShown(t) ==
  /\ DriverAt(t, "cloud") /\ ~(Pairing /\ terminal[t].action = "abort")
  /\ IF latestOp = terminal[t].op
     THEN terminal' = [terminal EXCEPT ![t] = [@ EXCEPT !.pc = "knora", !.seen = intents[latestOp]]]
     ELSE Exits(t)
  /\ UNCHANGED <<trust, intents, latestOp, remotes, serving, claims, driverRuns>>
PairingShown(t) ==
  /\ Pairing /\ DriverAt(t, "knora")
  /\ IF terminal[t].seen = "done" /\ remotes[terminal[t].op] = "done"
     THEN Claims(t, "established") ELSE UNCHANGED claims
  /\ Exits(t)
  /\ UNCHANGED <<trust, intents, latestOp, remotes, serving, driverRuns>>
RotationShown(t) ==
  /\ ~Pairing /\ DriverAt(t, "knora")
  /\ LET row == remotes[terminal[t].op] seen == terminal[t].seen IN
       CASE terminal[t].action = "abort" /\ seen = "aborted" /\ row \in {"aborted", "none"} ->
              Claims(t, "aborted")
         [] terminal[t].action # "abort" /\ seen = "done" /\ row = "done" ->
              Claims(t, "established")
         [] OTHER -> UNCHANGED claims
  /\ Exits(t)
  /\ UNCHANGED <<trust, intents, latestOp, remotes, serving, driverRuns>>

DriverStep ==
  \E t \in Terminals :
    \/ KnoraAdmits(t) \/ KnoraCommits(t) \/ KnoraAborts(t) \/ Forgotten(t)
    \/ GiveCommand(t) \/ DriverDies(t)
    \/ PreparePairing(t) \/ PrepareKeyRotation(t) \/ SendToken(t) \/ SendRetry(t) \/ OpenAnswered(t)
    \/ SendAbort(t) \/ AbortAnswered(t) \/ AbortPairingAlone(t) \/ AbortRotationAlone(t)
    \/ PairingAbortShown(t) \/ CloudShown(t) \/ PairingShown(t) \/ RotationShown(t)

----------------------------------------------------------------------------
(* What a driver reported before it exited with success stays so whatever another driver,
   which may still hold the operation's token, does afterwards: an aborted operation never
   becomes a source, an established one is done on both services. *)
ClaimsHold ==
  \A op \in DriverOps :
    /\ <<"aborted", op>> \in claims => intents[op] = "aborted" /\ remotes[op] \notin {"switched", "done"}
    /\ <<"established", op>> \in claims => intents[op] = "done" /\ remotes[op] = "done"
=============================================================================
