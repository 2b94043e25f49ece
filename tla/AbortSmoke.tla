----------------------------- MODULE AbortSmoke -----------------------------
(* The drill of pending-pair aborts, local-source-pairing-abort-smoke.py, with the relay of
   local-source-pairing-relay.py between WeKnora and Nextcloud. It makes a folder, a binding
   and a knowledge base, runs three operations on them, and cleans up after whatever happened
   - but a binding whose key WeKnora still needs to close an operation must stay. *)
EXTENDS Integers, Sequences

CONSTANT MaxSmokeFaults   \* bound: failed requests, lost answers, a relay that dies

VARIABLES
  fixtureParts,  \* folder, binding and knowledge base that exist
  cloudOps,      \* Nextcloud's row per operation
  newestOp,      \* the operation Nextcloud shows
  knoraOps,      \* WeKnora's row per operation
  relay,         \* "absent", "ready", or "blocked" once it rejected the commit
  smoke,         \* the drill
  smokeFaults

smokeVars == <<fixtureParts, cloudOps, newestOp, knoraOps, relay, smoke, smokeFaults>>

SmokeOps == {"lost", "unfinished", "activated"}
AllSmokeOps == SmokeOps \cup {"foreign"}
NothingYet == [o \in AllSmokeOps |-> "none"]
NoSmoke == [pc |-> "idle", owned |-> {}, operations |-> <<>>, todo |-> <<>>, tries |-> 0,
            safe |-> TRUE, failed |-> FALSE, passed |-> FALSE]

SmokeInit ==
  /\ fixtureParts = {} /\ cloudOps = NothingYet /\ newestOp = "none"
  /\ knoraOps = NothingYet /\ relay = "absent"
  /\ smoke = NoSmoke /\ smokeFaults = 0

SmokeAt(pc) == smoke.pc = pc
SmokeGoto(pc) == smoke' = [smoke EXCEPT !.pc = pc]
SmokeFault == smokeFaults < MaxSmokeFaults /\ smokeFaults' = smokeFaults + 1

----------------------------------------------------------------------------
(* Two disposable stacks, the right ones, with the relay's origin approved *)
CheckStacks ==
  /\ SmokeAt("idle") /\ SmokeGoto("folder")
  /\ UNCHANGED <<fixtureParts, cloudOps, newestOp, knoraOps, relay, smokeFaults>>
Create(part, next) ==
  /\ SmokeAt(part) /\ fixtureParts' = fixtureParts \cup {part}
  /\ \/ smoke' = [smoke EXCEPT !.owned = @ \cup {part}, !.pc = next] /\ UNCHANGED smokeFaults
     \/ SmokeFault /\ SmokeGoto("cleanup")              \* the answer is lost, or wrong
  /\ UNCHANGED <<cloudOps, newestOp, knoraOps, relay>>
CreateFolder == Create("folder", "binding")
SmokeBinding == Create("binding", "base")
CreateKnowledgeBase == Create("base", "lost")

NoneLive == \A o \in AllSmokeOps : cloudOps[o] \notin {"pending", "active"}
PrepareSmoke(op, next) ==
  /\ SmokeAt(op)
  /\ \/ /\ NoneLive
        /\ cloudOps' = [cloudOps EXCEPT ![op] = "pending"] /\ newestOp' = op
        /\ \/ /\ smoke' = [smoke EXCEPT !.operations = Append(@, op), !.pc = next]
              /\ UNCHANGED smokeFaults
           \/ SmokeFault /\ SmokeGoto("cleanup")
     \/ /\ ~NoneLive /\ SmokeGoto("cleanup")
        /\ UNCHANGED <<cloudOps, newestOp, smokeFaults>>
  /\ UNCHANGED <<fixtureParts, knoraOps, relay>>

(* The key is lost: WeKnora knows nothing of the operation, Nextcloud closes it alone. *)
PrepareLost == PrepareSmoke("lost", "abort_lost")
AbortLost ==
  /\ SmokeAt("abort_lost") /\ knoraOps["lost"] = "none"
  /\ cloudOps' = [cloudOps EXCEPT !["lost"] = "aborted"]
  /\ SmokeGoto("relay")
  /\ UNCHANGED <<fixtureParts, newestOp, knoraOps, relay, smokeFaults>>

(* The relay rejects one commit, so the operation stays pending on both sides. *)
StartRelay ==
  /\ SmokeAt("relay") /\ relay = "absent"
  /\ relay' = "ready" /\ SmokeGoto("unfinished")
  /\ UNCHANGED <<fixtureParts, cloudOps, newestOp, knoraOps, smokeFaults>>
PrepareUnfinished == PrepareSmoke("unfinished", "pair")
RelayRejectsCommit == relay = "ready" /\ relay' = "blocked"
RelayForwards == relay \in {"ready", "blocked"}
PairUnfinished ==
  /\ SmokeAt("pair")
  /\ knoraOps' = [knoraOps EXCEPT !["unfinished"] = "pending"]
  /\ \/ RelayRejectsCommit /\ SmokeGoto("abort") /\ UNCHANGED smokeFaults
     \/ relay = "absent" /\ SmokeGoto("cleanup") /\ UNCHANGED <<relay, smokeFaults>>
  /\ UNCHANGED <<fixtureParts, cloudOps, newestOp>>
(* WeKnora's abort goes through the relay, too. *)
KnoraAborted(op) ==
  /\ RelayForwards /\ knoraOps[op] = "pending" /\ cloudOps[op] # "active"
  /\ cloudOps' = [cloudOps EXCEPT ![op] = "aborted"]
  /\ knoraOps' = [knoraOps EXCEPT ![op] = "aborted"]
AbortUnfinished ==
  /\ SmokeAt("abort")
  /\ \/ KnoraAborted("unfinished") /\ SmokeGoto("activated")
     \/ ~RelayForwards /\ SmokeGoto("cleanup") /\ UNCHANGED <<cloudOps, knoraOps>>
  /\ UNCHANGED <<fixtureParts, newestOp, relay, smokeFaults>>

(* An operation that Nextcloud has committed cannot be aborted from either side. *)
PrepareActivated == PrepareSmoke("activated", "commit")
CommitActivated ==
  /\ SmokeAt("commit")
  /\ cloudOps' = [cloudOps EXCEPT !["activated"] = "active"]
  /\ SmokeGoto("refused")
  /\ UNCHANGED <<fixtureParts, newestOp, knoraOps, relay, smokeFaults>>
AbortsRefused ==
  /\ SmokeAt("refused") /\ cloudOps["activated"] = "active"
  /\ smoke' = [smoke EXCEPT !.passed = TRUE, !.pc = "cleanup"]
  /\ UNCHANGED <<fixtureParts, cloudOps, newestOp, knoraOps, relay, smokeFaults>>

----------------------------------------------------------------------------
(* Whatever else happens: a request fails, the relay dies, somebody uses the binding. *)
DrillStages ==
  SmokeOps \cup {"folder", "binding", "base", "abort_lost", "relay", "pair", "abort", "commit", "refused"}
RequestFails ==
  /\ SmokeFault /\ smoke.pc \in DrillStages
  /\ SmokeGoto("cleanup")
  /\ UNCHANGED <<fixtureParts, cloudOps, newestOp, knoraOps, relay>>
RelayDies ==
  /\ SmokeFault /\ relay # "absent" /\ relay' = "absent"
  /\ UNCHANGED <<fixtureParts, cloudOps, newestOp, knoraOps, smoke>>
ForeignIntent ==
  /\ SmokeFault /\ "binding" \in fixtureParts /\ NoneLive /\ cloudOps["foreign"] = "none"
  /\ cloudOps' = [cloudOps EXCEPT !["foreign"] = "pending"] /\ newestOp' = "foreign"
  /\ knoraOps' \in {knoraOps, [knoraOps EXCEPT !["foreign"] = "pending"]}
  /\ UNCHANGED <<fixtureParts, relay, smoke>>

----------------------------------------------------------------------------
(* finally: close what was opened here, newest first, and stop at the first doubt. *)
Reversed(ops) == [i \in 1..Len(ops) |-> ops[Len(ops) + 1 - i]]
BeginCleanup ==
  /\ SmokeAt("cleanup")
  /\ smoke' = [smoke EXCEPT !.todo = IF "binding" \in smoke.owned THEN Reversed(smoke.operations) ELSE <<>>,
                            !.pc = IF "binding" \in smoke.owned THEN "close" ELSE "unrelay"]
  /\ UNCHANGED <<fixtureParts, cloudOps, newestOp, knoraOps, relay, smokeFaults>>
Doubt == smoke' = [smoke EXCEPT !.safe = FALSE, !.pc = "unrelay"]
(* WeKnora's row of the next operation; a pending one is aborted in at most three tries. *)
CloseKnora ==
  /\ SmokeAt("close") /\ smoke.todo # <<>>
  /\ LET op == Head(smoke.todo) IN
       \/ /\ knoraOps[op] \in {"none", "aborted"}
          /\ smoke' = [smoke EXCEPT !.pc = "close_cloud", !.tries = 0]
          /\ UNCHANGED <<cloudOps, knoraOps>>
       \/ /\ knoraOps[op] = "active" /\ Doubt /\ UNCHANGED <<cloudOps, knoraOps>>
       \/ /\ KnoraAborted(op)
          /\ smoke' = [smoke EXCEPT !.pc = "close_cloud", !.tries = 0]
       \/ /\ knoraOps[op] = "pending" /\ ~RelayForwards
          /\ IF smoke.tries < 2 THEN smoke' = [smoke EXCEPT !.tries = @ + 1] ELSE Doubt
          /\ UNCHANGED <<cloudOps, knoraOps>>
  /\ UNCHANGED <<fixtureParts, newestOp, relay, smokeFaults>>
(* Nextcloud's newest intent, if it is this operation *)
CloseCloud ==
  /\ SmokeAt("close_cloud")
  /\ LET op == Head(smoke.todo) IN
       IF newestOp = op /\ cloudOps[op] = "pending"
       THEN cloudOps' = [cloudOps EXCEPT ![op] = "aborted"] ELSE UNCHANGED cloudOps
  /\ smoke' = [smoke EXCEPT !.todo = Tail(@), !.pc = "close"]
  /\ UNCHANGED <<fixtureParts, newestOp, knoraOps, relay, smokeFaults>>
(* A newer intent of somebody else keeps the fixture. *)
LookForForeign ==
  /\ SmokeAt("close") /\ smoke.todo = <<>>
  /\ IF newestOp \in {smoke.operations[i] : i \in 1..Len(smoke.operations)} \cup {"none"}
     THEN SmokeGoto("unrelay") ELSE Doubt
  /\ UNCHANGED <<fixtureParts, cloudOps, newestOp, knoraOps, relay, smokeFaults>>
CleanupRequestFails ==
  /\ SmokeFault /\ smoke.pc \in {"close", "close_cloud"}
  /\ smoke' = [smoke EXCEPT !.safe = FALSE, !.failed = TRUE, !.pc = "unrelay"]
  /\ UNCHANGED <<fixtureParts, cloudOps, newestOp, knoraOps, relay>>

(* The relay goes in any case; what cannot be removed is said to be left. *)
RemoveRelay ==
  /\ SmokeAt("unrelay")
  /\ \/ relay' = "absent" /\ SmokeGoto("unbind") /\ UNCHANGED smokeFaults
     \/ /\ SmokeFault /\ UNCHANGED relay
        /\ smoke' = [smoke EXCEPT !.failed = TRUE, !.pc = "unbind"]
  /\ UNCHANGED <<fixtureParts, cloudOps, newestOp, knoraOps>>
(* Nextcloud refuses to remove a binding that ever had a pairing row. *)
EverPaired == \E o \in AllSmokeOps : cloudOps[o] # "none"
RemoveBinding ==
  /\ SmokeAt("unbind")
  /\ \/ /\ "binding" \in smoke.owned /\ smoke.safe /\ ~EverPaired
        /\ fixtureParts' = fixtureParts \ {"binding"}
        /\ smoke' = [smoke EXCEPT !.owned = @ \ {"binding"}, !.pc = "rest"]
     \/ /\ "binding" \in smoke.owned /\ smoke.safe /\ EverPaired
        /\ smoke' = [smoke EXCEPT !.failed = TRUE, !.pc = "rest"] /\ UNCHANGED fixtureParts
     \/ /\ ~("binding" \in smoke.owned /\ smoke.safe)
        /\ SmokeGoto("rest") /\ UNCHANGED fixtureParts
  /\ UNCHANGED <<cloudOps, newestOp, knoraOps, relay, smokeFaults>>
Removable == IF "binding" \in smoke.owned THEN {} ELSE smoke.owned
RemoveRest ==
  /\ SmokeAt("rest")
  /\ \E left \in SUBSET Removable :
       /\ fixtureParts' = fixtureParts \ (Removable \ left)
       /\ IF left = {} THEN UNCHANGED smokeFaults ELSE SmokeFault
       /\ smoke' = [smoke EXCEPT !.owned = (@ \ Removable) \cup left, !.pc = "ended",
                                 !.failed = @ \/ left # {}]
  /\ UNCHANGED <<cloudOps, newestOp, knoraOps, relay>>

SmokeStep ==
  \/ CheckStacks \/ CreateFolder \/ SmokeBinding \/ CreateKnowledgeBase
  \/ PrepareLost \/ AbortLost \/ StartRelay \/ PrepareUnfinished \/ PairUnfinished
  \/ AbortUnfinished \/ PrepareActivated \/ CommitActivated \/ AbortsRefused
  \/ RequestFails \/ RelayDies \/ ForeignIntent
  \/ BeginCleanup \/ CloseKnora \/ CloseCloud \/ LookForForeign \/ CleanupRequestFails
  \/ RemoveRelay \/ RemoveBinding \/ RemoveRest

----------------------------------------------------------------------------
(* While WeKnora holds a pending operation, the binding whose key closes it and the folder and
   knowledge base behind it stay, through every failure of the drill and of its cleanup; so
   does the binding of an operation that somebody else began on it. *)
PendingKeepsFixture ==
  /\ (\E o \in SmokeOps : knoraOps[o] = "pending") => fixtureParts = {"folder", "binding", "base"}
  /\ knoraOps["foreign"] = "pending" => "binding" \in fixtureParts
=============================================================================
