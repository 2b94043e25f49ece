--------------------------- MODULE ResourceWatch ---------------------------
(* The read-only resource watch of a running fixture: synthetic-ldap-resource-watch.py.  It
   samples the application's container between two inventories of the fixture, while the
   fixture's own tools create and remove containers under it. *)
EXTENDS Integers, FiniteSets

CONSTANTS
  MaxContainers,   \* bound: containers ever created under the project's name
  Rescans          \* OWNER_RESCAN_ATTEMPTS

ASSUME WatchAssumption == Rescans \in Nat \ {0} /\ MaxContainers \in Nat

VARIABLES
  daemon,     \* name -> [id, ours]; id 0 for a name that does not exist
  made,       \* the containers created so far: who owns each id
  marker,     \* who resource-watch.json in the fixture's directory belongs to
  rival,      \* a second run of the watch holds the fixture
  watch       \* the watch

watchVars == <<daemon, made, marker, rival, watch>>

(* expected_resource_name: the application's container and the one-off reader of a task. *)
Expected == {"app", "oneOff"}
ProjectNames == Expected \cup {"stranger"}
NoContainer == [id |-> 0, ours |-> TRUE]
Exists(n) == daemon[n].id # 0
OnDaemon == {n \in ProjectNames : Exists(n)}
Labelled == {n \in OnDaemon : daemon[n].ours}

WatchInit ==
  /\ daemon = [n \in ProjectNames |-> NoContainer]
  /\ made = [i \in 1..MaxContainers |-> TRUE]
  /\ marker = "none" /\ rival = FALSE
  /\ watch = [pc |-> "idle", stage |-> "first", ids |-> 0, listed |-> {}, pending |-> {}, rescans |-> 0, seen |-> 0,
              samples |-> {}, terminal |-> "none", next |-> 1]

WatchAt(pc) == watch.pc = pc
OnlyWatch == UNCHANGED <<daemon, made, marker, rival>>
(* Observer.run: the first failure ends the watch; before the marker exists it is refused. *)
Refuse == IF marker = "own" THEN "end" ELSE "ended"
WatchFails == watch' = [watch EXCEPT !.pc = Refuse, !.terminal = "failed"]

----------------------------------------------------------------------------
(* verify: assert_owned_resources lists the labelled names, then the prefixed ones, and
   inspects each; what vanishes in between is settled by a snapshot, a few times. *)
BeginVerify(stage) ==
  [watch EXCEPT !.pc = "list", !.stage = stage, !.listed = {}, !.pending = {}, !.rescans = 0]
Passed == [first |-> "mark", before |-> "target", after |-> "sample"][watch.stage]
StartWatch ==
  /\ WatchAt("idle")
  /\ watch' = BeginVerify("first")
  /\ OnlyWatch

ListLabelled ==
  /\ WatchAt("list")
  /\ watch' = [watch EXCEPT !.pc = "prefix", !.listed = Labelled]
  /\ OnlyWatch
ListPrefixed ==
  /\ WatchAt("prefix")
  /\ LET mismatch == OnDaemon \ watch.listed IN
       IF mismatch = {} THEN watch' = [watch EXCEPT !.pc = "inspect"]
       ELSE IF mismatch \subseteq Expected
            THEN watch' = [watch EXCEPT !.pc = "settle", !.pending = mismatch]
            ELSE WatchFails
  /\ OnlyWatch
(* A container that was captured may not be missing, whichever read misses it. *)
Captured(n) == n = "app" /\ watch.ids # 0
InspectListed ==
  /\ WatchAt("inspect")
  /\ \/ \E n \in watch.listed :                       \* the names before n were all right
          /\ ~Exists(n)
          /\ IF Captured(n) THEN WatchFails
             ELSE watch' = [watch EXCEPT !.pc = "settle", !.pending = {n}]
     \/ /\ \E n \in watch.listed : Exists(n) /\ ~daemon[n].ours
        /\ WatchFails
     \/ /\ \A n \in watch.listed : Exists(n) /\ daemon[n].ours
        /\ watch' = [watch EXCEPT !.pc = IF watch.pending = {} THEN Passed
                                         ELSE "snapshot"]
  /\ OnlyWatch

(* validate_current_owner_snapshot: everything there now is inspected, captured identity
   included; names the raced inventory saw may be gone. *)
SnapshotRefused ==
  \/ ~(OnDaemon \subseteq Expected)
  \/ \E n \in OnDaemon : ~daemon[n].ours \/ (Captured(n) /\ daemon[n].id # watch.ids)
  \/ \E n \in watch.pending : Captured(n) /\ ~Exists(n)
SettleSnapshot ==
  /\ WatchAt("settle")
  /\ IF SnapshotRefused \/ watch.rescans + 1 = Rescans THEN WatchFails
     ELSE watch' = [watch EXCEPT !.pc = "list", !.rescans = @ + 1]
  /\ OnlyWatch
(* The inventory passed after a race: the snapshot is taken once more, and must not lose a
   name it has just listed. *)
ConfirmSnapshot ==
  /\ WatchAt("snapshot")
  /\ \/ ~SnapshotRefused /\ watch' = [watch EXCEPT !.pc = Passed]
     \/ SnapshotRefused /\ WatchFails
     \/ /\ watch.rescans + 1 < Rescans                \* a listed name vanished meanwhile
        /\ watch' = [watch EXCEPT !.pc = "list", !.rescans = @ + 1]
     \/ watch.rescans + 1 = Rescans /\ WatchFails
  /\ OnlyWatch

----------------------------------------------------------------------------
(* The exclusive marker, and the loop: verify, inspect and read the container, verify again,
   write the sample. *)
TakeMarker ==
  /\ WatchAt("mark")
  /\ \/ marker = "none" /\ marker' = "own" /\ watch' = [watch EXCEPT !.pc = "loop"]
     \/ marker # "none" /\ UNCHANGED marker
        /\ watch' = [watch EXCEPT !.pc = "ended", !.terminal = "failed"]
  /\ UNCHANGED <<daemon, made, rival>>
BeginSample ==
  /\ WatchAt("loop")
  /\ watch' = BeginVerify("before")
  /\ OnlyWatch
(* container, validate_container: absent before the first capture only. *)
InspectTarget ==
  /\ WatchAt("target")
  /\ \/ ~Exists("app") /\ watch.ids = 0
        /\ watch' = [BeginVerify("after") EXCEPT !.seen = 0]
     \/ ~Exists("app") /\ watch.ids # 0 /\ WatchFails
     \/ Exists("app") /\ daemon["app"].ours /\ watch.ids \in {0, daemon["app"].id}
        /\ watch' = [watch EXCEPT !.pc = "read", !.ids = daemon["app"].id]
     \/ Exists("app") /\ ~(daemon["app"].ours /\ watch.ids \in {0, daemon["app"].id})
        /\ WatchFails
  /\ OnlyWatch
(* docker stats and the process probe address the captured id, not the name. *)
ReadContainer ==
  /\ WatchAt("read")
  /\ IF daemon["app"].id = watch.ids
     THEN watch' = [BeginVerify("after") EXCEPT !.seen = watch.ids]
     ELSE WatchFails
  /\ OnlyWatch
WriteSample ==
  /\ WatchAt("sample")
  /\ watch' = [watch EXCEPT !.pc = "loop", !.samples = @ \cup ({watch.seen} \ {0})]
  /\ OnlyWatch
(* Duration, a signal or the application's exit. *)
LoopEnds ==
  /\ WatchAt("loop")
  /\ watch' = [watch EXCEPT !.pc = "end", !.terminal = "done"]
  /\ OnlyWatch
(* remove_own_marker: only the file this run created, unchanged. *)
EndWatch ==
  /\ WatchAt("end")
  /\ marker' = IF marker = "own" THEN "none" ELSE marker
  /\ watch' = [watch EXCEPT !.pc = "ended"]
  /\ UNCHANGED <<daemon, made, rival>>
WatchKilled ==
  /\ watch.pc \notin {"idle", "ended"}
  /\ watch' = [watch EXCEPT !.pc = "ended"]
  /\ OnlyWatch

(* External: Compose creates and removes containers, someone else takes one of their names,
   an operator removes a marker, and another run of the watch comes and goes. *)
ContainerCreated ==
  /\ watch.next <= MaxContainers
  /\ \E n \in ProjectNames, ours \in BOOLEAN :
       /\ ~Exists(n) /\ (n = "stranger" => ~ours)
       /\ daemon' = [daemon EXCEPT ![n] = [id |-> watch.next, ours |-> ours]]
       /\ made' = [made EXCEPT ![watch.next] = ours]
  /\ watch' = [watch EXCEPT !.next = @ + 1]
  /\ UNCHANGED <<marker, rival>>
ContainerRemoved ==
  /\ \E n \in OnDaemon : daemon' = [daemon EXCEPT ![n] = NoContainer]
  /\ UNCHANGED <<made, marker, rival, watch>>
MarkerRemoved ==
  /\ marker = "own" /\ marker' = "none"
  /\ UNCHANGED <<daemon, made, rival, watch>>
RivalRuns ==
  /\ \/ ~rival /\ marker = "none" /\ marker' = "rival"
     \/ rival /\ marker' = IF marker = "rival" THEN "none" ELSE marker
  /\ rival' = ~rival
  /\ UNCHANGED <<daemon, made, watch>>

WatchStep ==
  \/ StartWatch \/ ListLabelled \/ ListPrefixed \/ InspectListed \/ SettleSnapshot
  \/ ConfirmSnapshot \/ TakeMarker \/ BeginSample \/ InspectTarget \/ ReadContainer
  \/ WriteSample \/ LoopEnds \/ EndWatch \/ WatchKilled \/ ContainerCreated
  \/ ContainerRemoved \/ MarkerRemoved \/ RivalRuns

----------------------------------------------------------------------------
(* Every sample of a watch is of one container, and that container is the fixture's,
   however often the name changes hands between the reads. *)
SampledOneOwnContainer ==
  Cardinality(watch.samples) <= 1 /\ \A i \in watch.samples : made[i]

(* A watch never removes the marker of another one: as long as a rival runs, its marker
   keeps a third run out. *)
RivalKeepsMarker == rival => marker = "rival"
=============================================================================
