------------------------- MODULE Publication_proofs -------------------------
(* Proofs about the dispatcher, the source versions and their publishers, for every
   number of sources, candidates, leases, runs and mishaps, whatever the drills and
   the users do. *)
EXTENDS PublicationDrills, FiniteSetTheorems, SequenceTheorems, TLAPS

Place == Sources \cup {"nowhere", "outside", "trash"}
ViewSet == [etag : Nat, path : Int]
FileSet == [at : Place, etag : Nat, path : Int]
VersionSet ==
  [state : {"none", "staging", "published", "tombstone"}, etag : Nat, cand : Nat,
   old : BOOLEAN]
RowSet ==
  [source : Sources, etag : Nat, path : Int, parse : {"pending", "completed", "failed"},
   shown : BOOLEAN, open : BOOLEAN, gone : BOOLEAN]
JobSet ==
  [state : {"none", "retry", "leased", "expired", "manual"}, etag : Nat, cand : Nat,
   attempts : Nat, lease : Nat]
Asking == {"ask", "commit", "confirm", "hide", "withdraw"}
PublishingSet ==
  [pc : Asking \cup {"none", "ok", "unready", "error"}, cand : Nat, etag : Nat, path : Int]
HintSet ==
  [kind : FileKinds \cup {"subtree_scan", "subtree_moved", "subtree_deleted"},
   view : ViewSet]
CursorSet == [changes : Nat, file : ViewSet, missing : BOOLEAN, tomb : BOOLEAN]
DispatchSet ==
  [state : {"idle", "leased", "queued", "retry"},
   phase : {"none", "claimed", "prepared", "sent", "lost"},
   target : Nat, dispatched : Nat, applied : Nat, confirm : Nat, log : RunIds \cup {0}]
RunSet ==
  [kind : {"event", "retry"}, src : Sources, pc : {"queued", "opening"} \cup Running,
   upto : Nat, audit : BOOLEAN, view : ViewSet, cand : Nat,
   claim : [etag : Nat, cand : Nat, lease : Nat]]

FlowTypes ==
  /\ outbox \in [Sources -> Seq(HintSet)] /\ received \in [Sources -> Nat]
  /\ cursor \in [Sources -> CursorSet] /\ disp \in [Sources -> DispatchSet]
  /\ outcome \in [Sources -> {"missing", "running", "success", "failed"}]
  /\ runs \in [RunIds -> RunSet \cup {NoRun}] /\ scanned \in [Sources -> 0..2]
  /\ trouble \in Nat

(* A version row names a candidate of its own source, and a published one is parsed. *)
VersionNames ==
  \A s \in Sources :
    IF version[s].state \in {"staging", "published"}
    THEN /\ version[s].cand \in DOMAIN rows /\ rows[version[s].cand].source = s
         /\ version[s].state = "published" => rows[version[s].cand].parse = "completed"
    ELSE version[s].cand = 0

IndexInv ==
  /\ version \in [Sources -> VersionSet] /\ rows \in Seq(RowSet)
  /\ VersionNames /\ ReadableIsCurrent

(* What a run or a publisher has at hand is a row, and the run's own source's. *)
RunHands ==
  \A r \in RunIds : runs[r].pc \in {"made", "publishing"} =>
    runs[r].cand \in DOMAIN rows /\ rows[runs[r].cand].source = runs[r].src
PublisherHands ==
  \A p \in Publishers : publishing[p].pc \in Asking => publishing[p].cand \in DOMAIN rows

Sound ==
  /\ IndexInv /\ RunHands /\ PublisherHands
  /\ file \in FileSet /\ embedding \in BOOLEAN
  /\ job \in [Sources -> JobSet] /\ publishing \in [Publishers -> PublishingSet]
  /\ FlowTypes

(* No row is lost, moved to another source, opened again or repaired. *)
RowsKept ==
  \A k \in DOMAIN rows :
    /\ k \in DOMAIN rows' /\ rows'[k].source = rows[k].source
    /\ rows'[k].open => rows[k].open
    /\ rows[k].parse = "failed" => rows'[k].parse = "failed"

(* No row says another version of its file than it did. *)
RowsSame ==
  \A k \in DOMAIN rows : rows'[k].etag = rows[k].etag /\ rows'[k].path = rows[k].path

(* A step that neither stages nor withdraws: each source keeps its candidate. *)
Named(s) == version[s].state \in {"staging", "published"}
Steady ==
  /\ RowsKept /\ RowsSame
  /\ \A s \in Sources : /\ version'[s].cand = version[s].cand
                        /\ version'[s].etag = version[s].etag
                        /\ Named(s)' = Named(s)

----------------------------------------------------------------------------
(* The range, the runs and the cursor *)

Last(s) == outbox[s][Len(outbox[s])]
(* The last hint of a folder says what the folder shows. *)
FileInv == \A s \in Sources : View(s) = IF outbox[s] = <<>> THEN Absent ELSE Last(s).view

(* A hint at n or later announced this view. *)
Since(s, n, v) == \E i \in 1..Len(outbox[s]) : n <= i /\ outbox[s][i].view = v

(* What has been applied, dispatched and received of a source *)
Ordered(s) ==
  /\ disp[s].applied <= disp[s].target /\ disp[s].target <= received[s]
  /\ received[s] <= Len(outbox[s]) /\ disp[s].confirm <= disp[s].target
OrderInv == \A s \in Sources : Ordered(s)

(* A dispatch is leased as long as a worker has it; before its task is submitted it has no
   run, and after its success it has none any more. *)
Phased(s) ==
  /\ disp[s].phase # "none" => disp[s].state = "leased"
  /\ disp[s].phase = "claimed" => disp[s].log = 0 /\ outcome[s] = "missing"
  /\ disp[s].phase = "prepared" =>
       disp[s].log # 0 /\ runs[disp[s].log] = NoRun /\ outcome[s] = "missing"
  /\ outcome[s] = "success" => disp[s].log # 0 /\ runs[disp[s].log] = NoRun
PhaseInv == \A s \in Sources : Phased(s)

(* A log names at most one event run, of the source whose range it is. *)
Logged(s) ==
  disp[s].log # 0 =>
    /\ runs[disp[s].log] # NoRun =>
         runs[disp[s].log].kind = "event" /\ runs[disp[s].log].src = s
    /\ \A t \in Sources : disp[t].log = disp[s].log => t = s
LogInv == \A s \in Sources : Logged(s)

(* Past its second check an event run is the only one of its source: the range names it,
   or has been claimed again and waits for it. *)
Working(r) == runs[r].kind = "event" /\ runs[r].pc \in Running \ {"opened"}
WorkInv ==
  \A r \in RunIds : Working(r) =>
    /\ disp[runs[r].src].log \in {r, 0}
    /\ \A q \in RunIds : Working(q) /\ runs[q].src = runs[r].src => q = r

(* The marker of a first scan is one of this very target. *)
Scanned(s) ==
  /\ outcome[s] = "success" => scanned[s] >= 1
  /\ disp[s].confirm = disp[s].target /\ disp[s].confirm # 0 =>
       /\ scanned[s] >= 1
       /\ disp[s].state \in {"leased", "queued"} /\ outcome[s] = "success" => scanned[s] = 2
ScanInv == \A s \in Sources : Scanned(s)

(* The hints a run has read go as far as "upto", and its view is no older. *)
Listed == Running \ {"opened"}
Reading(r) ==
  runs[r].pc \in Listed =>
    /\ runs[r].upto <= Len(outbox[runs[r].src])
    /\ runs[r].pc # "listed" /\ runs[r].view # Absent =>
         Since(runs[r].src, runs[r].upto, runs[r].view)
    /\ runs[r].pc = "made" => runs[r].view # Absent
    /\ runs[r].kind = "event" => disp[runs[r].src].applied <= runs[r].upto
RunInv == \A r \in RunIds : Reading(r)

(* The candidate a retry was claimed for stays failed; once replaced it is fenced for good,
   and until then nothing is applied. *)
Claiming(r) ==
  runs[r].kind = "retry" =>
    LET s == runs[r].src
        k == runs[r].claim.cand IN
    /\ k \in DOMAIN rows /\ rows[k].source = s /\ rows[k].parse = "failed"
    /\ version[s].cand = k \/ ~rows[k].open
    /\ version[s].cand = k /\ runs[r].pc \in Listed => disp[s].applied <= runs[r].upto
ClaimInv == \A r \in RunIds : Claiming(r)

CursorInv ==
  \A s \in Sources :
    ~cursor[s].missing /\ cursor[s].file # Absent => Since(s, cursor[s].changes, cursor[s].file)

(* The candidate of a source is of a version announced at the applied hint or later. *)
CandidateView(s) ==
  [etag |-> rows[version[s].cand].etag, path |-> rows[version[s].cand].path]
FreshInv ==
  \A s \in Sources : Named(s) => Since(s, disp[s].applied, CandidateView(s))

FlowInv ==
  /\ FileInv /\ OrderInv /\ PhaseInv /\ LogInv /\ WorkInv /\ ScanInv /\ RunInv
  /\ ClaimInv /\ CursorInv /\ FreshInv

HintsKept ==
  \A s \in Sources : /\ Len(outbox[s]) <= Len(outbox'[s])
                     /\ \A i \in 1..Len(outbox[s]) : outbox'[s][i] = outbox[s][i]

----------------------------------------------------------------------------
(* The rows *)

LEMMA RowsAre ==
  ASSUME NEW T, NEW q \in Seq(T)
  PROVE  /\ Len(q) \in Nat /\ DOMAIN q = 1..Len(q)
         /\ \A k \in DOMAIN q : q[k] \in T
  OBVIOUS

(* A function over the rows that yields rows is a sequence of rows. *)
LEMMA RowsMapped ==
  ASSUME NEW T, NEW q \in Seq(T), NEW g, DOMAIN g = DOMAIN q,
         g = [k \in DOMAIN q |-> g[k]], \A k \in DOMAIN q : g[k] \in T
  PROVE  g \in Seq(T)
<1>1. g \in [1..Len(q) -> T]
  OBVIOUS
<1> QED
  BY <1>1, SeqDef

(* All that hiding the rows of a source leaves of a row *)
Closed(row, new) ==
  /\ new.source = row.source /\ new.etag = row.etag /\ new.path = row.path
  /\ new.parse = row.parse /\ new.gone = row.gone /\ ~new.shown
  /\ new.open => row.open

LEMMA KeptRows ==
  ASSUME rows \in Seq(RowSet), NEW s \in Sources, NEW keep
  PROVE  /\ KeepOnly(s, keep) \in Seq(RowSet) /\ DOMAIN KeepOnly(s, keep) = DOMAIN rows
         /\ \A k \in DOMAIN rows :
              /\ rows[k].source # s => KeepOnly(s, keep)[k] = rows[k]
              /\ rows[k].source = s =>
                   /\ Closed(rows[k], KeepOnly(s, keep)[k])
                   /\ KeepOnly(s, keep)[k].open => k = keep
                   /\ k = keep => KeepOnly(s, keep)[k].open = rows[k].open
<1> DEFINE kept == KeepOnly(s, keep)
<1>1. \A k \in DOMAIN rows :
        /\ kept[k] \in RowSet
        /\ rows[k].source # s => kept[k] = rows[k]
        /\ rows[k].source = s => /\ Closed(rows[k], kept[k])
                                 /\ kept[k].open => k = keep
                                 /\ k = keep => kept[k].open = rows[k].open
  <2> SUFFICES ASSUME NEW k \in DOMAIN rows
               PROVE  /\ kept[k] \in RowSet
                      /\ rows[k].source # s => kept[k] = rows[k]
                      /\ rows[k].source = s => /\ Closed(rows[k], kept[k])
                                               /\ kept[k].open => k = keep
                                               /\ k = keep => kept[k].open = rows[k].open
    OBVIOUS
  <2>1. rows[k] \in RowSet
    BY RowsAre
  <2>2. CASE rows[k].source # s
    BY <2>1, <2>2 DEF KeepOnly
  <2>3. CASE rows[k].source = s
    <3> DEFINE b == rows[k].open /\ k = keep
    <3>1. kept[k] = [rows[k] EXCEPT !.shown = FALSE, !.open = b]
      BY <2>3 DEF KeepOnly
    <3>2. b \in BOOLEAN /\ (b => rows[k].open /\ k = keep) /\ (k = keep => b = rows[k].open)
      BY <2>1 DEF RowSet
    <3> HIDE DEF b, kept
    <3> QED
      BY <2>1, <2>3, <3>1, <3>2 DEF RowSet, Closed
  <2> QED
    BY <2>2, <2>3
<1>2. kept = [k \in DOMAIN rows |-> kept[k]] /\ DOMAIN kept = DOMAIN rows
  BY DEF KeepOnly
<1>3. kept \in Seq(RowSet)
  BY <1>1, <1>2, RowsMapped
<1> QED
  BY <1>1, <1>2, <1>3

LEMMA HiddenRows ==
  ASSUME rows \in Seq(RowSet), NEW s \in Sources
  PROVE  /\ Hidden(s) \in Seq(RowSet) /\ DOMAIN Hidden(s) = DOMAIN rows
         /\ \A k \in DOMAIN rows :
              /\ rows[k].source # s => Hidden(s)[k] = rows[k]
              /\ rows[k].source = s => Closed(rows[k], Hidden(s)[k])
<1>1. \A k \in DOMAIN rows :
        /\ Hidden(s)[k] \in RowSet
        /\ rows[k].source # s => Hidden(s)[k] = rows[k]
        /\ rows[k].source = s => Closed(rows[k], Hidden(s)[k])
  <2> SUFFICES ASSUME NEW k \in DOMAIN rows
               PROVE  /\ Hidden(s)[k] \in RowSet
                      /\ rows[k].source # s => Hidden(s)[k] = rows[k]
                      /\ rows[k].source = s => Closed(rows[k], Hidden(s)[k])
    OBVIOUS
  <2>1. rows[k] \in RowSet
    BY RowsAre
  <2> QED
    BY <2>1 DEF Hidden, Closed, RowSet
<1>2. Hidden(s) = [k \in DOMAIN rows |-> Hidden(s)[k]] /\ DOMAIN Hidden(s) = DOMAIN rows
  BY DEF Hidden
<1> QED
  BY <1>1, <1>2, RowsMapped

----------------------------------------------------------------------------
(* What can happen to the version rows and the knowledge rows *)

LEMMA RowTypes ==
  ASSUME IndexInv
  PROVE  \A k \in DOMAIN rows :
           rows[k] \in RowSet /\ rows[k].source \in Sources /\ k \in Nat \ {0}
<1>1. \A k \in DOMAIN rows : rows[k] \in RowSet /\ k \in Nat \ {0}
  BY RowsAre DEF IndexInv
<1> QED
  BY <1>1 DEF RowSet

LEMMA StageIndex ==
  ASSUME IndexInv, NEW s \in Sources, NEW v \in ViewSet, NEW k \in DOMAIN rows,
         rows[k].source = s, Stage(s, v, k)
  PROVE  /\ IndexInv' /\ RowsKept
         /\ version'[s].state = "staging" /\ version'[s].cand = k
         /\ version'[s].etag = v.etag
         /\ rows'[k].etag = v.etag /\ rows'[k].path = v.path
         /\ \A j \in DOMAIN rows : j # k =>
              /\ rows'[j].etag = rows[j].etag /\ rows'[j].path = rows[j].path
              /\ rows[j].source = s => ~rows'[j].open
         /\ \A t \in Sources : t # s => version'[t] = version[t]
<1> DEFINE kept == KeepOnly(s, k)
<1>1. rows' = [kept EXCEPT ![k].etag = v.etag, ![k].path = v.path]
  BY DEF Stage
<1>2. /\ kept \in Seq(RowSet) /\ DOMAIN kept = DOMAIN rows
      /\ \A j \in DOMAIN rows :
           /\ rows[j].source # s => kept[j] = rows[j]
           /\ rows[j].source = s => Closed(rows[j], kept[j]) /\ (kept[j].open => j = k)
  BY KeptRows DEF IndexInv
<1>3. kept[k] \in RowSet /\ k \in Nat
  <2>1. kept \in Seq(RowSet) /\ k \in DOMAIN kept
    BY <1>2
  <2> HIDE DEF kept
  <2> QED
    BY <2>1, RowsAre
<1>4. \A j \in DOMAIN rows : rows[j] \in RowSet
  BY RowsAre DEF IndexInv
<1> HIDE DEF kept
<1>5. /\ DOMAIN rows' = DOMAIN rows
      /\ rows'[k] = [kept[k] EXCEPT !.etag = v.etag, !.path = v.path]
      /\ \A j \in DOMAIN rows : j # k => rows'[j] = kept[j]
  BY <1>1, <1>2
<1>6. rows'[k] \in RowSet
  BY <1>3, <1>5 DEF RowSet, ViewSet
<1>7. rows' \in Seq(RowSet)
  <2>1. \A j \in DOMAIN rows' : rows'[j] \in RowSet
    BY <1>2, <1>5, <1>6, RowsAre
  <2>2. rows' = [j \in DOMAIN rows |-> rows'[j]]
    BY <1>1, <1>2
  <2> QED
    BY <1>5, <2>1, <2>2, RowsMapped DEF IndexInv
<1>8. version' = [version EXCEPT ![s] = [state |-> "staging", etag |-> v.etag, cand |-> k,
                    old |-> @.state = "staging" /\ @.etag = v.etag /\ @.old]]
  BY DEF Stage
<1>9. version' \in [Sources -> VersionSet]
  <2>1. (version[s].state = "staging" /\ version[s].etag = v.etag /\ version[s].old) \in BOOLEAN
    OBVIOUS
  <2> QED
    BY <1>3, <1>8, <2>1 DEF IndexInv, VersionSet, ViewSet
<1>10. /\ version'[s].state = "staging" /\ version'[s].cand = k /\ version'[s].etag = v.etag
       /\ \A t \in Sources : t # s => version'[t] = version[t]
  BY <1>8 DEF IndexInv
<1>11. \A j \in DOMAIN rows :
         /\ rows'[j].source = rows[j].source /\ rows'[j].parse = rows[j].parse
         /\ rows[j].source # s => rows'[j] = rows[j]
         /\ rows[j].source = s => ~rows'[j].shown /\ (j # k => ~rows'[j].open)
         /\ rows'[j].open => rows[j].open
  <2> TAKE j \in DOMAIN rows
  <2>1. rows[j] \in RowSet
    BY <1>4
  <2>2. CASE rows[j].source # s
    BY <1>2, <1>5, <2>2
  <2>3. CASE rows[j].source = s
    <3>2. Closed(rows[j], kept[j]) /\ (kept[j].open => j = k)
      BY <1>2, <2>3
    <3>3. /\ rows'[j].source = kept[j].source /\ rows'[j].parse = kept[j].parse
          /\ rows'[j].shown = kept[j].shown /\ rows'[j].open = kept[j].open
      BY <1>3, <1>5 DEF RowSet
    <3> QED
      BY <2>3, <3>2, <3>3 DEF Closed
  <2> QED
    BY <2>2, <2>3
<1>12. \A j \in DOMAIN rows : j # k => rows'[j].etag = rows[j].etag /\ rows'[j].path = rows[j].path
  <2> SUFFICES ASSUME NEW j \in DOMAIN rows, j # k
               PROVE  rows'[j].etag = rows[j].etag /\ rows'[j].path = rows[j].path
    OBVIOUS
  <2>1. rows'[j] = kept[j]
    BY <1>5
  <2>2. rows[j] \in RowSet
    BY <1>4
  <2>3. kept[j].etag = rows[j].etag /\ kept[j].path = rows[j].path
    BY <1>2, <2>2 DEF Closed
  <2> QED
    BY <2>1, <2>3
<1>13. rows'[k].etag = v.etag /\ rows'[k].path = v.path
  BY <1>3, <1>5 DEF RowSet
<1>14. VersionNames'
  BY <1>5, <1>10, <1>11 DEF IndexInv, VersionNames
<1>15. ReadableIsCurrent'
  BY <1>4, <1>5, <1>10, <1>11 DEF IndexInv, ReadableIsCurrent, RowSet
<1> QED
  BY <1>5, <1>7, <1>9, <1>10, <1>11, <1>12, <1>13, <1>14, <1>15 DEF IndexInv, RowsKept

(* A tombstone hides, closes and deletes every row of the source. *)
LEMMA TombstoneIndex ==
  ASSUME IndexInv, NEW s \in Sources, Tombstone(s)
  PROVE  /\ IndexInv' /\ RowsKept /\ RowsSame
         /\ version'[s].state = "tombstone" /\ version'[s].cand = 0
         /\ \A k \in DOMAIN rows : rows[k].source = s => ~rows'[k].open
         /\ \A t \in Sources : t # s => version'[t] = version[t]
<1> DEFINE kept == KeepOnly(s, 0)
<1>1. rows' = [k \in DOMAIN rows |->
                IF rows[k].source = s THEN [kept[k] EXCEPT !.gone = TRUE] ELSE rows[k]]
  BY DEF Tombstone
<1>2. /\ kept \in Seq(RowSet) /\ DOMAIN kept = DOMAIN rows
      /\ \A j \in DOMAIN rows :
           rows[j].source = s => Closed(rows[j], kept[j]) /\ (kept[j].open => j = 0)
  BY KeptRows DEF IndexInv
<1> HIDE DEF kept
<1>3. /\ \A j \in DOMAIN rows : j \in Nat \ {0} /\ rows[j] \in RowSet
      /\ \A j \in DOMAIN rows : kept[j] \in RowSet
  BY <1>2, RowsAre DEF IndexInv
<1>4. DOMAIN rows' = DOMAIN rows
  BY <1>1
<1>5. \A k \in DOMAIN rows :
        /\ rows'[k] \in RowSet
        /\ rows'[k].source = rows[k].source /\ rows'[k].etag = rows[k].etag
        /\ rows'[k].path = rows[k].path /\ rows'[k].parse = rows[k].parse
        /\ rows[k].source # s => rows'[k] = rows[k]
        /\ rows[k].source = s => ~rows'[k].open /\ ~rows'[k].shown
  <2> SUFFICES ASSUME NEW k \in DOMAIN rows
               PROVE  /\ rows'[k] \in RowSet
                      /\ rows'[k].source = rows[k].source /\ rows'[k].etag = rows[k].etag
                      /\ rows'[k].path = rows[k].path /\ rows'[k].parse = rows[k].parse
                      /\ rows[k].source # s => rows'[k] = rows[k]
                      /\ rows[k].source = s => ~rows'[k].open /\ ~rows'[k].shown
    OBVIOUS
  <2>1. CASE rows[k].source # s
    BY <1>1, <1>3, <2>1
  <2>2. CASE rows[k].source = s
    <3>1. rows'[k] = [kept[k] EXCEPT !.gone = TRUE] /\ kept[k] \in RowSet /\ k # 0
      BY <1>1, <1>3, <2>2
    <3>2. Closed(rows[k], kept[k]) /\ ~kept[k].open
      BY <1>2, <2>2, <3>1
    <3> QED
      BY <2>2, <3>1, <3>2 DEF Closed, RowSet
  <2> QED
    BY <2>1, <2>2
<1>6. rows' \in Seq(RowSet)
  <2>1. rows' = [k \in DOMAIN rows |-> rows'[k]]
    BY <1>1
  <2> QED
    BY <1>4, <1>5, <2>1, RowsMapped DEF IndexInv
<1>7. /\ version' \in [Sources -> VersionSet]
      /\ version'[s].state = "tombstone" /\ version'[s].cand = 0
      /\ \A t \in Sources : t # s => version'[t] = version[t]
  BY DEF Tombstone, NoVersion, IndexInv, VersionSet
<1>8. VersionNames'
  BY <1>4, <1>5, <1>7 DEF IndexInv, VersionNames
<1>9. ReadableIsCurrent'
  BY <1>3, <1>4, <1>5, <1>7 DEF IndexInv, ReadableIsCurrent, RowSet
<1>10. RowsKept /\ RowsSame
  BY <1>4, <1>5 DEF RowsKept, RowsSame
<1> QED
  BY <1>5, <1>6, <1>7, <1>8, <1>9, <1>10 DEF IndexInv

(* A candidate that is ready, unchanged and unfenced becomes the readable row. *)
LEMMA MakeReadableIndex ==
  ASSUME IndexInv, NEW k \in DOMAIN rows, Ready(k), rows[k].open, MakeReadable(k)
  PROVE  IndexInv' /\ Steady
<1> DEFINE s == rows[k].source
           kept == KeepOnly(s, k)
<1>1. rows[k] \in RowSet /\ s \in Sources /\ \A j \in DOMAIN rows : rows[j] \in RowSet
  BY RowTypes
<1>2. /\ kept \in Seq(RowSet) /\ DOMAIN kept = DOMAIN rows
      /\ \A j \in DOMAIN rows :
           /\ rows[j].source # s => kept[j] = rows[j]
           /\ rows[j].source = s =>
                /\ Closed(rows[j], kept[j])
                /\ j = k => kept[j].open = rows[j].open
  BY <1>1, KeptRows DEF IndexInv
<1>3. rows' = [kept EXCEPT ![k].shown = TRUE]
  BY DEF MakeReadable
<1>4. version' = [version EXCEPT ![s].state = "published"]
  BY DEF MakeReadable
<1>5. /\ version[s].cand = k /\ version[s].state \in {"staging", "published"}
      /\ version[s].etag = rows[k].etag /\ ~rows[k].gone /\ rows[k].parse = "completed"
  BY DEF Ready, Staged
<1> HIDE DEF kept, s
<1>6. /\ version' \in [Sources -> VersionSet]
      /\ version'[s].state = "published"
      /\ \A t \in Sources : /\ version'[t].cand = version[t].cand
                            /\ version'[t].etag = version[t].etag
                            /\ t # s => version'[t] = version[t]
  BY <1>1, <1>4 DEF IndexInv, VersionSet
<1>7. /\ DOMAIN rows' = DOMAIN rows
      /\ rows'[k] = [kept[k] EXCEPT !.shown = TRUE]
      /\ \A j \in DOMAIN rows : j # k => rows'[j] = kept[j]
      /\ \A j \in DOMAIN rows : kept[j] \in RowSet
  BY <1>2, <1>3, RowsAre
<1>8. /\ rows'[k] \in RowSet /\ Closed(rows[k], kept[k]) /\ rows[k].source = s
      /\ rows'[k].source = s /\ rows'[k].etag = rows[k].etag /\ rows'[k].path = rows[k].path
      /\ rows'[k].parse = rows[k].parse /\ ~rows'[k].gone /\ rows'[k].open
  <2>1. Closed(rows[k], kept[k]) /\ kept[k].open = rows[k].open /\ rows[k].source = s
    BY <1>2 DEF s
  <2>2. kept[k] \in RowSet /\ rows'[k] = [kept[k] EXCEPT !.shown = TRUE]
    BY <1>7
  <2>3. /\ rows'[k] \in RowSet /\ rows'[k].source = kept[k].source
        /\ rows'[k].etag = kept[k].etag /\ rows'[k].path = kept[k].path
        /\ rows'[k].parse = kept[k].parse /\ rows'[k].gone = kept[k].gone
        /\ rows'[k].open = kept[k].open
    BY <2>2 DEF RowSet
  <2> QED
    BY <1>5, <2>1, <2>3 DEF Closed
<1>9. \A j \in DOMAIN rows :
        /\ rows'[j] \in RowSet
        /\ rows'[j].source = rows[j].source /\ rows'[j].etag = rows[j].etag
        /\ rows'[j].path = rows[j].path /\ rows'[j].parse = rows[j].parse
        /\ rows'[j].open => rows[j].open
        /\ rows[j].source # s => rows'[j] = rows[j]
        /\ rows[j].source = s /\ j # k => ~rows'[j].shown
  <2> SUFFICES ASSUME NEW j \in DOMAIN rows, j # k
               PROVE  /\ rows'[j] \in RowSet
                      /\ rows'[j].source = rows[j].source /\ rows'[j].etag = rows[j].etag
                      /\ rows'[j].path = rows[j].path /\ rows'[j].parse = rows[j].parse
                      /\ rows'[j].open => rows[j].open
                      /\ rows[j].source # s => rows'[j] = rows[j]
                      /\ rows[j].source = s => ~rows'[j].shown
    BY <1>8
  <2> QED
    BY <1>2, <1>7 DEF Closed
<1>10. rows' \in Seq(RowSet)
  <2>1. rows' = [j \in DOMAIN rows |-> rows'[j]]
    BY <1>2, <1>3
  <2> QED
    BY <1>7, <1>9, <2>1, RowsMapped DEF IndexInv
<1>11. VersionNames'
  BY <1>5, <1>6, <1>7, <1>9 DEF IndexInv, VersionNames
<1>12. ReadableIsCurrent'
  <2> SUFFICES ASSUME NEW j \in DOMAIN rows, rows'[j].shown
               PROVE  LET v == version'[rows'[j].source] IN
                      /\ v.state = "published" /\ v.cand = j /\ v.etag = rows'[j].etag
                      /\ rows'[j].parse = "completed" /\ rows'[j].open /\ ~rows'[j].gone
    BY <1>7 DEF ReadableIsCurrent
  <2>1. CASE j = k
    BY <1>1, <1>5, <1>6, <1>8, <2>1
  <2>2. CASE j # k
    <3>1. rows[j].source # s /\ rows'[j] = rows[j] /\ rows[j].source \in Sources
      BY <1>9, <2>2, RowTypes
    <3> QED
      BY <1>6, <3>1 DEF IndexInv, ReadableIsCurrent
  <2> QED
    BY <2>1, <2>2
<1>13. Steady
  BY <1>5, <1>6, <1>7, <1>9 DEF Steady, RowsKept, RowsSame, Named
<1> QED
  BY <1>6, <1>10, <1>11, <1>12, <1>13 DEF IndexInv

(* Closing a publication hides the source's rows; its candidate stays staged. *)
LEMMA HideIndex ==
  ASSUME IndexInv, NEW s \in Sources, version[s].state = "published",
         rows' = Hidden(s), version' = [version EXCEPT ![s].state = "staging"]
  PROVE  IndexInv' /\ Steady
<1>1. \A j \in DOMAIN rows : rows[j] \in RowSet
  BY RowsAre DEF IndexInv
<1>2. /\ rows' \in Seq(RowSet) /\ DOMAIN rows' = DOMAIN rows
      /\ \A k \in DOMAIN rows :
           /\ rows[k].source # s => rows'[k] = rows[k]
           /\ rows[k].source = s => Closed(rows[k], rows'[k])
  BY HiddenRows DEF IndexInv
<1>3. /\ version' \in [Sources -> VersionSet] /\ version'[s].state = "staging"
      /\ \A t \in Sources : /\ version'[t].cand = version[t].cand
                            /\ version'[t].etag = version[t].etag
                            /\ t # s => version'[t] = version[t]
  BY DEF IndexInv, VersionSet
<1>4. \A k \in DOMAIN rows :
        /\ rows'[k].source = rows[k].source /\ rows'[k].etag = rows[k].etag
        /\ rows'[k].path = rows[k].path /\ rows'[k].parse = rows[k].parse
        /\ rows'[k].open => rows[k].open
        /\ rows[k].source = s => ~rows'[k].shown
  BY <1>2 DEF Closed
<1>5. VersionNames'
  BY <1>2, <1>3, <1>4 DEF IndexInv, VersionNames
<1>6. ReadableIsCurrent'
  BY <1>1, <1>2, <1>3, <1>4 DEF IndexInv, ReadableIsCurrent, RowSet
<1>7. Steady
  BY <1>2, <1>3, <1>4 DEF Steady, RowsKept, RowsSame, Named
<1> QED
  BY <1>2, <1>3, <1>5, <1>6, <1>7 DEF IndexInv

(* A new row is hidden and named by nobody. *)
LEMMA NewRowIndex ==
  ASSUME IndexInv, NEW s \in Sources, NEW v \in ViewSet, UNCHANGED version,
         rows' = Append(rows, NewRow(s, v))
  PROVE  /\ IndexInv' /\ Steady
         /\ Len(rows) + 1 \in DOMAIN rows' /\ rows'[Len(rows) + 1] = NewRow(s, v)
<1>1. NewRow(s, v) \in RowSet /\ ~NewRow(s, v).shown
  BY DEF NewRow, RowSet, ViewSet
<1>2. /\ rows' \in Seq(RowSet) /\ DOMAIN rows' = 1..(Len(rows) + 1)
      /\ DOMAIN rows = 1..Len(rows) /\ Len(rows) \in Nat
      /\ \A k \in DOMAIN rows : rows'[k] = rows[k]
      /\ rows'[Len(rows) + 1] = NewRow(s, v)
  BY <1>1 DEF IndexInv
<1>3. VersionNames'
  BY <1>2 DEF IndexInv, VersionNames
<1>4. ReadableIsCurrent'
  <2>1. \A k \in DOMAIN rows' : rows'[k].shown => k \in DOMAIN rows
    BY <1>1, <1>2
  <2> QED
    BY <1>2, <2>1 DEF IndexInv, ReadableIsCurrent
<1>5. Steady
  BY <1>2 DEF Steady, RowsKept, RowsSame, Named
<1> QED
  BY <1>2, <1>3, <1>4, <1>5 DEF IndexInv

(* Parsing ends on a pending row, which is hidden. *)
LEMMA ParseIndex ==
  ASSUME IndexInv, NEW k \in DOMAIN rows, rows[k].parse = "pending",
         NEW p \in {"completed", "failed"}, rows' = [rows EXCEPT ![k].parse = p],
         UNCHANGED version
  PROVE  IndexInv' /\ Steady
<1>1. /\ \A j \in DOMAIN rows : rows[j] \in RowSet
      /\ DOMAIN rows' = DOMAIN rows /\ rows'[k] = [rows[k] EXCEPT !.parse = p]
      /\ \A j \in DOMAIN rows : j # k => rows'[j] = rows[j]
  BY RowsAre DEF IndexInv
<1>2. /\ rows'[k] \in RowSet /\ rows'[k].source = rows[k].source
      /\ rows'[k].etag = rows[k].etag /\ rows'[k].path = rows[k].path
      /\ rows'[k].open = rows[k].open /\ rows'[k].shown = rows[k].shown
  BY <1>1 DEF RowSet
<1>3. rows' \in Seq(RowSet)
  <2>1. rows' = [j \in DOMAIN rows |-> rows'[j]]
    OBVIOUS
  <2>2. \A j \in DOMAIN rows' : rows'[j] \in RowSet
    BY <1>1, <1>2
  <2> QED
    BY <1>1, <2>1, <2>2, RowsMapped DEF IndexInv
<1>4. ~rows[k].shown
  BY DEF IndexInv, ReadableIsCurrent
<1>5. VersionNames'
  BY <1>1, <1>2 DEF IndexInv, VersionNames
<1>6. ReadableIsCurrent'
  BY <1>1, <1>2, <1>4 DEF IndexInv, ReadableIsCurrent
<1>7. Steady
  BY <1>1, <1>2 DEF Steady, RowsKept, RowsSame, Named
<1> QED
  BY <1>3, <1>5, <1>6, <1>7 DEF IndexInv

(* The window of a failed candidate says nothing of what is readable. *)
LEMMA WindowIndex ==
  ASSUME IndexInv, NEW s \in Sources, NEW b \in BOOLEAN,
         version' = [version EXCEPT ![s].old = b], UNCHANGED rows
  PROVE  IndexInv' /\ Steady
<1>1. /\ version' \in [Sources -> VersionSet]
      /\ \A t \in Sources : /\ version'[t].cand = version[t].cand
                            /\ version'[t].etag = version[t].etag
                            /\ version'[t].state = version[t].state
  BY DEF IndexInv, VersionSet
<1>2. \A k \in DOMAIN rows : rows[k].source \in Sources
  BY RowTypes
<1>3. VersionNames' /\ ReadableIsCurrent'
  BY <1>1, <1>2 DEF IndexInv, VersionNames, ReadableIsCurrent
<1>4. Steady
  BY <1>1 DEF Steady, RowsKept, RowsSame, Named
<1> QED
  BY <1>1, <1>3, <1>4 DEF IndexInv

LEMMA IndexStays ==
  ASSUME IndexInv, UNCHANGED <<version, rows>>
  PROVE  IndexInv' /\ Steady
<1>1. IndexInv'
  BY DEF IndexInv, VersionNames, ReadableIsCurrent
<1>2. Steady
  BY DEF Steady, RowsKept, RowsSame, Named
<1> QED
  BY <1>1, <1>2

LEMMA HandsKept ==
  ASSUME RowsKept
  PROVE  /\ RunHands /\ UNCHANGED runs => RunHands'
         /\ PublisherHands /\ UNCHANGED publishing => PublisherHands'
  BY DEF RowsKept, RunHands, PublisherHands

----------------------------------------------------------------------------
(* The file changes *)

FileChange ==
  \/ \E s \in Sources : Upload(s) \/ RenameFile(s) \/ RenameFolder(s) \/ Trash(s) \/ Untrash(s)
  \/ \E s, t \in Sources \cup {"outside"} : MoveFolder(s, t)

LEMMA PlacesDiffer ==
  "nowhere" \notin Sources /\ "outside" \notin Sources /\ "trash" \notin Sources
  BY PublicationAssumption

LEMMA Recorded ==
  ASSUME Sound, FileInv, NEW f \in FileSet, NEW kinds, Changes(f, kinds),
         \A s \in Sources \cap DOMAIN kinds : kinds[s] \in FileKinds \cup
           {"subtree_scan", "subtree_moved", "subtree_deleted"},
         \A s \in Sources \ DOMAIN kinds : file.at # s /\ f.at # s
  PROVE  Sound' /\ Steady /\ HintsKept /\ FileInv'
         /\ UNCHANGED <<embedding, versionVars, received, cursor, disp, outcome, runs,
                        scanned, trouble>>
<1>1. /\ file' = f
      /\ UNCHANGED <<embedding, versionVars, received, cursor, disp, outcome, runs,
                     scanned, trouble>>
  BY DEF Changes
<1>2. /\ outbox' \in [Sources -> Seq(HintSet)] /\ HintsKept /\ FileInv'
  <2>1. \A s \in Sources :
          /\ outbox'[s] \in Seq(HintSet) /\ Len(outbox[s]) <= Len(outbox'[s])
          /\ \A i \in 1..Len(outbox[s]) : outbox'[s][i] = outbox[s][i]
          /\ View(s)' = IF outbox'[s] = <<>> THEN Absent ELSE outbox'[s][Len(outbox'[s])].view
    <3> SUFFICES ASSUME NEW s \in Sources
                 PROVE  /\ outbox'[s] \in Seq(HintSet) /\ Len(outbox[s]) <= Len(outbox'[s])
                        /\ \A i \in 1..Len(outbox[s]) : outbox'[s][i] = outbox[s][i]
                        /\ View(s)' = IF outbox'[s] = <<>> THEN Absent
                                      ELSE outbox'[s][Len(outbox'[s])].view
      OBVIOUS
    <3>1. outbox[s] \in Seq(HintSet)
      BY DEF Sound, FlowTypes
    <3>2. CASE s \in DOMAIN kinds
      <4> DEFINE v == IF f.at = s THEN [etag |-> f.etag, path |-> f.path] ELSE Absent
                 h == [kind |-> kinds[s], view |-> v]
      <4>1. outbox'[s] = Append(outbox[s], h)
        BY <3>2 DEF Changes
      <4>2. v \in ViewSet
        BY DEF FileSet, ViewSet, Absent
      <4>3. h \in HintSet /\ h.view = v
        BY <3>2, <4>2 DEF HintSet
      <4>4. View(s)' = v
        BY <1>1 DEF View
      <4> HIDE DEF v, h
      <4>5. /\ Append(outbox[s], h) \in Seq(HintSet)
            /\ Len(Append(outbox[s], h)) = Len(outbox[s]) + 1 /\ Len(outbox[s]) \in Nat
            /\ Append(outbox[s], h)[Len(outbox[s]) + 1] = h
            /\ \A i \in 1..Len(outbox[s]) : Append(outbox[s], h)[i] = outbox[s][i]
            /\ Append(outbox[s], h) # <<>>
        BY <3>1, <4>3
      <4> QED
        BY <4>1, <4>3, <4>4, <4>5
    <3>3. CASE s \notin DOMAIN kinds
      <4>1. outbox'[s] = outbox[s]
        BY <3>3 DEF Changes
      <4>2. View(s)' = Absent /\ View(s) = Absent
        BY <1>1, <3>3 DEF View
      <4>3. View(s) = IF outbox[s] = <<>> THEN Absent ELSE outbox[s][Len(outbox[s])].view
        BY DEF FileInv, Last
      <4> QED
        BY <3>1, <4>1, <4>2, <4>3
    <3> QED
      BY <3>2, <3>3
  <2>2. outbox' = [s \in Sources |-> outbox'[s]]
    BY DEF Changes
  <2>3. FileInv'
    BY <2>1 DEF FileInv, Last
  <2>4. outbox' \in [Sources -> Seq(HintSet)]
    BY <2>1, <2>2
  <2> QED
    BY <2>1, <2>3, <2>4 DEF HintsKept
<1>3. IndexInv' /\ Steady
  BY <1>1, IndexStays DEF Sound, versionVars
<1>4. RunHands' /\ PublisherHands'
  BY <1>1, <1>3, HandsKept DEF Sound, Steady, versionVars
<1> QED
  BY <1>1, <1>2, <1>3, <1>4 DEF Sound, FlowTypes, versionVars

LEMMA FileChangeEffect ==
  ASSUME Sound, FileInv, FileChange
  PROVE  Sound' /\ Steady /\ HintsKept /\ FileInv'
         /\ UNCHANGED <<embedding, versionVars, received, cursor, disp, outcome, runs,
                        scanned, trouble>>
<1>0. file \in FileSet
  BY DEF Sound
<1>1. ASSUME NEW s \in Sources, NEW f \in FileSet, NEW k \in FileKinds \cup
               {"subtree_scan", "subtree_moved", "subtree_deleted"},
             file.at \in {s, "nowhere", "trash"}, f.at \in {s, "trash"},
             Changes(f, Only(s, k))
      PROVE  Sound' /\ Steady /\ HintsKept /\ FileInv'
             /\ UNCHANGED <<embedding, versionVars, received, cursor, disp, outcome, runs,
                            scanned, trouble>>
  <2>2. DOMAIN Only(s, k) = {s} /\ Only(s, k)[s] = k
    BY DEF Only
  <2>3. \A t \in Sources \ {s} : file.at # t /\ f.at # t
    BY <1>1, PlacesDiffer
  <2> HIDE DEF FileChange
  <2> QED
    BY <1>1, <2>2, <2>3, Recorded
<1>2. ASSUME NEW s \in Sources, Upload(s)
      PROVE  Sound' /\ Steady /\ HintsKept /\ FileInv'
             /\ UNCHANGED <<embedding, versionVars, received, cursor, disp, outcome, runs,
                            scanned, trouble>>
  <2> DEFINE f == [file EXCEPT !.at = s, !.etag = @ + 1]
  <2>1. f \in FileSet /\ f.at = s
    <3>1. file.etag + 1 \in Nat /\ s \in Place
      BY <1>0 DEF FileSet, Place
    <3> QED
      BY <1>0, <3>1 DEF FileSet
  <2>2. Changes(f, Only(s, "upsert")) /\ file.at \in {s, "nowhere"}
    BY <1>2 DEF Upload
  <2>3. "upsert" \in FileKinds
    BY DEF FileKinds
  <2> HIDE DEF f
  <2> QED
    BY <1>1, <2>1, <2>2, <2>3
<1>3. ASSUME NEW s \in Sources, RenameFile(s) \/ RenameFolder(s)
      PROVE  Sound' /\ Steady /\ HintsKept /\ FileInv'
             /\ UNCHANGED <<embedding, versionVars, received, cursor, disp, outcome, runs,
                            scanned, trouble>>
  <2> DEFINE f == [file EXCEPT !.path = 3 - @]
  <2>1. f \in FileSet /\ f.at = file.at
    BY <1>0 DEF FileSet
  <2>2. file.at = s /\ \E k \in {"metadata", "subtree_moved"} : Changes(f, Only(s, k))
    BY <1>3 DEF RenameFile, RenameFolder
  <2>3. "metadata" \in FileKinds
    BY DEF FileKinds
  <2> HIDE DEF f
  <2> QED
    BY <1>1, <2>1, <2>2, <2>3
<1>4. ASSUME NEW s \in Sources, Trash(s) \/ Untrash(s)
      PROVE  Sound' /\ Steady /\ HintsKept /\ FileInv'
             /\ UNCHANGED <<embedding, versionVars, received, cursor, disp, outcome, runs,
                            scanned, trouble>>
  <2> DEFINE f(a) == [file EXCEPT !.at = a]
  <2>1. \A a \in {s, "trash"} : f(a) \in FileSet /\ f(a).at = a
    BY <1>0 DEF FileSet, Place
  <2>2. \/ file.at = s /\ Changes(f("trash"), Only(s, "delete"))
        \/ file.at = "trash" /\ Changes(f(s), Only(s, "upsert"))
    BY <1>4 DEF Trash, Untrash
  <2>3. "delete" \in FileKinds /\ "upsert" \in FileKinds
    BY DEF FileKinds
  <2> HIDE DEF f
  <2> QED
    BY <1>1, <2>1, <2>2, <2>3
<1>5. ASSUME NEW s \in Sources \cup {"outside"}, NEW t \in Sources \cup {"outside"},
             MoveFolder(s, t)
      PROVE  Sound' /\ Steady /\ HintsKept /\ FileInv'
             /\ UNCHANGED <<embedding, versionVars, received, cursor, disp, outcome, runs,
                            scanned, trouble>>
  <2> DEFINE f == [file EXCEPT !.at = t]
             kinds == [x \in {s, t} \cap Sources |->
                         IF x = s THEN "subtree_deleted" ELSE "subtree_scan"]
  <2>1. f \in FileSet /\ f.at = t
    BY <1>0 DEF FileSet, Place
  <2>2. Changes(f, kinds) /\ file.at = s
    BY <1>5 DEF MoveFolder
  <2>3. DOMAIN kinds = {s, t} \cap Sources
    OBVIOUS
  <2>4. \A x \in DOMAIN kinds : kinds[x] \in {"subtree_deleted", "subtree_scan"}
    OBVIOUS
  <2>5. \A x \in Sources \ DOMAIN kinds : file.at # x /\ f.at # x
    BY <2>1, <2>2, <2>3
  <2> HIDE DEF f, kinds
  <2> QED
    BY <2>1, <2>2, <2>4, <2>5, Recorded
<1> QED
  BY <1>2, <1>3, <1>4, <1>5 DEF FileChange

----------------------------------------------------------------------------
(* A step that leaves the range, the runs and the cursor alone *)

LEMMA SinceKept ==
  ASSUME Sound, HintsKept
  PROVE  \A s \in Sources : \A n, v : Since(s, n, v) =>
           \E i \in 1..Len(outbox'[s]) : n <= i /\ outbox'[s][i].view = v
<1>1. \A s \in Sources : Len(outbox[s]) \in Nat
  BY DEF Sound, FlowTypes
<1>2. \A s \in Sources : Len(outbox[s]) <= Len(outbox'[s])
  BY DEF HintsKept
<1> SUFFICES ASSUME NEW s \in Sources, NEW n, NEW v, Since(s, n, v)
             PROVE  \E i \in 1..Len(outbox'[s]) : n <= i /\ outbox'[s][i].view = v
  OBVIOUS
<1>3. PICK i \in 1..Len(outbox[s]) : n <= i /\ outbox[s][i].view = v
  BY DEF Since
<1>4. i \in 1..Len(outbox'[s]) /\ outbox'[s][i] = outbox[s][i]
  BY <1>1, <1>2 DEF HintsKept
<1> QED
  BY <1>3, <1>4

LEMMA ClaimKept ==
  ASSUME Sound, ClaimInv, Steady, UNCHANGED <<disp, runs>>
  PROVE  ClaimInv'
<1> SUFFICES ASSUME NEW r \in RunIds, runs[r].kind = "retry"
             PROVE  Claiming(r)'
  BY DEF ClaimInv, Claiming
<1>1. runs[r] \in RunSet
  BY DEF Sound, FlowTypes, NoRun
<1>2. runs[r].src \in Sources
  BY <1>1 DEF RunSet
<1> QED
  BY <1>2 DEF ClaimInv, Claiming, Steady, RowsKept

LEMMA RunTypes ==
  ASSUME Sound, NEW r \in RunIds
  PROVE  /\ runs[r].pc # "none" => runs[r] # NoRun
         /\ runs[r].kind # "none" => runs[r] # NoRun
         /\ runs[r] # NoRun =>
              /\ runs[r] \in RunSet /\ runs[r].src \in Sources
              /\ runs[r].kind \in {"event", "retry"} /\ runs[r].cand \in Nat
              /\ runs[r].upto \in Nat /\ runs[r].view \in ViewSet
              /\ runs[r].pc \in {"queued", "opening"} \cup Running
<1>1. runs[r] \in RunSet \cup {NoRun}
  BY DEF Sound, FlowTypes
<1>2. NoRun.pc = "none" /\ NoRun.kind = "none"
  BY DEF NoRun
<1> QED
  BY <1>1, <1>2 DEF RunSet

LEMMA FreshKept ==
  ASSUME Sound, FreshInv, Steady, HintsKept, UNCHANGED disp
  PROVE  FreshInv'
<1> SUFFICES ASSUME NEW s \in Sources, Named(s)'
             PROVE  Since(s, disp[s].applied, CandidateView(s))'
  BY DEF FreshInv
<1>1. Named(s) /\ version'[s].cand = version[s].cand
  BY DEF Steady
<1>2. version[s].cand \in DOMAIN rows
  BY <1>1 DEF Sound, IndexInv, VersionNames, Named
<1>3. CandidateView(s)' = CandidateView(s)
  BY <1>1, <1>2 DEF Steady, RowsSame, CandidateView
<1>4. Since(s, disp[s].applied, CandidateView(s))
  BY <1>1 DEF FreshInv
<1>5. Since(s, disp[s].applied, CandidateView(s))'
        = \E i \in 1..Len(outbox'[s]) : /\ disp[s].applied <= i
                                        /\ outbox'[s][i].view = CandidateView(s)
  BY <1>3 DEF Since
<1> QED
  BY <1>4, <1>5, SinceKept

LEMMA FlowStays ==
  ASSUME Sound, FlowInv, Steady, HintsKept, FileInv',
         UNCHANGED <<received, cursor, disp, outcome, runs, scanned>>
  PROVE  FlowInv'
<1>1. \A s \in Sources : \A n, v : Since(s, n, v) =>
        \E i \in 1..Len(outbox'[s]) : n <= i /\ outbox'[s][i].view = v
  BY SinceKept
<1>2. \A s \in Sources : Len(outbox[s]) \in Nat /\ Len(outbox[s]) <= Len(outbox'[s])
                         /\ received[s] \in Nat
  BY DEF HintsKept, Sound, FlowTypes
<1>3. OrderInv'
  <2>1. \A s \in Sources : received[s] <= Len(outbox'[s])
    BY <1>2 DEF FlowInv, OrderInv, Ordered, Sound, FlowTypes
  <2> QED
    BY <2>1 DEF FlowInv, OrderInv, Ordered
<1>4. PhaseInv' /\ LogInv' /\ WorkInv' /\ ScanInv'
  BY DEF FlowInv, PhaseInv, Phased, LogInv, Logged, WorkInv, Working, ScanInv, Scanned
<1>5. RunInv'
  <2> SUFFICES ASSUME NEW r \in RunIds, runs[r].pc \in Listed
               PROVE  Reading(r)'
    BY DEF RunInv, Reading
  <2>1. runs[r].src \in Sources /\ runs[r].upto \in Nat
    BY RunTypes DEF Listed, Running
  <2>2. runs[r].upto <= Len(outbox[runs[r].src])
    BY DEF FlowInv, RunInv, Reading
  <2>3. runs[r].upto <= Len(outbox'[runs[r].src])
    BY <1>2, <2>1, <2>2 DEF Sound, FlowTypes
  <2> QED
    <3>1. runs[r].pc # "listed" /\ runs[r].view # Absent =>
            \E i \in 1..Len(outbox'[runs[r].src]) :
              runs[r].upto <= i /\ outbox'[runs[r].src][i].view = runs[r].view
      BY <1>1, <2>1 DEF FlowInv, RunInv, Reading
    <3> QED
      BY <2>1, <2>3, <3>1 DEF FlowInv, RunInv, Reading, Since
<1>6. ClaimInv'
  BY ClaimKept DEF FlowInv
<1>7. CursorInv'
  <2> SUFFICES ASSUME NEW s \in Sources, ~cursor[s].missing, cursor[s].file # Absent
               PROVE  \E i \in 1..Len(outbox'[s]) :
                        cursor[s].changes <= i /\ outbox'[s][i].view = cursor[s].file
    BY DEF CursorInv, Since
  <2> QED
    BY <1>1 DEF FlowInv, CursorInv
<1>8. FreshInv'
  BY FreshKept DEF FlowInv
<1> QED
  BY <1>3, <1>4, <1>5, <1>6, <1>7, <1>8 DEF FlowInv

----------------------------------------------------------------------------
(* The embedding service, the retry job, the parser and the publisher *)

FlowStill == UNCHANGED <<outbox, received, cursor, disp, outcome, runs, scanned>>

LEMMA StillFlows ==
  ASSUME Sound, FlowInv, Steady, FlowStill, UNCHANGED file
  PROVE  FlowInv' /\ HintsKept
<1>1. HintsKept
  BY DEF FlowStill, HintsKept, Sound, FlowTypes
<1>2. FileInv'
  BY DEF FlowStill, FlowInv, FileInv, View, Last
<1> QED
  BY <1>1, <1>2, FlowStays DEF FlowStill

LEMMA ServiceStep ==
  ASSUME Sound, NEW b \in BOOLEAN, Embedding(b)
  PROVE  Sound' /\ Steady /\ FlowStill /\ UNCHANGED file
<1>1. embedding' = b /\ UNCHANGED <<file, version, rows, job, publishing, trouble>> /\ FlowStill
  BY DEF Embedding, versionVars, publicationVars, FlowStill
<1>2. IndexInv' /\ Steady
  BY <1>1, IndexStays DEF Sound
<1>3. RunHands' /\ PublisherHands'
  BY <1>1, <1>2, HandsKept DEF Sound, Steady, FlowStill
<1> QED
  BY <1>1, <1>2, <1>3 DEF Sound, FlowTypes, FlowStill

(* A step that changes the index and leaves the hands of publishers and runs full *)
LEMMA IndexStep ==
  ASSUME Sound, IndexInv', Steady, FlowStill, trouble' \in Nat, UNCHANGED <<file, embedding>>,
         job' \in [Sources -> JobSet], publishing' \in [Publishers -> PublishingSet],
         \A p \in Publishers : publishing'[p].pc \in Asking =>
           \/ publishing'[p].cand \in DOMAIN rows
           \/ publishing[p].pc \in Asking /\ publishing'[p].cand = publishing[p].cand
  PROVE  Sound' /\ Steady /\ FlowStill /\ UNCHANGED file
<1>1. RunHands'
  BY HandsKept DEF Sound, Steady, FlowStill
<1>2. PublisherHands'
  BY DEF Sound, PublisherHands, Steady, RowsKept
<1> QED
  BY <1>1, <1>2 DEF Sound, FlowTypes, FlowStill

LEMMA JobStep ==
  ASSUME Sound, NEW s \in Sources, NEW j \in JobSet, job' = [job EXCEPT ![s] = j],
         NEW b \in BOOLEAN, version' \in {version, [version EXCEPT ![s].old = b]},
         UNCHANGED <<file, embedding, rows, publishing>>, FlowStill, trouble' \in Nat
  PROVE  Sound' /\ Steady /\ FlowStill /\ UNCHANGED file
<1>1. IndexInv' /\ Steady
  <2>1. CASE version' = version
    BY <2>1, IndexStays DEF Sound
  <2>2. CASE version' = [version EXCEPT ![s].old = b]
    BY <2>2, WindowIndex DEF Sound
  <2> QED
    BY <2>1, <2>2
<1>2. job' \in [Sources -> JobSet]
  BY DEF Sound
<1> QED
  BY <1>1, <1>2, IndexStep DEF Sound, FlowTypes

LEMMA VersionStep ==
  ASSUME Sound, NEW s \in Sources, VersionSteps(s)
  PROVE  Sound' /\ Steady /\ FlowStill /\ UNCHANGED file
<1>0. /\ version[s] \in VersionSet /\ job[s] \in JobSet /\ trouble \in Nat
      /\ job \in [Sources -> JobSet] /\ publishing \in [Publishers -> PublishingSet]
      /\ IndexInv
  BY DEF Sound, IndexInv, FlowTypes
<1>1. ASSUME NEW A, Versions(A)
      PROVE  A /\ UNCHANGED <<file, embedding, trouble>> /\ FlowStill
  BY <1>1 DEF Versions, publicationVars, FlowStill
<1>2. CASE Versions(NoteFailure(s))
  <2> DEFINE j == [state |-> IF version[s].old THEN "manual" ELSE "retry",
                   etag |-> version[s].etag, cand |-> version[s].cand,
                   lease |-> job[s].lease,
                   attempts |-> IF job[s].etag = version[s].etag THEN job[s].attempts ELSE 0]
  <2>1. /\ job' = [job EXCEPT ![s] = j] /\ UNCHANGED <<version, rows, publishing>>
        /\ UNCHANGED <<file, embedding, trouble>> /\ FlowStill
    BY <1>2 DEF Versions, publicationVars, FlowStill, NoteFailure
  <2>2. j \in JobSet
    BY <1>0 DEF JobSet, VersionSet
  <2> HIDE DEF j
  <2> QED
    BY <1>0, <2>1, <2>2, JobStep
<1>3. CASE Versions(GiveUpRetrying(s))
  <2> DEFINE j == [job[s] EXCEPT !.state = "manual"]
  <2>1. /\ job' = [job EXCEPT ![s] = j] /\ UNCHANGED <<version, rows, publishing>>
        /\ UNCHANGED <<file, embedding, trouble>> /\ FlowStill
    BY <1>3 DEF Versions, publicationVars, FlowStill, GiveUpRetrying
  <2>2. j \in JobSet
    BY <1>0 DEF JobSet
  <2> HIDE DEF j
  <2> QED
    BY <1>0, <2>1, <2>2, JobStep
<1>4. CASE ~HasRunning(s) /\ Versions(RetryFailedCandidate(s))
  <2> DEFINE j == [state |-> "retry", etag |-> version[s].etag,
                   cand |-> version[s].cand, attempts |-> 0, lease |-> job[s].lease]
  <2>1. /\ job' = [job EXCEPT ![s] = j] /\ version' = [version EXCEPT ![s].old = FALSE]
        /\ UNCHANGED <<rows, publishing>>
        /\ UNCHANGED <<file, embedding, trouble>> /\ FlowStill
    BY <1>4 DEF Versions, publicationVars, FlowStill, RetryFailedCandidate
  <2>2. j \in JobSet
    BY <1>0 DEF JobSet, VersionSet
  <2> HIDE DEF j
  <2> QED
    BY <1>0, <2>1, <2>2, JobStep
<1>5. ASSUME NEW k \in DOMAIN rows, rows[k].source = s, Versions(ParseEnds(k))
      PROVE  Sound' /\ Steady /\ FlowStill /\ UNCHANGED file
  <2>1. /\ rows[k].parse = "pending" /\ UNCHANGED <<version, job>>
        /\ UNCHANGED <<file, embedding, trouble>> /\ FlowStill
        /\ \/ /\ rows' = [rows EXCEPT ![k].parse = "completed"]
              /\ publishing' = [publishing EXCEPT ![<<s, "parser">>] =
                                  Opened(<<s, "parser">>, k, Staged(k))]
           \/ rows' = [rows EXCEPT ![k].parse = "failed"] /\ UNCHANGED publishing
    BY <1>5 DEF Versions, publicationVars, FlowStill, ParseEnds
  <2>2. IndexInv' /\ Steady
    BY <1>0, <2>1, ParseIndex
  <2>3. k \in DOMAIN rows' /\ k \in Nat /\ rows'[k] \in RowSet /\ <<s, "parser">> \in Publishers
    <3>1. k \in DOMAIN rows' /\ rows'[k] \in RowSet
      BY <2>2, RowsAre DEF Steady, RowsKept, IndexInv
    <3> QED
      BY <1>0, <3>1, RowTypes DEF Publishers
  <2>4. Opened(<<s, "parser">>, k, Staged(k)) \in PublishingSet
    BY <2>3 DEF Opened, PublishingSet, NotPublishing, RowSet, Asking
  <2>5. /\ publishing' \in [Publishers -> PublishingSet]
        /\ \A p \in Publishers : publishing'[p].pc \in Asking =>
             \/ publishing'[p].cand \in DOMAIN rows
             \/ publishing[p].pc \in Asking /\ publishing'[p].cand = publishing[p].cand
    <3>1. CASE UNCHANGED publishing
      BY <1>0, <3>1
    <3>2. CASE publishing' = [publishing EXCEPT ![<<s, "parser">>] =
                                Opened(<<s, "parser">>, k, Staged(k))]
      <4>1. Opened(<<s, "parser">>, k, Staged(k)).pc \in Asking =>
              Opened(<<s, "parser">>, k, Staged(k)).cand = k
        BY DEF Opened, NotPublishing, Asking
      <4> QED
        BY <1>0, <2>3, <2>4, <3>2, <4>1
    <3> QED
      BY <2>1, <3>1, <3>2
  <2> QED
    BY <1>0, <2>1, <2>2, <2>5, IndexStep DEF Sound, FlowTypes
<1> QED
  BY <1>2, <1>3, <1>4, <1>5 DEF VersionSteps

LEMMA PublisherStep ==
  ASSUME Sound, NEW p \in Publishers, PublisherSteps(p)
  PROVE  Sound' /\ Steady /\ FlowStill /\ UNCHANGED file
<1>0. /\ publishing \in [Publishers -> PublishingSet] /\ trouble \in Nat /\ IndexInv
      /\ job \in [Sources -> JobSet]
      /\ publishing[p].pc \in Asking => publishing[p].cand \in DOMAIN rows
  BY DEF Sound, FlowTypes, PublisherHands
<1>1. PICK answers \in BOOLEAN :
        \/ PublishAsk(p, answers) \/ PublishCommit(p) \/ PublishConfirm(p, answers)
        \/ PublishHide(p)
  BY DEF PublisherSteps, Versions
<1>2. /\ UNCHANGED <<file, embedding, job>> /\ FlowStill /\ trouble' \in Nat
      /\ publishing[p].pc \in Asking
  <2>1. UNCHANGED job /\ publishing[p].pc \in Asking
    BY <1>1 DEF PublishAsk, PublishCommit, PublishConfirm, PublishHide, PublishingAt, Asking
  <2>2. UNCHANGED <<file, embedding>> /\ FlowStill /\ trouble' \in Nat
    <3>1. \/ UNCHANGED <<file, embedding, publicationVars>>
          \/ /\ trouble > 0 /\ trouble' = trouble - 1
             /\ UNCHANGED <<file, embedding, outbox, received, cursor, disp, outcome, runs,
                            scanned>>
      BY DEF PublisherSteps, Versions
    <3> QED
      BY <1>0, <3>1 DEF publicationVars, FlowStill
  <2> QED
    BY <2>1, <2>2
<1>3. publishing' \in [Publishers -> PublishingSet]
      /\ \A q \in Publishers : publishing'[q].pc \in Asking =>
           publishing[q].pc \in Asking /\ publishing'[q].cand = publishing[q].cand
  <2>1. \/ \E pc \in Asking : PublisherGoes(p, pc)
        \/ \E result \in {"ok", "unready", "error"} : PublisherEnds(p, result)
    BY <1>1 DEF PublishAsk, PublishCommit, PublishConfirm, PublishHide, Asking
  <2>2. ASSUME NEW pc \in Asking, PublisherGoes(p, pc)
        PROVE  publishing' \in [Publishers -> PublishingSet]
               /\ \A q \in Publishers : publishing'[q].pc \in Asking =>
                    publishing[q].pc \in Asking /\ publishing'[q].cand = publishing[q].cand
    BY <1>0, <1>2, <2>2 DEF PublisherGoes, PublishingSet
  <2>3. ASSUME NEW result \in {"ok", "unready", "error"}, PublisherEnds(p, result)
        PROVE  publishing' \in [Publishers -> PublishingSet]
               /\ \A q \in Publishers : publishing'[q].pc \in Asking =>
                    publishing[q].pc \in Asking /\ publishing'[q].cand = publishing[q].cand
    BY <1>0, <1>2, <2>3 DEF PublisherEnds, PublishingSet, NotPublishing, Asking
  <2> QED
    BY <2>1, <2>2, <2>3
<1>4. IndexInv' /\ Steady
  <2> DEFINE k == publishing[p].cand
  <2>1. \/ UNCHANGED <<version, rows>>
        \/ Ready(k) /\ rows[k].open /\ MakeReadable(k)
        \/ /\ version[rows[k].source].state = "published" /\ rows' = Hidden(rows[k].source)
           /\ version' = [version EXCEPT ![rows[k].source].state = "staging"]
    BY <1>1 DEF PublishAsk, PublishCommit, PublishConfirm, PublishHide
  <2>2. k \in DOMAIN rows /\ rows[k].source \in Sources
    BY <1>0, <1>2, RowTypes
  <2> HIDE DEF k
  <2> QED
    BY <1>0, <2>1, <2>2, IndexStays, MakeReadableIndex, HideIndex
<1> QED
  BY <1>0, <1>2, <1>3, <1>4, IndexStep

LEMMA RetryTimes ==
  ASSUME Sound, NEW s \in Sources, RetryLeaseEnds(s) \/ RetryWindowEnds(s)
  PROVE  Sound' /\ Steady /\ FlowStill /\ UNCHANGED file
<1>0. /\ job[s] \in JobSet /\ trouble \in Nat /\ job \in [Sources -> JobSet]
  BY DEF Sound, FlowTypes
<1>1. CASE RetryLeaseEnds(s)
  <2> DEFINE j == [job[s] EXCEPT !.state = "expired"]
  <2>1. /\ job' = [job EXCEPT ![s] = j] /\ UNCHANGED <<file, embedding, version, rows, publishing>>
        /\ FlowStill /\ trouble' \in Nat
    BY <1>0, <1>1 DEF RetryLeaseEnds, LeaseExpires, FlowStill
  <2>2. j \in JobSet
    BY <1>0 DEF JobSet
  <2> HIDE DEF j
  <2> QED
    BY <2>1, <2>2, JobStep
<1>2. CASE RetryWindowEnds(s)
  <2>1. /\ version' = [version EXCEPT ![s].old = TRUE] /\ trouble' \in Nat
        /\ UNCHANGED <<file, embedding, rows, job, publishing>> /\ FlowStill
    BY <1>0, <1>2 DEF RetryWindowEnds, WindowCloses, FlowStill
  <2>2. job' = [job EXCEPT ![s] = job[s]]
    BY <1>0, <2>1
  <2> QED
    BY <1>0, <2>1, <2>2, JobStep
<1> QED
  BY <1>1, <1>2

----------------------------------------------------------------------------
(* The dispatcher *)

IndexStill == UNCHANGED <<file, embedding, version, rows, publishing, outbox, cursor>>

LEMMA DispatchTypes ==
  ASSUME Sound, NEW s \in Sources
  PROVE  /\ disp[s] \in DispatchSet /\ disp \in [Sources -> DispatchSet]
         /\ disp[s].applied \in Nat /\ disp[s].target \in Nat /\ disp[s].confirm \in Nat
         /\ disp[s].log \in RunIds \cup {0} /\ received[s] \in Nat /\ Len(outbox[s]) \in Nat
         /\ scanned[s] \in 0..2
         /\ outcome[s] \in {"missing", "running", "success", "failed"}
<1>1. disp[s] \in DispatchSet /\ disp \in [Sources -> DispatchSet]
  BY DEF Sound, FlowTypes
<1> QED
  BY <1>1 DEF Sound, FlowTypes, DispatchSet

LEMMA LogsPositive == 0 \notin RunIds
  BY PublicationAssumption

LEMMA DispatchSound ==
  ASSUME Sound, IndexStill, job' \in [Sources -> JobSet], received' \in [Sources -> Nat],
         disp' \in [Sources -> DispatchSet], scanned' \in [Sources -> 0..2],
         outcome' \in [Sources -> {"missing", "running", "success", "failed"}],
         runs' \in [RunIds -> RunSet \cup {NoRun}], trouble' \in Nat,
         \A r \in RunIds : runs'[r] = runs[r] \/ runs'[r].pc = "queued"
  PROVE  Sound' /\ Steady /\ HintsKept
<1>1. IndexInv' /\ Steady
  BY IndexStays DEF Sound, IndexStill
<1>2. RunHands'
  <2> SUFFICES ASSUME NEW r \in RunIds, runs'[r].pc \in {"made", "publishing"}
               PROVE  rows'[runs'[r].cand].source = runs'[r].src /\ runs'[r].cand \in DOMAIN rows'
    BY DEF RunHands
  <2>1. runs'[r] = runs[r]
    OBVIOUS
  <2> QED
    BY <2>1 DEF Sound, RunHands, IndexStill
<1>3. PublisherHands'
  BY DEF Sound, PublisherHands, IndexStill
<1>4. HintsKept
  BY DEF IndexStill, HintsKept, Sound, FlowTypes
<1> QED
  BY <1>1, <1>2, <1>3, <1>4 DEF Sound, FlowTypes, IndexStill

(* What is applied of the sources stays, and a new run has read nothing yet. *)
LEMMA AppliedStays ==
  ASSUME Sound, FlowInv, IndexStill,
         \A s \in Sources : disp'[s].applied = disp[s].applied,
         \A r \in RunIds : \/ runs'[r] = runs[r]
                           \/ runs'[r].kind = "event" /\ runs'[r].pc = "queued"
  PROVE  RunInv' /\ ClaimInv' /\ FreshInv'
<1>1. RunInv'
  <2> SUFFICES ASSUME NEW r \in RunIds, runs'[r].pc \in Listed
               PROVE  Reading(r)'
    BY DEF RunInv, Reading
  <2>1. runs'[r] = runs[r]
    BY DEF Listed, Running
  <2>2. runs[r].src \in Sources
    BY <2>1, RunTypes DEF Listed, Running
  <2> QED
    BY <2>1, <2>2 DEF FlowInv, RunInv, Reading, Since, IndexStill
<1>2. ClaimInv'
  <2> SUFFICES ASSUME NEW r \in RunIds, runs'[r].kind = "retry"
               PROVE  Claiming(r)'
    BY DEF ClaimInv, Claiming
  <2>1. runs'[r] = runs[r]
    OBVIOUS
  <2>2. runs[r].src \in Sources
    BY <2>1, RunTypes
  <2> QED
    BY <2>1, <2>2 DEF FlowInv, ClaimInv, Claiming, IndexStill
<1>3. FreshInv'
  BY DEF FlowInv, FreshInv, Since, CandidateView, Named, IndexStill
<1> QED
  BY <1>1, <1>2, <1>3

LEMMA EventRunIs ==
  ASSUME NEW s \in Sources
  PROVE  /\ EventRun(s) \in RunSet /\ EventRun(s).pc = "queued"
         /\ EventRun(s).kind = "event" /\ EventRun(s).src = s
<1> DEFINE n == NoRun
<1>1. /\ n \in [kind : {"none"}, src : {"none"}, pc : {"none"}, upto : Nat, audit : BOOLEAN,
                view : ViewSet, cand : Nat, claim : [etag : Nat, cand : Nat, lease : Nat]]
  BY DEF NoRun, ViewSet, Absent, NoClaim
<1>2. EventRun(s) = [n EXCEPT !.kind = "event", !.src = s, !.pc = "queued"]
  BY DEF EventRun
<1> DEFINE e == [n EXCEPT !.kind = "event", !.src = s, !.pc = "queued"]
<1> HIDE DEF n
<1>3. /\ e \in [kind : {"event"}, src : {s}, pc : {"queued"}, upto : Nat, audit : BOOLEAN,
                view : ViewSet, cand : Nat, claim : [etag : Nat, cand : Nat, lease : Nat]]
  BY <1>1
<1> HIDE DEF e
<1>4. e \in RunSet /\ e.pc = "queued" /\ e.kind = "event" /\ e.src = s
  BY <1>3 DEF RunSet
<1> QED
  BY <1>2, <1>4 DEF e

(* One dispatch changes; its run may have been submitted. *)
LEMMA TurnFlow ==
  ASSUME Sound, FlowInv, NEW s \in Sources, NEW d \in DispatchSet,
         disp' = [disp EXCEPT ![s] = d], IndexStill, UNCHANGED <<received, job>>,
         outcome' \in [Sources -> {"missing", "running", "success", "failed"}],
         scanned' \in [Sources -> 0..2], trouble' \in Nat,
         \A t \in Sources \ {s} : outcome'[t] = outcome[t] /\ scanned'[t] = scanned[t],
         \/ UNCHANGED runs
         \/ disp[s].log # 0 /\ runs' = [runs EXCEPT ![disp[s].log] = EventRun(s)],
         Ordered(s)', Phased(s)', Scanned(s)', Logged(s)',
         d.log \in {0, disp[s].log} \/ ~HasRunning(s)
  PROVE  /\ Sound' /\ Steady /\ HintsKept
         /\ FileInv' /\ OrderInv' /\ PhaseInv' /\ LogInv' /\ WorkInv' /\ ScanInv' /\ CursorInv'
         /\ d.applied = disp[s].applied => FlowInv'
<1>1. /\ disp' \in [Sources -> DispatchSet] /\ disp'[s] = d
      /\ \A t \in Sources \ {s} : disp'[t] = disp[t]
      /\ runs \in [RunIds -> RunSet \cup {NoRun}]
  BY DEF Sound, FlowTypes
<1>2. EventRun(s) \in RunSet /\ EventRun(s).pc = "queued" /\ EventRun(s).kind = "event"
  BY EventRunIs
<1>3. /\ runs' \in [RunIds -> RunSet \cup {NoRun}]
      /\ \A r \in RunIds : runs'[r] = runs[r] \/ (r = disp[s].log /\ runs'[r] = EventRun(s))
  BY <1>1, <1>2
<1>4. Sound' /\ Steady /\ HintsKept
  <2>1. \A r \in RunIds : runs'[r] = runs[r] \/ runs'[r].pc = "queued"
    BY <1>2, <1>3
  <2>2. job' \in [Sources -> JobSet] /\ received' \in [Sources -> Nat]
    BY DEF Sound, FlowTypes
  <2> QED
    BY <1>1, <1>3, <2>1, <2>2, DispatchSound
<1>5. FileInv'
  BY DEF FlowInv, FileInv, Last, View, IndexStill
<1>6. CursorInv'
  BY DEF FlowInv, CursorInv, Since, IndexStill
<1>7. \A t \in Sources \ {s} : disp[t].log # 0 =>
        disp[t].log \in RunIds /\ runs'[disp[t].log] = runs[disp[t].log]
  <2> SUFFICES ASSUME NEW t \in Sources \ {s}, disp[t].log # 0
               PROVE  disp[t].log \in RunIds /\ runs'[disp[t].log] = runs[disp[t].log]
    OBVIOUS
  <2>1. disp[t].log \in RunIds
    BY DispatchTypes
  <2>2. disp[s].log # disp[t].log
    BY DEF FlowInv, LogInv, Logged
  <2> QED
    BY <1>3, <2>1, <2>2
<1>8. \A t \in Sources \ {s} : Ordered(t)' /\ Phased(t)' /\ Scanned(t)'
  BY <1>1, <1>7 DEF FlowInv, OrderInv, Ordered, PhaseInv, Phased, ScanInv, Scanned, IndexStill
<1>9. \A t \in Sources \ {s} : Logged(t)'
  <2> SUFFICES ASSUME NEW t \in Sources \ {s}, disp[t].log # 0
               PROVE  /\ runs'[disp[t].log] # NoRun =>
                           runs'[disp[t].log].kind = "event" /\ runs'[disp[t].log].src = t
                      /\ \A u \in Sources : disp'[u].log = disp[t].log => u = t
    BY <1>1 DEF Logged
  <2>1. disp'[s].log # disp[t].log
    BY <1>1 DEF Logged
  <2> QED
    BY <1>1, <1>7, <2>1 DEF FlowInv, LogInv, Logged
<1>10. OrderInv' /\ PhaseInv' /\ LogInv' /\ ScanInv'
  BY <1>8, <1>9 DEF OrderInv, PhaseInv, LogInv, ScanInv
<1>11. WorkInv'
  <2>1. \A r \in RunIds : Working(r)' => runs'[r] = runs[r] /\ Working(r)
    BY <1>2, <1>3 DEF Working, Running
  <2>2. \A r \in RunIds : Working(r)' => disp'[runs[r].src].log \in {r, 0}
    <3> SUFFICES ASSUME NEW r \in RunIds, Working(r)'
                 PROVE  disp'[runs[r].src].log \in {r, 0}
      OBVIOUS
    <3>1. Working(r) /\ disp[runs[r].src].log \in {r, 0}
      BY <2>1 DEF FlowInv, WorkInv
    <3>2. runs[r].src \in Sources
      BY <3>1, RunTypes DEF Working, Running
    <3>3. CASE runs[r].src = s
      <4>1. HasRunning(s)
        BY <3>1, <3>3 DEF HasRunning, Working
      <4> QED
        BY <1>1, <3>1, <3>3, <4>1
    <3> QED
      BY <1>1, <3>1, <3>2, <3>3
  <2> QED
    BY <2>1, <2>2 DEF FlowInv, WorkInv
<1>12. ASSUME d.applied = disp[s].applied PROVE FlowInv'
  <2>1. \A t \in Sources : disp'[t].applied = disp[t].applied
    BY <1>1, <1>12
  <2>2. \A r \in RunIds : \/ runs'[r] = runs[r]
                          \/ runs'[r].kind = "event" /\ runs'[r].pc = "queued"
    BY <1>2, <1>3
  <2>3. RunInv' /\ ClaimInv' /\ FreshInv'
    BY <2>1, <2>2, AppliedStays
  <2> QED
    BY <1>5, <1>6, <1>10, <1>11, <2>3 DEF FlowInv
<1> QED
  BY <1>4, <1>5, <1>6, <1>10, <1>11, <1>12

(* What a step of one dispatch keeps, all of it unless it applies something *)
Turned(s, d) ==
  /\ Sound' /\ Steady /\ HintsKept
  /\ FileInv' /\ OrderInv' /\ PhaseInv' /\ LogInv' /\ WorkInv' /\ ScanInv' /\ CursorInv'
  /\ d.applied = disp[s].applied => FlowInv'

LEMMA KeepsIndex ==
  ASSUME DispatcherKeeps
  PROVE  IndexStill /\ UNCHANGED <<received, job>>
  BY DEF DispatcherKeeps, IndexStill, versionVars

LEMMA ClaimsTurn ==
  ASSUME Sound, FlowInv, NEW s \in Sources, NEW d \in DispatchSet,
         d.confirm \in {0, disp[s].confirm}, d.applied <= disp[s].target, Claims(s, d),
         DispatcherKeeps, UNCHANGED <<runs, trouble>>
  PROVE  Turned(s, Claimed(d, s)) /\ disp' = [disp EXCEPT ![s] = Claimed(d, s)]
<1> DEFINE e == Claimed(d, s)
<1>0. /\ disp[s].target \in Nat /\ disp[s].confirm \in Nat /\ received[s] \in Nat
      /\ Len(outbox[s]) \in Nat /\ Ordered(s) /\ Scanned(s) /\ trouble \in Nat
  BY DispatchTypes DEF FlowInv, OrderInv, ScanInv, Sound, FlowTypes
<1>1. /\ e \in DispatchSet /\ e.state = "leased" /\ e.phase = "claimed"
      /\ e.target = received[s] /\ e.log = 0 /\ e.applied = d.applied
      /\ e.confirm = d.confirm
  BY <1>0 DEF Claimed, DispatchSet
<1>2. /\ disp' = [disp EXCEPT ![s] = e] /\ outcome' = [outcome EXCEPT ![s] = "missing"]
      /\ scanned' = [scanned EXCEPT ![s] =
                       IF received[s] = disp[s].target THEN scanned[s] ELSE 0]
  BY DEF Claims, Turns
<1>3. IndexStill /\ UNCHANGED <<received, job>>
  BY KeepsIndex
<1> HIDE DEF e
<1>4. /\ disp'[s] = e /\ outcome'[s] = "missing"
      /\ scanned'[s] = IF received[s] = disp[s].target THEN scanned[s] ELSE 0
      /\ outcome' \in [Sources -> {"missing", "running", "success", "failed"}]
      /\ scanned' \in [Sources -> 0..2]
      /\ \A t \in Sources \ {s} : outcome'[t] = outcome[t] /\ scanned'[t] = scanned[t]
  BY <1>2 DEF Sound, FlowTypes
<1>5. Ordered(s)'
  <2>1. d.applied \in Nat
    BY DEF DispatchSet
  <2> QED
    BY <1>0, <1>1, <1>3, <1>4, <2>1 DEF Ordered, IndexStill
<1>6. Phased(s)' /\ Scanned(s)' /\ Logged(s)'
  BY <1>0, <1>1, <1>3, <1>4 DEF Phased, Scanned, Logged, Ordered
<1>7. Turned(s, e)
  BY <1>0, <1>1, <1>2, <1>3, <1>4, <1>5, <1>6, TurnFlow DEF Turned
<1> QED
  BY <1>2, <1>7 DEF e

LEMMA RetriesTurn ==
  ASSUME Sound, FlowInv, NEW s \in Sources, disp[s].state = "queued",
         NEW marker \in {0, disp[s].target}, marker # 0 => outcome[s] = "success",
         Retries(s, marker), DispatcherKeeps, UNCHANGED runs, trouble' \in Nat
  PROVE  Sound' /\ FlowInv' /\ Steady /\ HintsKept
<1> DEFINE d == [disp[s] EXCEPT !.state = "retry", !.confirm = marker]
<1>0. /\ disp[s] \in DispatchSet /\ disp[s].target \in Nat
      /\ Ordered(s) /\ Phased(s) /\ Scanned(s) /\ Logged(s) /\ marker \in Nat
  BY DispatchTypes DEF FlowInv, OrderInv, PhaseInv, ScanInv, LogInv
<1>1. /\ d \in DispatchSet /\ d.state = "retry" /\ d.phase = disp[s].phase
      /\ d.target = disp[s].target /\ d.log = disp[s].log /\ d.confirm = marker
      /\ d.applied = disp[s].applied
  BY <1>0 DEF DispatchSet
<1>2. disp' = [disp EXCEPT ![s] = d] /\ UNCHANGED <<outcome, scanned>>
  BY DEF Retries, Turns
<1>3. IndexStill /\ UNCHANGED <<received, job>>
  BY KeepsIndex
<1> HIDE DEF d
<1>4. disp'[s] = d /\ \A t \in Sources \ {s} : disp'[t] = disp[t]
  BY <1>2 DEF Sound, FlowTypes
<1>5. Ordered(s)'
  BY <1>0, <1>1, <1>3, <1>4 DEF Ordered, IndexStill
<1>6. Phased(s)' /\ Scanned(s)' /\ Logged(s)'
  BY <1>0, <1>1, <1>2, <1>4 DEF Phased, Scanned, Logged
<1> QED
  BY <1>1, <1>2, <1>3, <1>5, <1>6, TurnFlow DEF Sound, FlowTypes

LEMMA TurnStep ==
  ASSUME Sound, FlowInv, NEW s \in Sources, NEW d \in DispatchSet, Turns(s, d),
         d.applied = disp[s].applied, d.target = disp[s].target,
         d.confirm \in {0, disp[s].confirm},
         DispatcherKeeps, UNCHANGED <<outcome, scanned>>, trouble' \in Nat,
         \/ UNCHANGED runs
         \/ disp[s].log # 0 /\ runs' = [runs EXCEPT ![disp[s].log] = EventRun(s)],
         Phased(s)', Logged(s)', d.log \in {0, disp[s].log} \/ ~HasRunning(s),
         disp[s].state \in {"leased", "queued"} \/ outcome[s] # "success" \/ d.confirm = 0
  PROVE  Sound' /\ FlowInv' /\ Steady /\ HintsKept
<1>0. Ordered(s) /\ Scanned(s) /\ disp[s].target \in Nat
  BY DispatchTypes DEF FlowInv, OrderInv, ScanInv
<1>1. IndexStill /\ UNCHANGED <<received, job>>
  BY KeepsIndex
<1>2. disp' = [disp EXCEPT ![s] = d] /\ disp'[s] = d
  BY DEF Sound, FlowTypes, Turns
<1>3. Ordered(s)' /\ Scanned(s)'
  BY <1>0, <1>1, <1>2 DEF Ordered, Scanned, IndexStill
<1> QED
  BY <1>1, <1>2, <1>3, TurnFlow DEF Sound, FlowTypes

(* The claim of a due range, and what follows a run that proves nothing *)
LEMMA ClaimStep ==
  ASSUME Sound, FlowInv, NEW s \in Sources, Claims(s, disp[s]), DispatcherKeeps,
         UNCHANGED <<runs, trouble>>
  PROVE  Sound' /\ FlowInv' /\ Steady /\ HintsKept
<1>1. disp[s] \in DispatchSet /\ disp[s].applied <= disp[s].target
  BY DispatchTypes DEF FlowInv, OrderInv, Ordered
<1>2. Claimed(disp[s], s).applied = disp[s].applied
  BY <1>1 DEF Claimed, DispatchSet
<1> QED
  BY <1>1, <1>2, ClaimsTurn DEF Turned

LEMMA UnprovenSteps ==
  ASSUME Sound, FlowInv, NEW s \in Sources,
         ClaimDue(s) \/ RunUnproven(s) \/ PublicationUnproven(s) \/ ConfirmBroad(s)
  PROVE  Sound' /\ FlowInv' /\ Steady /\ HintsKept
<1>0. trouble \in Nat
  BY DEF Sound, FlowTypes
<1>1. CASE ClaimDue(s)
  BY <1>1, ClaimStep DEF ClaimDue
<1>2. CASE RunUnproven(s)
  <2>1. trouble' \in Nat
    BY <1>0, <1>2 DEF RunUnproven
  <2> QED
    BY <1>2, <2>1, RetriesTurn DEF RunUnproven
<1>3. CASE PublicationUnproven(s)
  <2>1. \/ Claims(s, disp[s])
        \/ Retries(s, 0) /\ disp[s].state = "queued"
    BY <1>3 DEF PublicationUnproven, ProofDue
  <2>2. DispatcherKeeps /\ UNCHANGED <<runs, trouble>>
    BY <1>3 DEF PublicationUnproven
  <2> QED
    BY <1>0, <2>1, <2>2, ClaimStep, RetriesTurn
<1>4. CASE ConfirmBroad(s)
  <2>1. /\ Retries(s, disp[s].target) /\ disp[s].state = "queued" /\ outcome[s] = "success"
        /\ DispatcherKeeps /\ UNCHANGED <<runs, trouble>>
    BY <1>4 DEF ConfirmBroad, ProofDue
  <2> QED
    BY <1>0, <2>1, RetriesTurn
<1> QED
  BY <1>1, <1>2, <1>3, <1>4

(* What is readable when a range is proved is announced at its end or later. *)
LEMMA ProvedRange ==
  ASSUME Sound, FlowInv, NEW s \in Sources, Proof(s) = "complete", ~cursor[s].missing,
         outcome[s] = "success"
  PROVE  /\ Named(s) => /\ rows[version[s].cand].parse = "completed"
                        /\ Since(s, disp[s].target, CandidateView(s))
         /\ \A r \in RunIds : runs[r].src = s /\ runs[r].kind = "event" =>
              runs[r].pc \notin Listed
<1>1. IndexAgrees(s) /\ (cursor[s].file # Absent => Readable(s))
  BY DEF Proof
<1>2. ASSUME Named(s)
      PROVE  /\ rows[version[s].cand].parse = "completed"
             /\ Since(s, disp[s].target, CandidateView(s))
  <2>1. cursor[s].file # Absent /\ cursor[s].changes >= disp[s].target
    BY <1>1, <1>2 DEF IndexAgrees, Named
  <2>2. rows[version[s].cand].parse = "completed" /\ CandidateView(s) = cursor[s].file
    BY <1>1, <2>1 DEF Readable, CandidateView
  <2>3. PICK i \in 1..Len(outbox[s]) :
          cursor[s].changes <= i /\ outbox[s][i].view = cursor[s].file
    BY <2>1 DEF FlowInv, CursorInv, Since
  <2>4. disp[s].target \in Nat /\ cursor[s].changes \in Nat /\ Len(outbox[s]) \in Nat
    <3>1. cursor[s] \in CursorSet
      BY DEF Sound, FlowTypes
    <3> QED
      BY <3>1, DispatchTypes DEF CursorSet
  <2>5. disp[s].target <= i
    BY <2>1, <2>3, <2>4
  <2> QED
    BY <2>2, <2>3, <2>5 DEF Since
<1>3. ASSUME NEW r \in RunIds, runs[r].src = s, runs[r].kind = "event", runs[r].pc \in Listed
      PROVE  FALSE
  <2>1. Working(r)
    BY <1>3 DEF Working, Listed
  <2>2. disp[s].log \in {r, 0}
    BY <1>3, <2>1 DEF FlowInv, WorkInv
  <2>3. disp[s].log # 0 /\ runs[disp[s].log] = NoRun
    BY DEF FlowInv, PhaseInv, Phased
  <2> QED
    BY <1>3, <2>2, <2>3 DEF NoRun
<1> QED
  BY <1>2, <1>3

LEMMA ApplyStep ==
  ASSUME Sound, FlowInv, NEW s \in Sources, Apply(s)
  PROVE  Sound' /\ FlowInv' /\ Steady /\ HintsKept
<1> DEFINE done == [disp[s] EXCEPT !.state = "idle", !.applied = disp[s].target, !.confirm = 0]
<1>1. /\ disp[s].state = "queued" /\ outcome[s] = "success" /\ ~cursor[s].missing
      /\ Proof(s) = "complete" /\ DispatcherKeeps /\ UNCHANGED <<runs, trouble>>
  BY DEF Apply, ProofDue
<1>2. \/ Claims(s, done)
      \/ Turns(s, done) /\ UNCHANGED <<outcome, scanned>>
  BY DEF Apply
<1>3. disp[s] \in DispatchSet /\ disp[s].target \in Nat /\ Ordered(s) /\ Phased(s)
      /\ Logged(s) /\ Scanned(s)
  BY DispatchTypes DEF FlowInv, OrderInv, PhaseInv, LogInv, ScanInv
<1>4. /\ done \in DispatchSet /\ done.applied = disp[s].target /\ done.confirm = 0
      /\ done.target = disp[s].target /\ done.log = disp[s].log /\ done.state = "idle"
      /\ done.phase = disp[s].phase
  BY <1>3 DEF DispatchSet
<1> HIDE DEF done
<1>5. IndexStill /\ UNCHANGED <<received, job>>
  BY <1>1, KeepsIndex
<1>6. PICK e \in DispatchSet : /\ Turned(s, e) /\ disp' = [disp EXCEPT ![s] = e]
                              /\ e.applied = disp[s].target
  <2>1. CASE Claims(s, done)
    <3>1. Turned(s, Claimed(done, s)) /\ disp' = [disp EXCEPT ![s] = Claimed(done, s)]
      BY <1>1, <1>3, <1>4, <2>1, ClaimsTurn
    <3>2. Claimed(done, s) \in DispatchSet /\ Claimed(done, s).applied = done.applied
      BY <1>4, DispatchTypes DEF Claimed, DispatchSet
    <3> QED
      BY <1>4, <3>1, <3>2
  <2>2. CASE Turns(s, done) /\ UNCHANGED <<outcome, scanned>>
    <3>1. disp' = [disp EXCEPT ![s] = done]
      BY <2>2 DEF Turns
    <3>2. disp'[s] = done /\ \A t \in Sources \ {s} : disp'[t] = disp[t]
      BY <3>1 DEF Sound, FlowTypes
    <3>3. Ordered(s)'
      BY <1>3, <1>4, <1>5, <3>2 DEF Ordered, IndexStill
    <3>4. Phased(s)' /\ Logged(s)' /\ Scanned(s)'
      BY <1>1, <1>3, <1>4, <2>2, <3>2 DEF Phased, Logged, Scanned
    <3>5. Turned(s, done)
      BY <1>1, <1>4, <1>5, <2>2, <3>1, <3>3, <3>4, TurnFlow DEF Turned, Sound, FlowTypes
    <3> QED
      BY <1>4, <3>1, <3>5
  <2> QED
    BY <1>2, <2>1, <2>2
<1>7. disp'[s].applied = disp[s].target /\ \A t \in Sources \ {s} : disp'[t] = disp[t]
  BY <1>6 DEF Sound, FlowTypes
<1>8. UNCHANGED <<version, rows, outbox, runs>>
  BY <1>1, <1>5 DEF IndexStill
<1>9. /\ Named(s) => /\ rows[version[s].cand].parse = "completed"
                     /\ Since(s, disp[s].target, CandidateView(s))
      /\ \A r \in RunIds : runs[r].src = s /\ runs[r].kind = "event" =>
           runs[r].pc \notin Listed
  BY <1>1, ProvedRange
<1>10. RunInv'
  <2> SUFFICES ASSUME NEW r \in RunIds, runs[r].pc \in Listed
               PROVE  Reading(r)'
    BY <1>8 DEF RunInv, Reading
  <2>1. Reading(r) /\ runs[r].src \in Sources
    BY RunTypes DEF FlowInv, RunInv, Listed, Running
  <2> QED
    BY <1>7, <1>8, <1>9, <2>1 DEF Reading, Since
<1>11. ClaimInv'
  <2> SUFFICES ASSUME NEW r \in RunIds, runs[r].kind = "retry"
               PROVE  Claiming(r)'
    BY <1>8 DEF ClaimInv, Claiming
  <2>1. Claiming(r) /\ runs[r].src \in Sources
    BY RunTypes DEF FlowInv, ClaimInv
  <2>2. runs[r].src = s => version[s].cand # runs[r].claim.cand
    <3> SUFFICES ASSUME runs[r].src = s, version[s].cand = runs[r].claim.cand
                 PROVE  FALSE
      OBVIOUS
    <3>1. version[s].cand \in DOMAIN rows /\ rows[version[s].cand].parse = "failed"
      BY <2>1 DEF Claiming
    <3>2. version[s].cand # 0
      BY <3>1, RowTypes DEF Sound
    <3>3. Named(s)
      BY <3>2 DEF Sound, IndexInv, VersionNames, Named
    <3> QED
      BY <1>9, <3>1, <3>3
  <2> QED
    BY <1>7, <1>8, <2>1, <2>2 DEF Claiming
<1>12. FreshInv'
  <2> SUFFICES ASSUME NEW t \in Sources, Named(t)
               PROVE  Since(t, disp[t].applied, CandidateView(t))'
    BY <1>8 DEF FreshInv, Named
  <2>1. Since(t, disp'[t].applied, CandidateView(t))
    BY <1>7, <1>9 DEF FlowInv, FreshInv
  <2> QED
    BY <1>8, <2>1 DEF Since, CandidateView
<1> QED
  BY <1>6, <1>10, <1>11, <1>12 DEF Turned, FlowInv

(* A claim is prepared, submitted and recorded, or its worker is lost. *)
LEMMA SubmitSteps ==
  ASSUME Sound, FlowInv, NEW s \in Sources,
         Prepare(s) \/ Enqueue(s) \/ FinishDispatch(s) \/ DispatcherDies(s) \/ RecoverLease(s)
  PROVE  Sound' /\ FlowInv' /\ Steady /\ HintsKept
<1> DEFINE old == disp[s]
           Kept(d) == /\ d \in DispatchSet /\ d.applied = old.applied
                      /\ d.target = old.target
<1>0. /\ old \in DispatchSet /\ old.log \in RunIds \cup {0} /\ trouble \in Nat
      /\ Phased(s) /\ Logged(s) /\ old.confirm \in Nat
      /\ old.applied \in Nat /\ old.target \in Nat
      /\ runs \in [RunIds -> RunSet \cup {NoRun}]
  BY DispatchTypes DEF FlowInv, PhaseInv, LogInv, Sound, FlowTypes
<1>1. ASSUME NEW d, Turns(s, d)
      PROVE  disp'[s] = d /\ \A t \in Sources \ {s} : disp'[t] = disp[t]
  BY <1>1 DEF Turns, Sound, FlowTypes
<1>2. CASE Prepare(s)
  <2>1. /\ old.phase = "claimed" /\ DispatcherKeeps /\ UNCHANGED <<outcome, scanned, runs, trouble>>
    BY <1>2 DEF Prepare
  <2>2. old.state = "leased" /\ old.log = 0 /\ outcome[s] = "missing"
    BY <1>0, <2>1 DEF Phased
  <2>3. CASE Turns(s, [disp[s] EXCEPT !.state = "retry", !.phase = "none", !.confirm = 0])
    <3> DEFINE d == [old EXCEPT !.state = "retry", !.phase = "none", !.confirm = 0]
    <3>1. Kept(d) /\ d.confirm = 0 /\ d.log = old.log /\ d.phase = "none"
      BY <1>0 DEF DispatchSet
    <3>2. Turns(s, d)
      BY <2>3
    <3> HIDE DEF d
    <3>3. disp'[s] = d
      BY <1>1, <3>2
    <3>4. Phased(s)' /\ Logged(s)'
      BY <2>1, <2>2, <3>1, <3>3 DEF Phased, Logged
    <3> QED
      BY <1>0, <2>1, <2>2, <3>1, <3>2, <3>4, TurnStep
  <2>4. CASE /\ ~HasRunning(s) /\ LogLeft
             /\ Turns(s, [disp[s] EXCEPT !.phase = "prepared", !.log = FreshLog])
    <3> DEFINE l == FreshLog
               d == [old EXCEPT !.phase = "prepared", !.log = l]
    <3>1. l \in RunIds /\ runs[l] = NoRun /\ \A t \in Sources : disp[t].log # l
      BY <2>4 DEF FreshLog, LogLeft, Unused
    <3>2. Turns(s, d)
      BY <2>4
    <3> HIDE DEF l
    <3>3. /\ Kept(d) /\ d.confirm = old.confirm /\ d.log = l /\ d.phase = "prepared"
          /\ d.state = "leased"
      BY <1>0, <2>2, <3>1 DEF DispatchSet
    <3> HIDE DEF d
    <3>4. disp'[s] = d /\ \A t \in Sources \ {s} : disp'[t] = disp[t]
      BY <1>1, <3>2
    <3>5. Phased(s)'
      BY <2>1, <2>2, <3>1, <3>3, <3>4, LogsPositive DEF Phased
    <3>6. Logged(s)'
      BY <2>1, <3>1, <3>3, <3>4 DEF Logged
    <3> QED
      BY <1>0, <2>1, <2>2, <2>4, <3>2, <3>3, <3>5, <3>6, TurnStep
  <2> QED
    BY <1>2, <2>3, <2>4 DEF Prepare
<1>3. CASE Enqueue(s)
  <2>1. /\ old.phase = "prepared" /\ DispatcherKeeps /\ UNCHANGED <<outcome, scanned>>
        /\ trouble' \in Nat
    BY <1>0, <1>3 DEF Enqueue
  <2>2. /\ old.state = "leased" /\ old.log # 0 /\ runs[old.log] = NoRun
        /\ outcome[s] = "missing" /\ old.log \in RunIds
    BY <1>0, <2>1 DEF Phased
  <2>3. /\ runs' = runs \/ runs' = [runs EXCEPT ![old.log] = EventRun(s)]
        /\ \/ Turns(s, [old EXCEPT !.phase = "sent"])
           \/ Turns(s, [old EXCEPT !.phase = "lost", !.confirm = 0])
    BY <1>3 DEF Enqueue
  <2>4. ASSUME NEW d, Turns(s, d), Kept(d), d.confirm \in {0, old.confirm}, d.log = old.log,
               d.phase \in {"sent", "lost"}, d.state = old.state
        PROVE  Sound' /\ FlowInv' /\ Steady /\ HintsKept
    <3>1. disp'[s] = d /\ \A t \in Sources \ {s} : disp'[t] = disp[t]
      BY <1>1, <2>4
    <3>2. runs'[old.log] \in {NoRun, EventRun(s)}
      BY <1>0, <2>2, <2>3
    <3>3. Phased(s)'
      BY <2>1, <2>2, <2>4, <3>1 DEF Phased
    <3>4. Logged(s)'
      BY <1>0, <2>2, <2>4, <3>1, <3>2, EventRunIs DEF Logged
    <3> QED
      BY <1>0, <2>1, <2>2, <2>3, <2>4, <3>3, <3>4, TurnStep
  <2>5. /\ Kept([old EXCEPT !.phase = "sent"])
        /\ [old EXCEPT !.phase = "sent"].confirm = old.confirm
        /\ [old EXCEPT !.phase = "sent"].log = old.log
        /\ [old EXCEPT !.phase = "sent"].phase = "sent"
        /\ [old EXCEPT !.phase = "sent"].state = old.state
    BY <1>0 DEF DispatchSet
  <2>6. /\ Kept([old EXCEPT !.phase = "lost", !.confirm = 0])
        /\ [old EXCEPT !.phase = "lost", !.confirm = 0].confirm = 0
        /\ [old EXCEPT !.phase = "lost", !.confirm = 0].log = old.log
        /\ [old EXCEPT !.phase = "lost", !.confirm = 0].phase = "lost"
        /\ [old EXCEPT !.phase = "lost", !.confirm = 0].state = old.state
    BY <1>0 DEF DispatchSet
  <2> QED
    BY <2>3, <2>4, <2>5, <2>6
<1>4. CASE FinishDispatch(s)
  <2> DEFINE d == [old EXCEPT !.state = "queued", !.phase = "none", !.dispatched = old.target]
  <2>1. /\ old.phase = "sent" /\ DispatcherKeeps
        /\ UNCHANGED <<outcome, scanned, runs, trouble>> /\ Turns(s, d)
    BY <1>4 DEF FinishDispatch
  <2>2. old.state = "leased"
    BY <1>0, <2>1 DEF Phased
  <2>3. Kept(d) /\ d.confirm = old.confirm /\ d.log = old.log /\ d.phase = "none"
    BY <1>0 DEF DispatchSet
  <2> HIDE DEF d
  <2>4. disp'[s] = d /\ \A t \in Sources \ {s} : disp'[t] = disp[t]
    BY <1>1, <2>1
  <2>5. Phased(s)' /\ Logged(s)'
    BY <1>0, <2>1, <2>3, <2>4 DEF Phased, Logged
  <2> QED
    BY <1>0, <2>1, <2>2, <2>3, <2>5, TurnStep
<1>5. CASE DispatcherDies(s)
  <2> DEFINE d == [old EXCEPT !.phase = "lost"]
  <2>1. /\ old.phase \in {"claimed", "prepared", "sent"} /\ DispatcherKeeps
        /\ UNCHANGED <<outcome, scanned, runs>> /\ trouble' \in Nat /\ Turns(s, d)
    BY <1>0, <1>5 DEF DispatcherDies
  <2>2. old.state = "leased"
    BY <1>0, <2>1 DEF Phased
  <2>3. Kept(d) /\ d.confirm = old.confirm /\ d.log = old.log /\ d.phase = "lost"
        /\ d.state = old.state
    BY <1>0 DEF DispatchSet
  <2> HIDE DEF d
  <2>4. disp'[s] = d /\ \A t \in Sources \ {s} : disp'[t] = disp[t]
    BY <1>1, <2>1
  <2>5. Phased(s)' /\ Logged(s)'
    BY <1>0, <2>1, <2>2, <2>3, <2>4 DEF Phased, Logged
  <2> QED
    BY <1>0, <2>1, <2>2, <2>3, <2>5, TurnStep
<1>6. CASE RecoverLease(s)
  <2>1. old.phase = "lost" /\ DispatcherKeeps /\ UNCHANGED <<runs, trouble>>
    BY <1>6 DEF RecoverLease
  <2>2. CASE /\ Turns(s, [disp[s] EXCEPT !.state = "queued", !.phase = "none",
                                      !.dispatched = disp[s].target, !.confirm = 0])
             /\ UNCHANGED <<outcome, scanned>>
    <3> DEFINE d == [old EXCEPT !.state = "queued", !.phase = "none",
                                !.dispatched = old.target, !.confirm = 0]
    <3>1. Turns(s, d)
      BY <2>2
    <3>2. Kept(d) /\ d.confirm = 0 /\ d.log = old.log /\ d.phase = "none"
      BY <1>0 DEF DispatchSet
    <3> HIDE DEF d
    <3>3. disp'[s] = d /\ \A t \in Sources \ {s} : disp'[t] = disp[t]
      BY <1>1, <3>1
    <3>4. Phased(s)' /\ Logged(s)'
      BY <1>0, <2>1, <2>2, <3>2, <3>3 DEF Phased, Logged
    <3> QED
      BY <1>0, <2>1, <2>2, <3>1, <3>2, <3>4, TurnStep
  <2>3. CASE Claims(s, disp[s])
    BY <2>1, <2>3, ClaimStep
  <2> QED
    BY <1>6, <2>2, <2>3 DEF RecoverLease
<1> QED
  BY <1>2, <1>3, <1>4, <1>5, <1>6

LEMMA ReceiveStep ==
  ASSUME Sound, FlowInv, NEW s \in Sources, Receive(s)
  PROVE  Sound' /\ FlowInv' /\ Steady /\ HintsKept
<1>1. /\ received' = [received EXCEPT ![s] = received[s] + 1] /\ received[s] < Len(outbox[s])
      /\ IndexStill /\ UNCHANGED <<job, disp, outcome, runs, scanned, trouble>>
  BY DEF Receive, versionVars, IndexStill
<1>2. Sound' /\ Steady /\ HintsKept
  <2>1. received' \in [Sources -> Nat]
    BY <1>1 DEF Sound, FlowTypes
  <2> QED
    BY <1>1, <2>1, DispatchSound DEF Sound, FlowTypes
<1>3. OrderInv'
  <2> SUFFICES ASSUME NEW t \in Sources
               PROVE  Ordered(t)'
    BY DEF OrderInv
  <2>1. received[t] \in Nat /\ Len(outbox[t]) \in Nat /\ disp[t].target \in Nat /\ Ordered(t)
        /\ received \in [Sources -> Nat]
    BY DispatchTypes DEF FlowInv, OrderInv, Sound, FlowTypes
  <2> QED
    BY <1>1, <2>1 DEF Ordered, IndexStill
<1>4. RunInv' /\ ClaimInv' /\ FreshInv'
  BY <1>1, AppliedStays
<1>5. FileInv' /\ PhaseInv' /\ LogInv' /\ WorkInv' /\ ScanInv' /\ CursorInv'
  BY <1>1 DEF FlowInv, FileInv, View, Last, PhaseInv, Phased, LogInv, Logged, WorkInv, Working,
              ScanInv, Scanned, CursorInv, Since, IndexStill
<1> QED
  BY <1>2, <1>3, <1>4, <1>5 DEF FlowInv

(* A failed candidate is claimed for a run of its own, under a free log. *)
LEMMA RetryStep ==
  ASSUME Sound, FlowInv, NEW s \in Sources, DispatchRetry(s)
  PROVE  Sound' /\ FlowInv' /\ Steady /\ HintsKept
<1> DEFINE l == FreshLog
           c == [ClaimOf(s) EXCEPT !.lease = job[s].lease + 1]
           n == [NoRun EXCEPT !.kind = "retry", !.src = s, !.pc = "queued", !.claim = c]
<1>1. /\ l \in RunIds /\ runs[l] = NoRun /\ \A t \in Sources : disp[t].log # l
      /\ Failed(s)
  BY DEF DispatchRetry, FreshLog, LogLeft, Unused, Claimable
<1>2. /\ runs' = [runs EXCEPT ![l] = n]
      /\ job' = [job EXCEPT ![s] = [job[s] EXCEPT !.state = "leased", !.lease = job[s].lease + 1,
                                                  !.attempts = job[s].attempts + 1]]
      /\ IndexStill /\ UNCHANGED <<received, disp, outcome, scanned, trouble>>
  BY DEF DispatchRetry, IndexStill, TakeLease
<1>3. /\ version[s].etag \in Nat /\ version[s].cand \in Nat /\ job[s] \in JobSet
      /\ job[s].lease \in Nat /\ job[s].attempts \in Nat
  BY DEF Sound, IndexInv, VersionSet, JobSet
<1>4. c \in [etag : Nat, cand : Nat, lease : Nat] /\ c.cand = version[s].cand
  BY <1>3 DEF ClaimOf
<1> HIDE DEF c, l
<1>5. n \in RunSet /\ n.kind = "retry" /\ n.src = s /\ n.pc = "queued" /\ n.claim = c
  <2> DEFINE e == NoRun
  <2>1. e \in [kind : {"none"}, src : {"none"}, pc : {"none"}, upto : Nat, audit : BOOLEAN,
               view : ViewSet, cand : Nat, claim : [etag : Nat, cand : Nat, lease : Nat]]
    BY DEF NoRun, ViewSet, Absent, NoClaim
  <2>2. n = [e EXCEPT !.kind = "retry", !.src = s, !.pc = "queued", !.claim = c]
    OBVIOUS
  <2> HIDE DEF e, n
  <2> QED
    BY <1>4, <2>1, <2>2 DEF RunSet
<1> HIDE DEF n
<1>6. /\ runs' \in [RunIds -> RunSet \cup {NoRun}] /\ runs'[l] = n
      /\ \A r \in RunIds \ {l} : runs'[r] = runs[r]
  BY <1>1, <1>2, <1>5 DEF Sound, FlowTypes
<1>7. Sound' /\ Steady /\ HintsKept
  <2>1. job' \in [Sources -> JobSet]
    <3> DEFINE j == [job[s] EXCEPT !.state = "leased", !.lease = job[s].lease + 1,
                                   !.attempts = job[s].attempts + 1]
    <3>1. j \in JobSet
      <4>1. job[s].lease + 1 \in Nat /\ job[s].attempts + 1 \in Nat
        BY <1>3
      <4> QED
        BY <1>3, <4>1 DEF JobSet
    <3>2. job' = [job EXCEPT ![s] = j] /\ job \in [Sources -> JobSet]
      BY <1>2 DEF Sound
    <3> HIDE DEF j
    <3> QED
      BY <3>1, <3>2
  <2>2. \A r \in RunIds : runs'[r] = runs[r] \/ runs'[r].pc = "queued"
    BY <1>5, <1>6
  <2> QED
    BY <1>2, <1>6, <2>1, <2>2, DispatchSound DEF Sound, FlowTypes
<1>8. RunInv'
  <2> SUFFICES ASSUME NEW r \in RunIds, runs'[r].pc \in Listed
               PROVE  Reading(r)'
    BY DEF RunInv, Reading
  <2>1. r # l
    BY <1>5, <1>6 DEF Listed, Running
  <2> QED
    BY <1>2, <1>6, <2>1 DEF FlowInv, RunInv, Reading, Since, IndexStill
<1>9. ClaimInv'
  <2> SUFFICES ASSUME NEW r \in RunIds, runs'[r].kind = "retry"
               PROVE  Claiming(r)'
    BY DEF ClaimInv, Claiming
  <2>1. CASE r = l
    <3>1. /\ version[s].cand \in DOMAIN rows /\ rows[version[s].cand].source = s
          /\ rows[version[s].cand].parse = "failed"
      BY <1>1 DEF Failed, Sound, IndexInv, VersionNames
    <3>2. "queued" \notin Listed
      BY DEF Listed, Running
    <3> QED
      BY <1>2, <1>4, <1>5, <1>6, <2>1, <3>1, <3>2 DEF Claiming, IndexStill
  <2>2. CASE r # l
    BY <1>2, <1>6, <2>2 DEF FlowInv, ClaimInv, Claiming, IndexStill
  <2> QED
    BY <2>1, <2>2
<1>10. FreshInv' /\ FileInv' /\ OrderInv' /\ ScanInv' /\ CursorInv'
  BY <1>2 DEF FlowInv, FreshInv, Since, CandidateView, Named, FileInv, View, Last, OrderInv,
              Ordered, ScanInv, Scanned, CursorInv, IndexStill
<1>11. \A t \in Sources : disp[t].log # 0 =>
         disp[t].log \in RunIds /\ runs'[disp[t].log] = runs[disp[t].log]
  BY <1>1, <1>6, DispatchTypes
<1>12. PhaseInv' /\ LogInv'
  BY <1>2, <1>11 DEF FlowInv, PhaseInv, Phased, LogInv, Logged
<1>13. WorkInv'
  <2>1. \A r \in RunIds : Working(r)' => r # l /\ runs'[r] = runs[r] /\ Working(r)
    BY <1>5, <1>6 DEF Working
  <2> QED
    BY <1>2, <2>1 DEF FlowInv, WorkInv
<1> QED
  BY <1>7, <1>8, <1>9, <1>10, <1>12, <1>13 DEF FlowInv

LEMMA DispatchStep ==
  ASSUME Sound, FlowInv, NEW s \in Sources, DispatchSteps(s)
  PROVE  Sound' /\ FlowInv' /\ Steady /\ HintsKept
<1>1. CASE RetryLeaseEnds(s) \/ RetryWindowEnds(s)
  <2>1. Sound' /\ Steady /\ FlowStill /\ UNCHANGED file
    BY <1>1, RetryTimes
  <2> QED
    BY <2>1, StillFlows
<1> QED
  BY <1>1, ReceiveStep, UnprovenSteps, ApplyStep, SubmitSteps, RetryStep DEF DispatchSteps

----------------------------------------------------------------------------
(* The runs *)

(* What becomes of a run: its claim stays, and what it reads next is no older. *)
Onward(r, rec) ==
  rec # NoRun =>
    /\ rec.kind = runs[r].kind /\ rec.src = runs[r].src /\ rec.claim = runs[r].claim
    /\ rec.pc \in Listed =>
         /\ \/ runs[r].pc \in Listed /\ rec.upto = runs[r].upto
            \/ /\ rec.upto = Len(outbox[rec.src])
               /\ rec.kind = "event" => disp[rec.src].log = r
         /\ rec.pc # "listed" /\ rec.view # Absent => Since(rec.src, rec.upto, rec.view)
         /\ rec.pc = "made" => rec.view # Absent

(* What its log says then; only the end of an event run counts a scan. *)
Says(r, rec) ==
  \/ UNCHANGED <<outcome, scanned>>
  \/ \E what \in {"running", "failed"} : LogSays(r, what) /\ UNCHANGED scanned
  \/ /\ LogSays(r, "success") /\ rec = NoRun
     /\ \/ runs[r].kind = "retry" /\ UNCHANGED scanned
        \/ scanned' = [scanned EXCEPT ![runs[r].src] = IF @ < 2 THEN @ + 1 ELSE @]

RunStep(r, rec) ==
  /\ runs[r] # NoRun /\ RunGoes(r, rec) /\ Onward(r, rec) /\ Says(r, rec)
  /\ UNCHANGED <<file, embedding, job, outbox, received, disp>>

LEMMA RunMoved ==
  ASSUME Sound, NEW r \in RunIds, NEW rec \in RunSet \cup {NoRun}, RunStep(r, rec)
  PROVE  /\ runs' \in [RunIds -> RunSet \cup {NoRun}] /\ runs'[r] = rec
         /\ \A q \in RunIds \ {r} : runs'[q] = runs[q]
         /\ runs[r] \in RunSet /\ runs[r].src \in Sources
         /\ UNCHANGED <<file, embedding, job, outbox, received, disp>> /\ HintsKept
<1>1. runs \in [RunIds -> RunSet \cup {NoRun}] /\ runs[r] # NoRun
      /\ runs' = [runs EXCEPT ![r] = rec]
  BY DEF Sound, FlowTypes, RunStep, RunGoes
<1>2. UNCHANGED <<file, embedding, job, outbox, received, disp>>
  BY DEF RunStep
<1>3. HintsKept
  BY <1>2 DEF HintsKept, Sound, FlowTypes
<1> QED
  BY <1>1, <1>2, <1>3, RunTypes

(* What its own dispatch then says of a run *)
LEMMA RunSaid ==
  ASSUME Sound, FlowInv, NEW r \in RunIds, NEW rec \in RunSet \cup {NoRun}, RunStep(r, rec)
  PROVE  /\ outcome' \in [Sources -> {"missing", "running", "success", "failed"}]
         /\ scanned' \in [Sources -> 0..2]
         /\ \A s \in Sources :
              /\ scanned[s] <= scanned'[s]
              /\ disp[s].log # r => outcome'[s] = outcome[s]
              /\ disp[s].log = r =>
                   /\ runs[r].kind = "event" /\ runs[r].src = s /\ outcome[s] # "success"
                   /\ outcome'[s] = "success" =>
                        rec = NoRun /\ scanned'[s] >= 1 /\ (scanned[s] >= 1 => scanned'[s] = 2)
<1>0. /\ \A s \in Sources : scanned[s] \in 0..2
      /\ scanned \in [Sources -> 0..2]
      /\ outcome \in [Sources -> {"missing", "running", "success", "failed"}]
      /\ runs[r] # NoRun /\ runs[r].src \in Sources
  BY RunMoved DEF Sound, FlowTypes, RunStep
<1>1. \A s \in Sources : disp[s].log = r =>
        runs[r].kind = "event" /\ runs[r].src = s /\ outcome[s] # "success"
  BY <1>0, LogsPositive DEF FlowInv, LogInv, Logged, PhaseInv, Phased
<1>2. CASE UNCHANGED <<outcome, scanned>>
  BY <1>0, <1>1, <1>2
<1>3. CASE \E what \in {"running", "failed"} : LogSays(r, what) /\ UNCHANGED scanned
  BY <1>0, <1>1, <1>3 DEF LogSays
<1>4. CASE LogSays(r, "success") /\ rec = NoRun /\ runs[r].kind = "retry" /\ UNCHANGED scanned
  BY <1>0, <1>1, <1>4 DEF LogSays
<1>5. CASE /\ LogSays(r, "success") /\ rec = NoRun
           /\ scanned' = [scanned EXCEPT ![runs[r].src] = IF @ < 2 THEN @ + 1 ELSE @]
  <2>1. /\ outcome' \in [Sources -> {"missing", "running", "success", "failed"}]
        /\ \A s \in Sources : disp[s].log # r => outcome'[s] = outcome[s]
    BY <1>0, <1>5 DEF LogSays
  <2>2. /\ scanned' \in [Sources -> 0..2]
        /\ \A s \in Sources : /\ scanned[s] <= scanned'[s]
                              /\ s = runs[r].src => /\ scanned'[s] >= 1
                                                    /\ scanned[s] >= 1 => scanned'[s] = 2
    BY <1>0, <1>5
  <2> QED
    BY <1>1, <1>5, <2>1, <2>2
<1> QED
  BY <1>2, <1>3, <1>4, <1>5 DEF RunStep, Says

LEMMA RunFlow ==
  ASSUME Sound, FlowInv, NEW r \in RunIds, NEW rec \in RunSet \cup {NoRun}, RunStep(r, rec),
         rec.kind = "event" /\ rec.pc \in Listed =>
           runs[r].pc \in Listed \/ disp[rec.src].log = r
  PROVE  FileInv' /\ OrderInv' /\ PhaseInv' /\ LogInv' /\ WorkInv' /\ ScanInv' /\ RunInv'
<1>1. /\ runs'[r] = rec /\ \A q \in RunIds \ {r} : runs'[q] = runs[q]
      /\ runs[r] \in RunSet /\ runs[r] # NoRun /\ runs[r].src \in Sources
      /\ UNCHANGED <<file, outbox, received, disp>> /\ Onward(r, rec)
  BY RunMoved DEF RunStep
<1>2. \A s \in Sources :
        /\ scanned[s] <= scanned'[s] /\ scanned[s] \in 0..2 /\ scanned'[s] \in 0..2
        /\ disp[s].log # r => outcome'[s] = outcome[s]
        /\ disp[s].log = r =>
             /\ runs[r].kind = "event" /\ runs[r].src = s /\ outcome[s] # "success"
             /\ outcome'[s] = "success" =>
                  rec = NoRun /\ scanned'[s] >= 1 /\ (scanned[s] >= 1 => scanned'[s] = 2)
  BY RunSaid DEF Sound, FlowTypes
<1>3. FileInv' /\ OrderInv'
  BY <1>1 DEF FlowInv, FileInv, View, Last, OrderInv, Ordered
<1>4. PhaseInv' /\ LogInv' /\ ScanInv'
  <2> SUFFICES ASSUME NEW s \in Sources
               PROVE  Phased(s)' /\ Logged(s)' /\ Scanned(s)'
    BY DEF PhaseInv, LogInv, ScanInv
  <2>1. Phased(s) /\ Logged(s) /\ Scanned(s) /\ disp[s].log \in RunIds \cup {0}
    BY DispatchTypes DEF FlowInv, PhaseInv, LogInv, ScanInv
  <2>2. CASE disp[s].log # r
    <3>1. disp[s].log # 0 => runs'[disp[s].log] = runs[disp[s].log]
      BY <1>1, <2>1, <2>2
    <3>2. outcome'[s] = outcome[s] /\ scanned[s] <= scanned'[s]
      BY <1>2, <2>2
    <3>3. Phased(s)' /\ Logged(s)'
      BY <1>1, <2>1, <3>1, <3>2 DEF Phased, Logged
    <3>4. Scanned(s)'
      BY <1>1, <1>2, <2>1, <3>2 DEF Scanned
    <3> QED
      BY <3>3, <3>4
  <2>3. CASE disp[s].log = r
    <3>1. Phased(s)'
      BY <1>1, <1>2, <2>1, <2>3, LogsPositive DEF Phased
    <3>2. Logged(s)'
      BY <1>1, <1>2, <2>1, <2>3 DEF Logged, Onward
    <3>3. Scanned(s)'
      BY <1>1, <1>2, <2>1, <2>3 DEF Scanned
    <3> QED
      BY <3>1, <3>2, <3>3
  <2> QED
    BY <2>2, <2>3
<1>5. WorkInv'
  <2>1. ASSUME NEW q \in RunIds, Working(q)'
        PROVE  /\ runs'[q].src = runs[q].src
               /\ disp[runs[q].src].log \in {q, 0}
               /\ Working(q) \/ disp[runs[q].src].log = q
    <3>1. CASE q # r
      <4>1. Working(q) /\ runs'[q] = runs[q]
        BY <1>1, <2>1, <3>1 DEF Working
      <4> QED
        BY <4>1 DEF FlowInv, WorkInv
    <3>2. CASE q = r
      <4>1. rec.kind = "event" /\ rec.pc \in Listed /\ rec # NoRun
        BY <1>1, <2>1, <3>2 DEF Working, Listed, NoRun
      <4>2. rec.src = runs[r].src /\ runs[r].kind = "event"
        BY <1>1, <4>1 DEF Onward
      <4>3. Working(r) \/ disp[runs[r].src].log = r
        BY <4>1, <4>2 DEF Working, Listed
      <4> QED
        BY <1>1, <3>2, <4>2, <4>3 DEF FlowInv, WorkInv
    <3> QED
      BY <3>1, <3>2
  <2>2. ASSUME NEW p \in RunIds, NEW q \in RunIds, Working(p)', Working(q)',
               runs'[p].src = runs'[q].src
        PROVE  p = q
    <3>1. /\ runs[p].src = runs[q].src
          /\ disp[runs[q].src].log \in {q, 0} /\ disp[runs[q].src].log \in {p, 0}
          /\ Working(p) \/ disp[runs[q].src].log = p
          /\ Working(q) \/ disp[runs[q].src].log = q
      BY <2>1, <2>2
    <3> QED
      BY <3>1, LogsPositive DEF FlowInv, WorkInv
  <2> QED
    BY <1>1, <2>1, <2>2 DEF WorkInv
<1>6. RunInv'
  <2> SUFFICES ASSUME NEW q \in RunIds, runs'[q].pc \in Listed
               PROVE  Reading(q)'
    BY DEF RunInv, Reading
  <2>1. CASE q # r
    BY <1>1, <2>1 DEF FlowInv, RunInv, Reading, Since
  <2>2. CASE q = r
    <3>1. rec # NoRun /\ rec.pc \in Listed
      BY <1>1, <2>2 DEF Listed, Running, NoRun
    <3>2. rec.src = runs[r].src /\ rec.kind = runs[r].kind /\ Reading(r)
      BY <1>1, <3>1 DEF Onward, FlowInv, RunInv
    <3>3. /\ disp[rec.src].applied <= Len(outbox[rec.src])
          /\ Len(outbox[rec.src]) \in Nat
      BY <1>1, <3>2, DispatchTypes DEF FlowInv, OrderInv, Ordered
    <3>4. /\ rec.upto <= Len(outbox[rec.src])
          /\ rec.kind = "event" => disp[rec.src].applied <= rec.upto
      BY <1>1, <3>1, <3>2, <3>3 DEF Onward, Reading
    <3>5. /\ rec.pc # "listed" /\ rec.view # Absent => Since(rec.src, rec.upto, rec.view)
          /\ rec.pc = "made" => rec.view # Absent
      BY <1>1, <3>1 DEF Onward
    <3> QED
      BY <1>1, <2>2, <3>4, <3>5 DEF Reading, Since
  <2> QED
    BY <2>1, <2>2
<1> QED
  BY <1>3, <1>4, <1>5, <1>6

(* A run step that keeps the candidates keeps the flow. *)
LEMMA SteadyRun ==
  ASSUME Sound, FlowInv, NEW r \in RunIds, NEW rec \in RunSet \cup {NoRun}, RunStep(r, rec),
         rec.kind = "event" /\ rec.pc \in Listed =>
           runs[r].pc \in Listed \/ disp[rec.src].log = r,
         Steady, CursorInv'
  PROVE  FlowInv'
<1>1. /\ runs'[r] = rec /\ \A q \in RunIds \ {r} : runs'[q] = runs[q]
      /\ runs[r].src \in Sources /\ UNCHANGED <<outbox, disp>> /\ HintsKept /\ Onward(r, rec)
  BY RunMoved DEF RunStep
<1>2. ClaimInv'
  <2> SUFFICES ASSUME NEW q \in RunIds, runs'[q].kind = "retry"
               PROVE  Claiming(q)'
    BY DEF ClaimInv, Claiming
  <2>1. CASE q # r
    <3>1. runs'[q] = runs[q] /\ runs[q].src \in Sources /\ Claiming(q)
      BY <1>1, <2>1, RunTypes DEF FlowInv, ClaimInv
    <3> QED
      BY <1>1, <3>1 DEF Claiming, Steady, RowsKept
  <2>2. CASE q = r
    <3>1. rec # NoRun
      BY <1>1, <2>2 DEF NoRun
    <3>2. /\ rec.src = runs[r].src /\ runs[r].kind = "retry" /\ rec.claim = runs[r].claim
          /\ Claiming(r)
      BY <1>1, <2>2, <3>1 DEF Onward, FlowInv, ClaimInv
    <3>3. disp[rec.src].applied <= Len(outbox[rec.src])
      BY <1>1, <3>2, DispatchTypes DEF FlowInv, OrderInv, Ordered
    <3>4. rec.pc \in Listed =>
            \/ rec.upto = Len(outbox[rec.src])
            \/ runs[r].pc \in Listed /\ rec.upto = runs[r].upto
      BY <1>1, <3>1 DEF Onward
    <3> QED
      BY <1>1, <2>2, <3>2, <3>3, <3>4 DEF Claiming, Steady, RowsKept
  <2> QED
    BY <2>1, <2>2
<1>3. FreshInv'
  BY <1>1, FreshKept DEF FlowInv
<1> QED
  BY <1>2, <1>3, RunFlow DEF FlowInv

LEMMA CursorStays ==
  ASSUME CursorInv, UNCHANGED <<cursor, outbox>>
  PROVE  CursorInv'
  BY DEF CursorInv, Since

(* The run stays what it is when it goes from one item step to the next. *)
AtStep(r, pc, k) == [runs[r] EXCEPT !.pc = pc, !.cand = k]

LEMMA RunGoesOn ==
  ASSUME Sound, FlowInv, NEW r \in RunIds, runs[r].pc \in Listed \ {"listed"},
         NEW pc \in Listed \ {"listed"}, pc = "made" => runs[r].view # Absent,
         NEW k \in Nat
  PROVE  LET rec == AtStep(r, pc, k) IN
         /\ rec \in RunSet /\ rec.pc = pc /\ rec.cand = k /\ rec.src = runs[r].src
         /\ rec.kind = runs[r].kind /\ rec.claim = runs[r].claim /\ Onward(r, rec)
<1> DEFINE rec == AtStep(r, pc, k)
<1>1. runs[r] \in RunSet /\ Reading(r)
  BY RunTypes DEF Listed, Running, FlowInv, RunInv
<1>2. /\ rec \in RunSet /\ rec.pc = pc /\ rec.cand = k /\ rec.src = runs[r].src
      /\ rec.kind = runs[r].kind /\ rec.claim = runs[r].claim /\ rec.view = runs[r].view
      /\ rec.upto = runs[r].upto
  BY <1>1 DEF RunSet, Listed, Running, AtStep
<1> HIDE DEF rec
<1>3. Onward(r, rec)
  BY <1>1, <1>2 DEF Onward, Reading, Listed
<1> QED
  BY <1>2, <1>3 DEF rec

LEMMA SameCandidate ==
  ASSUME Sound, NEW r \in RunIds, runs[r] # NoRun, NEW pc
  PROVE  /\ runs[r].cand \in Nat
         /\ [runs[r] EXCEPT !.pc = pc] = AtStep(r, pc, runs[r].cand)
<1>1. runs[r] \in RunSet
  BY RunTypes
<1> QED
  BY <1>1 DEF RunSet, AtStep

(* What is left of the soundness of a step of a run *)
LEMMA RunSound ==
  ASSUME Sound, FlowInv, NEW r \in RunIds, NEW rec \in RunSet \cup {NoRun}, RunStep(r, rec),
         trouble' \in Nat, cursor' \in [Sources -> CursorSet], IndexInv', RowsKept,
         publishing' \in [Publishers -> PublishingSet], PublisherHands',
         rec.pc \in {"made", "publishing"} =>
           rec.cand \in DOMAIN rows' /\ rows'[rec.cand].source = rec.src
  PROVE  Sound'
<1>1. /\ runs' \in [RunIds -> RunSet \cup {NoRun}] /\ runs'[r] = rec
      /\ \A q \in RunIds \ {r} : runs'[q] = runs[q]
      /\ UNCHANGED <<file, embedding, job, outbox, received, disp>>
  BY RunMoved
<1>2. RunHands'
  BY <1>1 DEF Sound, RunHands, RowsKept
<1>3. /\ outcome' \in [Sources -> {"missing", "running", "success", "failed"}]
      /\ scanned' \in [Sources -> 0..2]
  BY RunSaid
<1> QED
  BY <1>1, <1>2, <1>3 DEF Sound, FlowTypes

LEMMA PlainRun ==
  ASSUME Sound, FlowInv, NEW r \in RunIds, NEW rec \in RunSet \cup {NoRun}, RunStep(r, rec),
         rec.kind = "event" /\ rec.pc \in Listed =>
           runs[r].pc \in Listed \/ disp[rec.src].log = r,
         UNCHANGED <<version, rows>>, trouble' \in Nat,
         cursor' \in [Sources -> CursorSet], CursorInv',
         publishing' \in [Publishers -> PublishingSet],
         \A p \in Publishers : publishing'[p] \in {publishing[p], NotPublishing},
         rec.pc \in {"made", "publishing"} =>
           rec.cand \in DOMAIN rows /\ rows[rec.cand].source = rec.src
  PROVE  Sound' /\ FlowInv' /\ HintsKept
<1>1. IndexInv' /\ Steady
  BY IndexStays DEF Sound
<1>2. FlowInv'
  BY <1>1, SteadyRun
<1>3. PublisherHands'
  BY DEF Sound, PublisherHands, NotPublishing, Asking
<1>4. Sound'
  BY <1>1, <1>3, RunSound DEF Steady
<1> QED
  BY <1>2, <1>4, RunMoved

(* A run that is not current any more stops, and its log has failed. *)
LEMMA StopStep ==
  ASSUME Sound, FlowInv, NEW r \in RunIds, runs[r] # NoRun, Stops(r), trouble' \in Nat,
         UNCHANGED <<file, embedding, job, outbox, received, disp, version, rows, cursor, scanned>>,
         publishing' \in [Publishers -> PublishingSet],
         \A p \in Publishers : publishing'[p] \in {publishing[p], NotPublishing}
  PROVE  Sound' /\ FlowInv' /\ HintsKept
<1>1. RunStep(r, NoRun)
  BY DEF RunStep, Stops, Onward, Says
<1>2. CursorInv' /\ cursor' \in [Sources -> CursorSet]
  BY CursorStays DEF FlowInv, Sound, FlowTypes
<1>3. NoRun.kind = "none" /\ NoRun.pc = "none"
  BY DEF NoRun
<1> QED
  BY <1>1, <1>2, <1>3, PlainRun

(* A run starts, opens its log, reads the hints and then the manifest. *)
LEMMA EarlySteps ==
  ASSUME Sound, FlowInv, NEW r \in RunIds,
         StartRun(r) \/ CreateLog(r) \/ ReadChanges(r) \/ ReadManifest(r)
  PROVE  Sound' /\ FlowInv' /\ HintsKept
<1> DEFINE old == runs[r]
<1>0. /\ runs[r] # NoRun /\ old \in RunSet /\ old.src \in Sources /\ Reading(r)
      /\ old.upto \in Nat /\ trouble \in Nat /\ Len(outbox[old.src]) \in Nat
  <2>1. runs[r].pc # "none"
    BY DEF StartRun, CreateLog, ReadChanges, ReadManifest
  <2>2. runs[r] # NoRun /\ old \in RunSet /\ old.src \in Sources /\ old.upto \in Nat
    BY <2>1, RunTypes
  <2> QED
    BY <2>2, DispatchTypes DEF Sound, FlowTypes, FlowInv, RunInv
<1>1. /\ UNCHANGED <<file, embedding, outbox, received, disp, version, rows, job, publishing,
                     cursor, scanned>>
      /\ trouble' \in Nat
  <2>1. StartRun(r) \/ CreateLog(r) \/ ReadManifest(r) => RunKeeps /\ RunStays
    BY DEF StartRun, CreateLog, ReadManifest
  <2>2. ReadChanges(r) => /\ UNCHANGED <<file, embedding, outbox, received, disp>> /\ RunStays
                          /\ UNCHANGED trouble \/ (trouble > 0 /\ trouble' = trouble - 1)
    BY DEF ReadChanges
  <2> QED
    BY <1>0, <2>1, <2>2 DEF RunKeeps, RunStays, versionVars
<1>2. /\ cursor' \in [Sources -> CursorSet] /\ CursorInv'
      /\ publishing' \in [Publishers -> PublishingSet]
      /\ \A p \in Publishers : publishing'[p] \in {publishing[p], NotPublishing}
  BY <1>1, CursorStays DEF Sound, FlowTypes, FlowInv
<1>3. ASSUME NEW rec \in RunSet, RunGoes(r, rec), Says(r, rec), Onward(r, rec),
             rec.pc \in {"opening", "opened", "listed", "seen"},
             rec.kind = "event" /\ rec.pc \in Listed => old.pc \in Listed \/ disp[rec.src].log = r
      PROVE  Sound' /\ FlowInv' /\ HintsKept
  <2>1. RunStep(r, rec)
    BY <1>0, <1>1, <1>3 DEF RunStep
  <2> QED
    BY <1>1, <1>2, <1>3, <2>1, PlainRun
<1>4. CASE StartRun(r)
  <2>1. CASE RunGoes(r, NoRun) /\ UNCHANGED outcome
    <3>1. RunStep(r, NoRun)
      BY <1>0, <1>1, <2>1 DEF RunStep, Onward, Says
    <3>2. NoRun.kind = "none" /\ NoRun.pc = "none"
      BY DEF NoRun
    <3> QED
      BY <1>1, <1>2, <3>1, <3>2, PlainRun
  <2>2. CASE RunGoes(r, [runs[r] EXCEPT !.pc = "opening"]) /\ UNCHANGED outcome
    <3> DEFINE rec == [old EXCEPT !.pc = "opening"]
    <3>1. /\ rec \in RunSet /\ rec.pc = "opening" /\ rec.kind = old.kind /\ rec.src = old.src
          /\ rec.claim = old.claim
      BY <1>0 DEF RunSet
    <3>2. RunGoes(r, rec) /\ Says(r, rec)
      BY <1>1, <2>2 DEF Says
    <3> HIDE DEF rec
    <3>3. Onward(r, rec) /\ rec.pc \notin Listed
      BY <3>1 DEF Onward, Listed, Running
    <3> QED
      BY <1>3, <3>1, <3>2, <3>3
  <2> QED
    BY <1>4, <2>1, <2>2 DEF StartRun
<1>5. CASE CreateLog(r)
  <2> DEFINE rec == [old EXCEPT !.pc = "opened"]
  <2>1. /\ rec \in RunSet /\ rec.pc = "opened" /\ rec.kind = old.kind /\ rec.src = old.src
        /\ rec.claim = old.claim
    BY <1>0 DEF RunSet, Running
  <2>2. RunGoes(r, rec) /\ Says(r, rec)
    BY <1>1, <1>5 DEF CreateLog, Says
  <2> HIDE DEF rec
  <2>3. Onward(r, rec) /\ rec.pc \notin Listed
    BY <2>1 DEF Onward, Listed, Running
  <2> QED
    BY <1>3, <2>1, <2>2, <2>3
<1>6. CASE ReadChanges(r)
  <2>1. CASE ~Current(r, TRUE) /\ Stops(r)
    BY <1>0, <1>1, <1>2, <2>1, StopStep
  <2>2. ASSUME NEW b \in BOOLEAN, Current(r, TRUE), UNCHANGED outcome,
               RunGoes(r, [runs[r] EXCEPT !.pc = "listed", !.upto = Len(outbox[runs[r].src]),
                                          !.audit = b])
        PROVE  Sound' /\ FlowInv' /\ HintsKept
    <3> DEFINE rec == [old EXCEPT !.pc = "listed", !.upto = Len(outbox[old.src]), !.audit = b]
    <3>1. /\ rec \in RunSet /\ rec.pc = "listed" /\ rec.kind = old.kind /\ rec.src = old.src
          /\ rec.claim = old.claim /\ rec.upto = Len(outbox[old.src])
      BY <1>0 DEF RunSet, Running
    <3>2. RunGoes(r, rec) /\ Says(r, rec)
      BY <1>1, <2>2 DEF Says
    <3> HIDE DEF rec
    <3>3. rec.kind = "event" => disp[rec.src].log = r
      BY <2>2, <3>1 DEF Current, EventCurrent
    <3>4. Onward(r, rec)
      BY <3>1, <3>3 DEF Onward
    <3> QED
      BY <1>3, <3>1, <3>2, <3>3, <3>4
  <2>3. old.audit \in BOOLEAN
    BY <1>0 DEF RunSet
  <2>4. [old EXCEPT !.pc = "listed", !.upto = Len(outbox[old.src])]
          = [old EXCEPT !.pc = "listed", !.upto = Len(outbox[old.src]), !.audit = old.audit]
    BY <1>0 DEF RunSet
  <2> QED
    BY <1>6, <2>1, <2>2, <2>3, <2>4 DEF ReadChanges
<1>7. CASE ReadManifest(r)
  <2> DEFINE v == View(old.src)
             rec == [old EXCEPT !.pc = "seen", !.view = v]
  <2>1. v \in ViewSet
    BY DEF View, ViewSet, Absent, Sound, FileSet
  <2>2. v # Absent => Since(old.src, old.upto, v)
    <3>1. v # Absent => outbox[old.src] # <<>> /\ v = outbox[old.src][Len(outbox[old.src])].view
      BY <1>0 DEF FlowInv, FileInv, Last
    <3>2. old.upto <= Len(outbox[old.src])
      BY <1>7 DEF ReadManifest, FlowInv, RunInv, Reading, Listed, Running
    <3>3. outbox[old.src] # <<>> => Len(outbox[old.src]) >= 1
      BY <1>0 DEF Sound, FlowTypes
    <3> QED
      BY <1>0, <3>1, <3>2, <3>3 DEF Since
  <2> HIDE DEF v
  <2>3. /\ rec \in RunSet /\ rec.pc = "seen" /\ rec.kind = old.kind /\ rec.src = old.src
        /\ rec.claim = old.claim /\ rec.upto = old.upto /\ rec.view = v
    BY <1>0, <2>1 DEF RunSet, Running
  <2>4. RunGoes(r, rec) /\ Says(r, rec) /\ old.pc = "listed"
    BY <1>1, <1>7 DEF ReadManifest, Says, v
  <2> HIDE DEF rec
  <2>5. old.pc \in Listed
    BY <2>4 DEF Listed, Running
  <2>6. Onward(r, rec)
    BY <2>2, <2>3, <2>5 DEF Onward
  <2> QED
    BY <1>3, <2>3, <2>4, <2>5, <2>6
<1> QED
  BY <1>4, <1>5, <1>6, <1>7

(* The candidate of a tombstone is gone; the claims for it are of no use any more. *)
LEMMA WithdrawStep ==
  ASSUME Sound, FlowInv, NEW r \in RunIds, WithdrawItem(r)
  PROVE  Sound' /\ FlowInv' /\ HintsKept
<1> DEFINE old == runs[r]
           s == runs[r].src
           rec == [runs[r] EXCEPT !.pc = "store"]
<1>0. /\ runs[r].pc = "seen" /\ runs[r] # NoRun /\ s \in Sources /\ old.pc \in Listed \ {"listed"}
      /\ UNCHANGED <<file, embedding, outbox, received, disp, trouble, job, publishing, cursor,
                     scanned>>
  <2>1. /\ runs[r].pc = "seen"
        /\ UNCHANGED <<file, embedding, outbox, received, disp, trouble, job, publishing, cursor,
                       scanned>>
    BY DEF WithdrawItem, RunKeeps
  <2> QED
    BY <2>1, RunTypes DEF Listed, Running
<1>1. /\ cursor' \in [Sources -> CursorSet] /\ CursorInv' /\ trouble' \in Nat
      /\ publishing' \in [Publishers -> PublishingSet]
      /\ \A p \in Publishers : publishing'[p] \in {publishing[p], NotPublishing}
  BY <1>0, CursorStays DEF Sound, FlowTypes, FlowInv
<1>2. CASE Stops(r) /\ UNCHANGED <<version, rows>>
  BY <1>0, <1>1, <1>2, StopStep
<1>3. CASE Tombstone(s) /\ RunGoes(r, rec) /\ UNCHANGED outcome
  <2>1. /\ IndexInv' /\ RowsKept /\ RowsSame
        /\ version'[s].state = "tombstone" /\ version'[s].cand = 0
        /\ \A k \in DOMAIN rows : rows[k].source = s => ~rows'[k].open
        /\ \A t \in Sources : t # s => version'[t] = version[t]
    BY <1>0, <1>3, TombstoneIndex DEF Sound
  <2>2. /\ rec \in RunSet /\ rec.pc = "store" /\ Onward(r, rec) /\ rec.src = s
        /\ rec.kind = old.kind /\ rec.claim = old.claim
    <3>1. old.cand \in Nat /\ rec = AtStep(r, "store", old.cand)
      BY <1>0, SameCandidate
    <3>2. "store" \in Listed \ {"listed"}
      BY DEF Listed, Running
    <3> HIDE DEF rec
    <3> QED
      BY <1>0, <3>1, <3>2, RunGoesOn
  <2> HIDE DEF rec
  <2>3. RunStep(r, rec)
    BY <1>0, <1>3, <2>2 DEF RunStep, Says
  <2>4. /\ FileInv' /\ OrderInv' /\ PhaseInv' /\ LogInv' /\ WorkInv' /\ ScanInv' /\ RunInv'
    BY <1>0, <2>2, <2>3, RunFlow
  <2>5. PublisherHands'
    BY <1>0, <2>1 DEF Sound, PublisherHands, RowsKept
  <2>6. Sound'
    BY <1>1, <2>1, <2>2, <2>3, <2>5, RunSound
  <2>7. /\ runs'[r] = rec /\ \A q \in RunIds \ {r} : runs'[q] = runs[q]
        /\ HintsKept
    BY <2>2, <2>3, RunMoved
  <2>8. ClaimInv'
    <3> SUFFICES ASSUME NEW q \in RunIds, runs'[q].kind = "retry"
                 PROVE  Claiming(q)'
      BY DEF ClaimInv, Claiming
    <3>1. /\ runs'[q].src = runs[q].src /\ runs'[q].claim = runs[q].claim
          /\ runs'[q].kind = runs[q].kind
          /\ runs[q].src # s => runs'[q] = runs[q]
      BY <2>2, <2>7
    <3>2. Claiming(q) /\ runs[q].kind = "retry" /\ runs[q].src \in Sources
      BY <3>1, RunTypes DEF FlowInv, ClaimInv
    <3>3. CASE runs[q].src = s
      <4>1. runs[q].claim.cand # 0
        BY <3>2, RowTypes DEF Claiming, Sound
      <4> QED
        BY <2>1, <3>1, <3>2, <3>3, <4>1 DEF Claiming, RowsKept
    <3>4. CASE runs[q].src # s
      BY <1>0, <2>1, <3>1, <3>2, <3>4 DEF Claiming, RowsKept
    <3> QED
      BY <3>3, <3>4
  <2>9. FreshInv'
    <3> SUFFICES ASSUME NEW t \in Sources, Named(t)'
                 PROVE  Since(t, disp[t].applied, CandidateView(t))'
      BY DEF FreshInv
    <3>1. t # s /\ version'[t] = version[t]
      BY <2>1 DEF Named
    <3>2. version[t].cand \in DOMAIN rows /\ Since(t, disp[t].applied, CandidateView(t))
      BY <3>1 DEF Named, FlowInv, FreshInv, Sound, IndexInv, VersionNames
    <3>3. CandidateView(t)' = CandidateView(t)
      BY <2>1, <3>1, <3>2 DEF RowsSame, CandidateView
    <3> QED
      BY <1>0, <3>2, <3>3 DEF Since
  <2> QED
    BY <1>1, <2>4, <2>6, <2>7, <2>8, <2>9 DEF FlowInv
<1> QED
  BY <1>2, <1>3 DEF WithdrawItem

(* The listed version becomes a row of the source, new or used again. *)
LEMMA IngestStep ==
  ASSUME Sound, FlowInv, NEW r \in RunIds, IngestItem(r)
  PROVE  Sound' /\ FlowInv' /\ HintsKept
<1> DEFINE s == runs[r].src
           v == runs[r].view
<1>0. /\ runs[r].pc = "seen" /\ runs[r] # NoRun /\ runs[r] \in RunSet /\ s \in Sources
      /\ runs[r].pc \in Listed \ {"listed"} /\ v \in ViewSet /\ v # Absent
      /\ runs[r].cand \in Nat
      /\ UNCHANGED <<file, embedding, outbox, received, disp, trouble, version, job, publishing,
                     cursor, scanned>>
  <2>1. /\ runs[r].pc = "seen" /\ v # Absent
        /\ UNCHANGED <<file, embedding, outbox, received, disp, trouble, version, job,
                       publishing, cursor, scanned>>
    BY DEF IngestItem, RunKeeps, Fetches
  <2> QED
    BY <2>1, RunTypes DEF Listed, Running
<1>1. /\ cursor' \in [Sources -> CursorSet] /\ CursorInv' /\ trouble' \in Nat
      /\ publishing' \in [Publishers -> PublishingSet]
      /\ \A p \in Publishers : publishing'[p] \in {publishing[p], NotPublishing}
  BY <1>0, CursorStays DEF Sound, FlowTypes, FlowInv
<1>2. CASE Stops(r) /\ UNCHANGED rows
  BY <1>0, <1>1, <1>2, StopStep
<1>3. ASSUME NEW pc \in Listed \ {"listed"}, NEW k \in Nat,
             RunGoes(r, AtStep(r, pc, k)), UNCHANGED outcome, IndexInv', Steady,
             pc \in {"made", "publishing"} => k \in DOMAIN rows' /\ rows'[k].source = s
      PROVE  Sound' /\ FlowInv' /\ HintsKept
  <2> DEFINE rec == AtStep(r, pc, k)
  <2>1. RunGoes(r, rec)
    BY <1>3
  <2>2. rec \in RunSet /\ rec.pc = pc /\ rec.cand = k /\ rec.src = s /\ Onward(r, rec)
    BY <1>0, RunGoesOn
  <2> HIDE DEF rec
  <2>3. RunStep(r, rec)
    BY <1>0, <1>3, <2>1, <2>2 DEF RunStep, Says
  <2>4. FlowInv'
    BY <1>0, <1>1, <1>3, <2>2, <2>3, SteadyRun
  <2>5. PublisherHands'
    BY <1>0, <1>3 DEF Sound, PublisherHands, Steady, RowsKept
  <2>6. Sound'
    BY <1>1, <1>3, <2>2, <2>3, <2>5, RunSound DEF Steady
  <2> QED
    BY <2>2, <2>3, <2>4, <2>6, RunMoved
<1>4. "store" \in Listed \ {"listed"} /\ "made" \in Listed \ {"listed"}
  BY DEF Listed, Running
<1>5. CASE /\ RunGoes(r, [runs[r] EXCEPT !.pc = "store"]) /\ UNCHANGED <<rows, outcome>>
  <2>1. [runs[r] EXCEPT !.pc = "store"] = AtStep(r, "store", runs[r].cand)
    BY <1>0, SameCandidate
  <2>2. IndexInv' /\ Steady
    BY <1>0, <1>5, IndexStays DEF Sound
  <2> QED
    BY <1>0, <1>3, <1>4, <1>5, <2>1, <2>2
<1>6. CASE /\ Reusable(s, v.etag) /\ UNCHANGED <<rows, outcome>>
           /\ RunGoes(r, [runs[r] EXCEPT !.pc = "made", !.cand = version[s].cand])
  <2>1. version[s].cand \in DOMAIN rows /\ rows[version[s].cand].source = s
    BY <1>0, <1>6 DEF Reusable, Sound, IndexInv, VersionNames
  <2>2. IndexInv' /\ Steady /\ version[s].cand \in Nat
    BY <1>0, <1>6, <2>1, IndexStays, RowTypes DEF Sound
  <2> QED
    BY <1>0, <1>3, <1>4, <1>6, <2>1, <2>2 DEF AtStep
<1>7. CASE /\ rows' = Append(rows, NewRow(s, v)) /\ UNCHANGED outcome
           /\ RunGoes(r, [runs[r] EXCEPT !.pc = "made", !.cand = Len(rows) + 1])
  <2>1. /\ IndexInv' /\ Steady /\ Len(rows) + 1 \in DOMAIN rows'
        /\ rows'[Len(rows) + 1] = NewRow(s, v)
    BY <1>0, <1>7, NewRowIndex DEF Sound
  <2>2. Len(rows) + 1 \in Nat /\ NewRow(s, v).source = s
    BY DEF Sound, IndexInv, NewRow
  <2> QED
    BY <1>0, <1>3, <1>4, <1>7, <2>1, <2>2 DEF AtStep
<1> QED
  BY <1>2, <1>5, <1>6, <1>7 DEF IngestItem

(* What is staged was announced at the applied hint or later, and whatever was claimed for
   another candidate finds it fenced. *)
LEMMA StageStep ==
  ASSUME Sound, FlowInv, NEW r \in RunIds, StageItem(r)
  PROVE  Sound' /\ FlowInv' /\ HintsKept
<1> DEFINE s == runs[r].src
           k == runs[r].cand
           v == runs[r].view
           p == <<s, runs[r].kind>>
           pc == IF rows[k].parse = "completed" THEN "publishing" ELSE "store"
<1>0. /\ runs[r].pc = "made" /\ runs[r] # NoRun /\ runs[r] \in RunSet /\ s \in Sources
      /\ runs[r].kind \in {"event", "retry"} /\ v \in ViewSet /\ runs[r].upto \in Nat
      /\ runs[r].pc \in Listed \ {"listed"}
      /\ UNCHANGED <<file, embedding, outbox, received, disp, trouble, job, cursor, scanned>>
  <2>1. /\ runs[r].pc = "made"
        /\ UNCHANGED <<file, embedding, outbox, received, disp, trouble, job, cursor, scanned>>
    BY DEF StageItem, RunKeeps
  <2> QED
    BY <2>1, RunTypes DEF Listed, Running
<1>1. /\ cursor' \in [Sources -> CursorSet] /\ CursorInv' /\ trouble' \in Nat
      /\ publishing \in [Publishers -> PublishingSet]
  BY <1>0, CursorStays DEF Sound, FlowTypes, FlowInv
<1>2. k \in DOMAIN rows /\ rows[k].source = s /\ k \in Nat
  <2>1. k \in DOMAIN rows /\ rows[k].source = s
    BY <1>0 DEF Sound, RunHands
  <2> QED
    BY <2>1, RowTypes DEF Sound
<1>3. CASE Stops(r) /\ UNCHANGED <<version, rows, publishing>>
  BY <1>0, <1>1, <1>3, StopStep
<1>4. CASE /\ RunGoes(r, [runs[r] EXCEPT !.pc = "store"])
           /\ UNCHANGED <<version, rows, publishing, outcome>>
  <2> DEFINE rec == AtStep(r, "store", k)
  <2>1. "store" \in Listed \ {"listed"}
    BY DEF Listed, Running
  <2>2. rec \in RunSet /\ rec.pc = "store" /\ rec.src = s /\ Onward(r, rec)
    BY <1>0, <1>2, <2>1, RunGoesOn
  <2>3. RunGoes(r, rec)
    BY <1>0, <1>4, SameCandidate
  <2> HIDE DEF rec
  <2>4. RunStep(r, rec)
    BY <1>0, <1>4, <2>2, <2>3 DEF RunStep, Says
  <2> QED
    BY <1>0, <1>1, <1>4, <2>2, <2>4, PlainRun
<1>5. CASE /\ rows[k].open /\ Stageable(s, v, k, runs[r].claim) /\ Stage(s, v, k)
           /\ publishing' = [publishing EXCEPT ![p] =
                 IF rows[k].parse = "completed" THEN Opened(p, k, TRUE) ELSE @]
           /\ RunGoes(r, [runs[r] EXCEPT !.pc = pc]) /\ UNCHANGED outcome
  <2> DEFINE rec == AtStep(r, pc, k)
  <2>1. pc \in Listed \ {"listed"} /\ pc # "made"
    BY DEF Listed, Running
  <2>2. RunGoes(r, rec)
    BY <1>0, <1>5, SameCandidate
  <2> HIDE DEF pc
  <2>3. /\ rec \in RunSet /\ rec.pc = pc /\ rec.cand = k /\ rec.src = s
        /\ rec.kind = runs[r].kind /\ rec.claim = runs[r].claim /\ Onward(r, rec)
    BY <1>0, <1>2, <2>1, RunGoesOn
  <2> HIDE DEF rec
  <2>4. RunStep(r, rec)
    BY <1>0, <1>5, <2>2, <2>3 DEF RunStep, Says
  <2>5. /\ IndexInv' /\ RowsKept
        /\ version'[s].cand = k
        /\ rows'[k].etag = v.etag /\ rows'[k].path = v.path
        /\ \A j \in DOMAIN rows : j # k =>
             /\ rows'[j].etag = rows[j].etag /\ rows'[j].path = rows[j].path
             /\ rows[j].source = s => ~rows'[j].open
        /\ \A t \in Sources : t # s => version'[t] = version[t]
    BY <1>0, <1>2, <1>5, StageIndex DEF Sound
  <2>6. /\ runs'[r] = rec /\ \A q \in RunIds \ {r} : runs'[q] = runs[q]
        /\ HintsKept
    BY <2>3, <2>4, RunMoved
  <2>7. /\ FileInv' /\ OrderInv' /\ PhaseInv' /\ LogInv' /\ WorkInv' /\ ScanInv' /\ RunInv'
    BY <1>0, <2>3, <2>4, RunFlow
  <2>8. publishing' \in [Publishers -> PublishingSet] /\ PublisherHands'
    <3>1. p \in Publishers
      BY <1>0 DEF Publishers
    <3>2. rows'[k] \in RowSet
      BY <1>2, <2>5, RowsAre DEF RowsKept, IndexInv
    <3>3. /\ Opened(p, k, TRUE) \in PublishingSet
          /\ Opened(p, k, TRUE).cand = k
      BY <1>2, <3>2 DEF Opened, PublishingSet, Asking, RowSet
    <3>4. \/ publishing' = [publishing EXCEPT ![p] = Opened(p, k, TRUE)]
          \/ publishing' = publishing
      BY <1>1, <1>5, <3>1
    <3>5. publishing' \in [Publishers -> PublishingSet]
      BY <1>1, <3>1, <3>3, <3>4
    <3>6. \A q \in Publishers : publishing'[q] = publishing[q] \/ publishing'[q].cand = k
      BY <1>1, <3>1, <3>3, <3>4
    <3> QED
      BY <1>2, <2>5, <3>5, <3>6 DEF Sound, PublisherHands, RowsKept
  <2>9. Sound'
    BY <1>1, <1>2, <2>3, <2>4, <2>5, <2>8, RunSound DEF RowsKept
  <2>10. ClaimInv'
    <3> SUFFICES ASSUME NEW q \in RunIds, runs'[q].kind = "retry"
                 PROVE  Claiming(q)'
      BY DEF ClaimInv, Claiming
    <3>1. /\ runs'[q].src = runs[q].src /\ runs'[q].claim = runs[q].claim
          /\ runs'[q].kind = runs[q].kind
          /\ q # r => runs'[q] = runs[q]
      BY <2>3, <2>6
    <3>2. Claiming(q) /\ runs[q].kind = "retry" /\ runs[q].src \in Sources
      BY <3>1, RunTypes DEF FlowInv, ClaimInv
    <3>3. runs'[q].pc \in Listed => runs[q].pc \in Listed /\ runs'[q].upto = runs[q].upto
      <4>1. CASE q = r
        <5>1. rec.upto = runs[r].upto
          <6>1. rec = AtStep(r, pc, k)
            BY DEF rec
          <6> QED
            BY <1>0, <6>1 DEF RunSet, AtStep
        <5> QED
          BY <1>0, <2>6, <4>1, <5>1
      <4> QED
        BY <3>1, <4>1
    <3>4. CASE runs[q].src = s
      <4>1. CASE runs[q].claim.cand = k
        <5>1. version[s].cand = k
          BY <1>5, <3>2, <3>4, <4>1 DEF Claiming
        <5> QED
          BY <1>0, <2>5, <3>1, <3>2, <3>3, <3>4, <4>1, <5>1 DEF Claiming, RowsKept
      <4>2. CASE runs[q].claim.cand # k
        BY <2>5, <3>1, <3>2, <3>4, <4>2 DEF Claiming, RowsKept
      <4> QED
        BY <4>1, <4>2
    <3>5. CASE runs[q].src # s
      BY <1>0, <2>5, <3>1, <3>2, <3>3, <3>5 DEF Claiming, RowsKept
    <3> QED
      BY <3>4, <3>5
  <2>11. Since(s, disp[s].applied, v)
    <3>1. v # Absent /\ Since(s, runs[r].upto, v) /\ Reading(r)
      BY <1>0 DEF FlowInv, RunInv, Reading
    <3>2. disp[s].applied <= runs[r].upto
      <4>1. CASE runs[r].kind = "event"
        BY <1>0, <3>1, <4>1 DEF Reading
      <4>2. CASE runs[r].kind = "retry"
        <5>1. Claiming(r)
          BY DEF FlowInv, ClaimInv
        <5>2. runs[r].claim.cand # 0
          BY <4>2, <5>1, RowTypes DEF Claiming, Sound
        <5>3. runs[r].claim # NoClaim
          BY <5>2 DEF NoClaim
        <5>4. version[s].cand = runs[r].claim.cand
          BY <1>5, <5>3 DEF Stageable, Admitted
        <5> QED
          BY <1>0, <4>2, <5>1, <5>4 DEF Claiming
      <4> QED
        BY <1>0, <4>1, <4>2
    <3>3. PICK i \in 1..Len(outbox[s]) : runs[r].upto <= i /\ outbox[s][i].view = v
      BY <3>1 DEF Since
    <3>4. disp[s].applied <= i
      BY <1>0, <3>2, <3>3, DispatchTypes
    <3> QED
      BY <3>3, <3>4 DEF Since
  <2>12. FreshInv'
    <3> SUFFICES ASSUME NEW t \in Sources, Named(t)'
                 PROVE  Since(t, disp[t].applied, CandidateView(t))'
      BY DEF FreshInv
    <3>1. CASE t = s
      <4>1. CandidateView(t)' = v
        BY <1>0, <2>5, <3>1 DEF CandidateView, ViewSet
      <4> QED
        BY <1>0, <2>11, <3>1, <4>1 DEF Since
    <3>2. CASE t # s
      <4>1. version'[t] = version[t] /\ Named(t)
        BY <2>5, <3>2 DEF Named
      <4>2. /\ version[t].cand \in DOMAIN rows /\ rows[version[t].cand].source = t
            /\ Since(t, disp[t].applied, CandidateView(t))
        BY <4>1 DEF Named, FlowInv, FreshInv, Sound, IndexInv, VersionNames
      <4>3. CandidateView(t)' = CandidateView(t)
        BY <1>2, <2>5, <3>2, <4>1, <4>2 DEF CandidateView
      <4> QED
        BY <1>0, <4>2, <4>3 DEF Since
    <3> QED
      BY <3>1, <3>2
  <2> QED
    BY <1>1, <2>6, <2>7, <2>9, <2>10, <2>12 DEF FlowInv
<1> QED
  BY <1>3, <1>4, <1>5 DEF StageItem

LEMMA PublishedStep ==
  ASSUME Sound, FlowInv, NEW r \in RunIds, ItemPublished(r)
  PROVE  Sound' /\ FlowInv' /\ HintsKept
<1> DEFINE p == <<runs[r].src, runs[r].kind>>
           rec == AtStep(r, "store", runs[r].cand)
<1>0. /\ runs[r].pc = "publishing" /\ runs[r] # NoRun /\ runs[r].src \in Sources
      /\ runs[r].pc \in Listed \ {"listed"} /\ runs[r].cand \in Nat
      /\ runs[r].kind \in {"event", "retry"}
      /\ publishing' = [publishing EXCEPT ![p] = NotPublishing]
      /\ UNCHANGED <<file, embedding, outbox, received, disp, trouble, version, rows, job,
                     cursor, scanned>>
  <2>1. /\ runs[r].pc = "publishing" /\ publishing' = [publishing EXCEPT ![p] = NotPublishing]
        /\ UNCHANGED <<file, embedding, outbox, received, disp, trouble, version, rows, job,
                       cursor, scanned>>
    BY DEF ItemPublished, RunKeeps
  <2> QED
    BY <2>1, RunTypes DEF Listed, Running
<1>1. /\ cursor' \in [Sources -> CursorSet] /\ CursorInv' /\ trouble' \in Nat
      /\ publishing \in [Publishers -> PublishingSet]
  BY <1>0, CursorStays DEF Sound, FlowTypes, FlowInv
<1>2. /\ publishing' \in [Publishers -> PublishingSet]
      /\ \A q \in Publishers : publishing'[q] \in {publishing[q], NotPublishing}
  <2>1. NotPublishing \in PublishingSet
    BY DEF NotPublishing, PublishingSet
  <2> QED
    BY <1>0, <1>1, <2>1
<1>3. CASE Stops(r)
  BY <1>0, <1>1, <1>2, <1>3, StopStep
<1>4. CASE UNCHANGED outcome /\ RunGoes(r, [runs[r] EXCEPT !.pc = "store"])
  <2>1. "store" \in Listed \ {"listed"}
    BY DEF Listed, Running
  <2>2. rec \in RunSet /\ rec.pc = "store" /\ rec.src = runs[r].src /\ Onward(r, rec)
    BY <1>0, <2>1, RunGoesOn
  <2>3. RunGoes(r, rec)
    BY <1>0, <1>4, SameCandidate
  <2> HIDE DEF rec
  <2>4. RunStep(r, rec)
    BY <1>0, <1>4, <2>2, <2>3 DEF RunStep, Says
  <2> QED
    BY <1>0, <1>1, <1>2, <2>2, <2>4, PlainRun
<1> QED
  BY <1>3, <1>4 DEF ItemPublished

LEMMA StoreStep ==
  ASSUME Sound, FlowInv, NEW r \in RunIds, StoreCursor(r)
  PROVE  Sound' /\ FlowInv' /\ HintsKept
<1> DEFINE s == runs[r].src
           new == NextCursor(cursor[s], runs[r].upto, runs[r].view)
<1>0. /\ runs[r].pc \in {"seen", "store"} /\ runs[r] # NoRun /\ s \in Sources
      /\ runs[r].pc \in Listed \ {"listed"} /\ runs[r].view \in ViewSet /\ runs[r].upto \in Nat
      /\ cursor \in [Sources -> CursorSet] /\ cursor[s] \in CursorSet
      /\ UNCHANGED <<file, embedding, outbox, received, disp, trouble, version, rows, job,
                     publishing>>
  <2>1. /\ runs[r].pc \in {"seen", "store"}
        /\ UNCHANGED <<file, embedding, outbox, received, disp, trouble, version, rows, job,
                       publishing>>
    BY DEF StoreCursor, RunKeeps, versionVars
  <2>2. runs[r] # NoRun /\ s \in Sources /\ runs[r].view \in ViewSet /\ runs[r].upto \in Nat
    BY <2>1, RunTypes
  <2> QED
    BY <2>1, <2>2 DEF Listed, Running, Sound, FlowTypes
<1>1. /\ trouble' \in Nat /\ publishing' \in [Publishers -> PublishingSet]
      /\ \A q \in Publishers : publishing'[q] \in {publishing[q], NotPublishing}
  BY <1>0 DEF Sound, FlowTypes
<1>2. CASE Stops(r) /\ UNCHANGED <<cursor, scanned>>
  BY <1>0, <1>1, <1>2, StopStep
<1>3. ASSUME RunGoes(r, NoRun), LogSays(r, "success"),
             \/ runs[r].kind = "retry" /\ UNCHANGED scanned
             \/ scanned' = [scanned EXCEPT ![s] = IF @ < 2 THEN @ + 1 ELSE @],
             cursor' \in [Sources -> CursorSet], CursorInv'
      PROVE  Sound' /\ FlowInv' /\ HintsKept
  <2>1. RunStep(r, NoRun)
    BY <1>0, <1>3 DEF RunStep, Onward, Says
  <2>2. NoRun.kind = "none" /\ NoRun.pc = "none"
    BY DEF NoRun
  <2> QED
    BY <1>0, <1>1, <1>3, <2>1, <2>2, PlainRun
<1>4. CASE /\ RunGoes(r, NoRun) /\ LogSays(r, "success") /\ runs[r].kind = "retry"
           /\ UNCHANGED <<cursor, scanned>>
  <2>1. cursor' \in [Sources -> CursorSet] /\ CursorInv'
    BY <1>0, <1>4, CursorStays DEF FlowInv
  <2> QED
    BY <1>3, <1>4, <2>1
<1>5. CASE /\ RunGoes(r, NoRun) /\ LogSays(r, "success") /\ runs[r].kind = "event"
           /\ cursor' = [cursor EXCEPT ![s] = NextCursor(@, runs[r].upto, runs[r].view)]
           /\ scanned' = [scanned EXCEPT ![s] = IF @ < 2 THEN @ + 1 ELSE @]
  <2>1. new \in CursorSet /\ cursor' = [cursor EXCEPT ![s] = new]
    BY <1>0, <1>5 DEF NextCursor, CursorSet
  <2>2. ~new.missing /\ new.file # Absent =>
          new.changes = runs[r].upto /\ new.file = runs[r].view /\ runs[r].view # Absent
    BY DEF NextCursor
  <2> HIDE DEF new
  <2>3. cursor' \in [Sources -> CursorSet] /\ cursor'[s] = new
        /\ \A t \in Sources \ {s} : cursor'[t] = cursor[t]
    BY <1>0, <2>1
  <2>4. CursorInv'
    <3> SUFFICES ASSUME NEW t \in Sources, ~cursor'[t].missing, cursor'[t].file # Absent
                 PROVE  Since(t, cursor'[t].changes, cursor'[t].file)
      BY <1>0 DEF CursorInv, Since
    <3>1. CASE t = s
      BY <1>0, <2>2, <2>3, <3>1 DEF FlowInv, RunInv, Reading
    <3>2. CASE t # s
      BY <2>3, <3>2 DEF FlowInv, CursorInv
    <3> QED
      BY <3>1, <3>2
  <2> QED
    BY <1>3, <1>5, <2>3, <2>4
<1> QED
  BY <1>2, <1>4, <1>5 DEF StoreCursor

----------------------------------------------------------------------------
(* The drills and the users *)

LEMMA DrillsMove ==
  ASSUME DrillsStep
  PROVE  \/ WeKnoraStep \/ FileChange \/ UNCHANGED indexVars
         \/ \E b \in BOOLEAN : Embedding(b)
<1> USE DrillsAssumption
<1>1. ASSUME NEW pc, Acts(Upload(HomeSource), pc) \/ Acts(RenameFile(HomeSource), pc)
               \/ Acts(Trash(HomeSource), pc) \/ Acts(Untrash(HomeSource), pc)
      PROVE  FileChange
  BY <1>1 DEF Acts, FileChange
<1>2. ASSUME NEW pc, NEW s \in Sources \cup {"outside"}, NEW t \in Sources \cup {"outside"},
             Acts(MoveFolder(s, t), pc)
      PROVE  FileChange
  BY <1>2 DEF Acts, FileChange
<1>3. CASE UserStep
  BY <1>3 DEF UserStep, FileChange
<1>4. CASE EmbeddingReturns
  BY <1>4 DEF EmbeddingReturns
<1>5. CASE RetryDrill
  <2>1. CASE RetryBaseline \/ OverwriteV2
    BY <1>1, <2>1 DEF RetryBaseline, OverwriteV2, Published
  <2>2. CASE StopEmbedding \/ StartEmbedding
    BY <2>2 DEF StopEmbedding, StartEmbedding
  <2>3. CASE WaitFailedCandidate \/ RetryStatus \/ StrictLatestDenial \/ WaitRecovered
             \/ RetryApplied
    BY <2>3 DEF WaitFailedCandidate, RetryStatus, StrictLatestDenial, WaitRecovered, RetryApplied
  <2> QED
    BY <1>5, <2>1, <2>2, <2>3 DEF RetryDrill
<1>6. CASE MoveDrill
  <2>1. CASE CreateFile \/ RenameStep \/ TrashStep \/ RestoreStep
    BY <1>1, <2>1 DEF CreateFile, RenameStep, TrashStep, RestoreStep
  <2>2. CASE MoveOut \/ MoveBack \/ RapidPair
    BY <1>2, <2>2 DEF MoveOut, MoveBack, RapidPair
  <2>3. CASE FirstToSecond \/ SecondToFirst
    BY <1>2, <2>3 DEF FirstToSecond, SecondToFirst, Withdrawn, Published
  <2>4. CASE CreatedPublished \/ RenamedPublished \/ MovedBack \/ PairPublished
             \/ RestoredPublished
    BY <2>4 DEF CreatedPublished, RenamedPublished, MovedBack, PairPublished,
                RestoredPublished, Published
  <2>5. CASE MovedOut \/ Trashed
    BY <2>5 DEF MovedOut, Trashed, Withdrawn
  <2> QED
    BY <1>6, <2>1, <2>2, <2>3, <2>4, <2>5 DEF MoveDrill
<1> QED
  BY <1>3, <1>4, <1>5, <1>6 DEF DrillsStep

LEMMA DrillsStart ==
  ASSUME DrillsInit
  PROVE  Sound /\ FlowInv
<1>1. /\ version = [s \in Sources |-> NoVersion] /\ rows = <<>>
      /\ job = [s \in Sources |-> NoJob] /\ publishing = [p \in Publishers |-> NotPublishing]
      /\ outbox = [s \in Sources |-> <<>>] /\ received = [s \in Sources |-> 0]
      /\ cursor = [s \in Sources |->
                    [changes |-> 0, file |-> Absent, missing |-> FALSE, tomb |-> FALSE]]
      /\ disp = [s \in Sources |-> FreshDispatch] /\ outcome = [s \in Sources |-> "missing"]
      /\ runs = [r \in RunIds |-> NoRun] /\ scanned = [s \in Sources |-> 0]
  BY DEF DrillsInit, PublicationInit
<1>2. /\ file \in {[at |-> "outside", etag |-> 1, path |-> 1],
                  [at |-> "nowhere", etag |-> 0, path |-> 1]}
      /\ embedding \in BOOLEAN /\ trouble \in Nat
  <2>1. trouble \in {MaxTrouble, 0}
    BY DEF DrillsInit
  <2> QED
    BY <2>1, PublicationAssumption DEF DrillsInit
<1>3. rows = <<>> /\ DOMAIN rows = {}
  BY <1>1
<1>4. IndexInv
  <2>1. version \in [Sources -> VersionSet]
    BY <1>1 DEF NoVersion, VersionSet
  <2>2. rows \in Seq(RowSet)
    BY <1>1
  <2> QED
    BY <1>1, <1>3, <2>1, <2>2 DEF IndexInv, VersionNames, NoVersion, ReadableIsCurrent
<1>5. RunHands /\ PublisherHands
  BY <1>1 DEF RunHands, PublisherHands, NoRun, NotPublishing, Asking
<1>6. file \in FileSet /\ file.at \notin Sources
  BY <1>2, PublicationAssumption DEF FileSet, Place
<1>7. job \in [Sources -> JobSet] /\ publishing \in [Publishers -> PublishingSet]
  BY <1>1 DEF NoJob, JobSet, NotPublishing, PublishingSet
<1>8. FlowTypes
  <2>1. FreshDispatch \in DispatchSet
    BY DEF FreshDispatch, DispatchSet
  <2>2. [changes |-> 0, file |-> Absent, missing |-> FALSE, tomb |-> FALSE] \in CursorSet
    BY DEF CursorSet, Absent, ViewSet
  <2>3. <<>> \in Seq(HintSet)
    OBVIOUS
  <2> QED
    BY <1>1, <1>2, <2>1, <2>2, <2>3 DEF FlowTypes
<1>9. \A r \in RunIds : runs[r].kind = "none" /\ runs[r].pc = "none"
  BY <1>1 DEF NoRun
<1>10. FileInv
  BY <1>1, <1>6 DEF FileInv, View
<1>11. OrderInv /\ PhaseInv /\ LogInv /\ ScanInv
  <2> SUFFICES ASSUME NEW s \in Sources
               PROVE  Ordered(s) /\ Phased(s) /\ Logged(s) /\ Scanned(s)
    BY DEF OrderInv, PhaseInv, LogInv, ScanInv
  <2>1. /\ disp[s] = FreshDispatch /\ received[s] = 0 /\ outbox[s] = <<>>
        /\ outcome[s] = "missing"
    BY <1>1
  <2> QED
    BY <2>1 DEF Ordered, Phased, Logged, Scanned, FreshDispatch
<1>12. WorkInv /\ RunInv /\ ClaimInv
  BY <1>9 DEF WorkInv, Working, RunInv, Reading, Listed, Running, ClaimInv, Claiming
<1>13. CursorInv /\ FreshInv
  BY <1>1 DEF CursorInv, FreshInv, Named, NoVersion
<1> QED
  BY <1>2, <1>4, <1>5, <1>6, <1>7, <1>8, <1>10, <1>11, <1>12, <1>13 DEF Sound, FlowInv

LEMMA RunTurns ==
  ASSUME Sound, FlowInv, NEW r \in RunIds, RunSteps(r)
  PROVE  Sound' /\ FlowInv' /\ HintsKept
  BY EarlySteps, WithdrawStep, IngestStep, StageStep, PublishedStep, StoreStep DEF RunSteps

(* A step of the index that is neither a run's nor the dispatcher's *)
LEMMA QuietTurns ==
  ASSUME Sound, FlowInv,
         \/ \E b \in BOOLEAN : Embedding(b)
         \/ \E s \in Sources : VersionSteps(s)
         \/ \E p \in Publishers : PublisherSteps(p)
  PROVE  Sound' /\ FlowInv' /\ Steady /\ UNCHANGED disp
<1>1. Sound' /\ Steady /\ FlowStill /\ UNCHANGED file
  BY ServiceStep, VersionStep, PublisherStep
<1> QED
  BY <1>1, StillFlows DEF FlowStill

LEMMA StepKeeps ==
  ASSUME Sound, FlowInv, [DrillsStep]_drillVars
  PROVE  Sound' /\ FlowInv'
<1>1. CASE UNCHANGED indexVars
  <2>1. /\ UNCHANGED <<file, embedding, version, rows, job, publishing, trouble>> /\ FlowStill
    BY <1>1 DEF indexVars, versionVars, publicationVars, FlowStill
  <2>2. IndexInv' /\ Steady
    BY <2>1, IndexStays DEF Sound
  <2>3. Sound'
    BY <2>1, <2>2, HandsKept DEF Sound, FlowTypes, FlowStill, Steady
  <2> QED
    BY <2>1, <2>2, <2>3, StillFlows
<1>2. CASE FileChange
  <2>1. Sound' /\ Steady /\ HintsKept /\ FileInv'
        /\ UNCHANGED <<received, cursor, disp, outcome, runs, scanned>>
    BY <1>2, FileChangeEffect DEF FlowInv
  <2> QED
    BY <2>1, FlowStays
<1>3. CASE \E b \in BOOLEAN : Embedding(b)
  BY <1>3, QuietTurns
<1>4. CASE WeKnoraStep
  BY <1>4, RunTurns, DispatchStep, QuietTurns DEF WeKnoraStep
<1> QED
  BY <1>1, <1>2, <1>3, <1>4, DrillsMove DEF drillVars

(* Whatever the drills and the users do, and whoever dies or is not answered: the records stay
   well formed, the index shows candidates of its own sources only, and the dispatcher's
   ranges, logs, runs and cursors agree with one another as FlowInv says.            *)
THEOREM PublicationCorrect == DrillsSpec => [](Sound /\ FlowInv)
<1>1. DrillsInit => Sound /\ FlowInv
  BY DrillsStart
<1>2. Sound /\ FlowInv /\ [DrillsStep]_drillVars => (Sound /\ FlowInv)'
  BY StepKeeps
<1> QED
  BY <1>1, <1>2, PTL DEF DrillsSpec

(* A row employees can read is the published candidate of its source, under the wanted ETag,
   parsed and unfenced, whatever runs, parsers and publishers were overtaken on the way. *)
THEOREM ReadableCorrect == DrillsSpec => []ReadableIsCurrent
<1>1. Sound /\ FlowInv => ReadableIsCurrent
  BY DEF Sound, IndexInv
<1> QED
  BY <1>1, PublicationCorrect, PTL

(* What is readable of a source is a state its folder announced at the last applied hint or
   later: an applied change is never answered with what it replaced.                   *)
THEOREM AppliedCorrect == DrillsSpec => []AppliedNeverStale
<1>1. Sound /\ FlowInv => AppliedNeverStale
  <2> SUFFICES ASSUME Sound, FlowInv, NEW k \in DOMAIN rows, rows[k].shown,
                      disp[rows[k].source].applied > 0
               PROVE  \E i \in disp[rows[k].source].applied..Len(outbox[rows[k].source]) :
                        outbox[rows[k].source][i].view =
                          [etag |-> rows[k].etag, path |-> rows[k].path]
    BY DEF AppliedNeverStale
  <2> DEFINE s == rows[k].source
  <2>1. s \in Sources
    BY RowTypes DEF Sound
  <2>2. version[s].state = "published" /\ version[s].cand = k
    BY DEF Sound, IndexInv, ReadableIsCurrent
  <2>3. Since(s, disp[s].applied, [etag |-> rows[k].etag, path |-> rows[k].path])
    BY <2>1, <2>2 DEF FlowInv, FreshInv, Named, CandidateView
  <2>4. disp[s].applied \in Nat /\ Len(outbox[s]) \in Nat
    BY <2>1, DispatchTypes
  <2> HIDE DEF s
  <2>5. \E i \in disp[s].applied..Len(outbox[s]) :
          outbox[s][i].view = [etag |-> rows[k].etag, path |-> rows[k].path]
    BY <2>3, <2>4 DEF Since
  <2> QED
    BY <2>5 DEF s
<1> QED
  BY <1>1, PublicationCorrect, PTL

(* One event run of a source at a time works on the index, also when an answer of the queue
   was lost or the dispatcher died.                                                   *)
THEOREM OneRunCorrect == DrillsSpec => []OneEventRun
<1>1. Sound /\ FlowInv => OneEventRun
  <2> SUFFICES ASSUME Sound, FlowInv, NEW s \in Sources
               PROVE  Cardinality({r \in RunIds : /\ runs[r].src = s /\ runs[r].kind = "event"
                                                 /\ runs[r].pc \in Running \ {"opened"}}) <= 1
    BY DEF OneEventRun
  <2> DEFINE W == {r \in RunIds : /\ runs[r].src = s /\ runs[r].kind = "event"
                                  /\ runs[r].pc \in Running \ {"opened"}}
  <2>1. \A q, r \in W : q = r
    BY DEF FlowInv, WorkInv, Working
  <2> HIDE DEF W
  <2>2. Cardinality(W) <= 1
    <3>1. CASE W = {}
      BY <3>1, FS_EmptySet
    <3>2. CASE W # {}
      <4>1. PICK r \in W : W = {r}
        BY <2>1, <3>2
      <4>2. Cardinality(W) = 1
        BY <4>1, FS_Singleton
      <4> QED
        BY <4>2
    <3> QED
      BY <3>1, <3>2
  <2> QED
    BY <2>2 DEF W
<1> QED
  BY <1>1, PublicationCorrect, PTL

(* Only a run that stages or withdraws changes the candidate of a source. *)
LEMMA RunReplaces ==
  ASSUME Sound, NEW r \in RunIds, RunSteps(r)
  PROVE  \/ UNCHANGED version
         \/ Tombstone(runs[r].src)
         \/ /\ Stageable(runs[r].src, runs[r].view, runs[r].cand, runs[r].claim)
            /\ Stage(runs[r].src, runs[r].view, runs[r].cand)
<1>1. CASE StartRun(r) \/ CreateLog(r) \/ ReadChanges(r) \/ ReadManifest(r) \/ StoreCursor(r)
  BY <1>1 DEF StartRun, CreateLog, ReadChanges, ReadManifest, StoreCursor, RunStays, versionVars
<1>2. CASE WithdrawItem(r)
  BY <1>2 DEF WithdrawItem
<1>3. CASE IngestItem(r) \/ ItemPublished(r)
  BY <1>3 DEF IngestItem, ItemPublished
<1>4. CASE StageItem(r)
  BY <1>4 DEF StageItem
<1> QED
  BY <1>1, <1>2, <1>3, <1>4 DEF RunSteps

LEMMA ReplacedUnderLease ==
  ASSUME Sound, NEW r \in RunIds, RunSteps(r), NEW s \in Sources, Failed(s),
         version'[s].state = "staging", version'[s].etag = version[s].etag,
         version'[s].cand # version[s].cand
  PROVE  job[s].state = "leased" /\ job[s].cand = version[s].cand /\ ~version[s].old
<1> DEFINE t == runs[r].src
<1>1. version \in [Sources -> VersionSet]
  BY DEF Sound, IndexInv
<1>2. CASE Tombstone(t)
  <2>1. version'[s] = IF s = t THEN [NoVersion EXCEPT !.state = "tombstone"] ELSE version[s]
    BY <1>1, <1>2 DEF Tombstone
  <2> QED
    BY <2>1 DEF NoVersion
<1>3. CASE Stageable(t, runs[r].view, runs[r].cand, runs[r].claim) /\ Stage(t, runs[r].view, runs[r].cand)
  <2>1. s = t /\ version[s].etag = runs[r].view.etag
    BY <1>1, <1>3 DEF Stage
  <2>2. ~version[s].old /\ LeaseHeld(s, runs[r].claim)
    BY <1>3, <2>1 DEF Stageable, Admitted
  <2> QED
    BY <2>2 DEF LeaseHeld
<1> QED
  BY <1>2, <1>3, RunReplaces

(* What a step that is not a run's leaves of the candidates *)
LEMMA StepReplaces ==
  ASSUME Sound, FlowInv, [DrillsStep]_drillVars
  PROVE  \/ \E r \in RunIds : RunSteps(r)
         \/ \A s \in Sources : version'[s].cand = version[s].cand
<1>1. CASE UNCHANGED indexVars
  BY <1>1 DEF indexVars, versionVars
<1>2. CASE FileChange
  BY <1>2, FileChangeEffect DEF FlowInv, versionVars
<1>3. CASE \E b \in BOOLEAN : Embedding(b)
  BY <1>3, QuietTurns DEF Steady
<1>4. CASE WeKnoraStep
  BY <1>4, DispatchStep, QuietTurns DEF WeKnoraStep, Steady
<1> QED
  BY <1>1, <1>2, <1>3, <1>4, DrillsMove DEF drillVars

(* A failed candidate is replaced under its own ETag only while its retry job is leased for
   it and its window is open, whoever stages.                                         *)
THEOREM ReplacedCorrect == DrillsSpec => FailedReplacedUnderLease
<1>1. Sound /\ FlowInv /\ [DrillsStep]_drillVars =>
        [\A s \in Sources :
           (/\ Failed(s) /\ version'[s].state = "staging" /\ version'[s].etag = version[s].etag
            /\ version'[s].cand # version[s].cand)
           => job[s].state = "leased" /\ job[s].cand = version[s].cand /\ ~version[s].old
        ]_drillVars
  BY StepReplaces, ReplacedUnderLease
<1> QED
  BY <1>1, PublicationCorrect, PTL DEF DrillsSpec, FailedReplacedUnderLease

(* The watermark of a source moves in Apply alone. *)
LEMMA DispatchApplies ==
  ASSUME Sound, FlowInv, NEW s \in Sources, DispatchSteps(s), NEW t \in Sources,
         disp'[t].applied # disp[t].applied
  PROVE  Apply(s) /\ t = s
<1>1. disp \in [Sources -> DispatchSet] /\ disp[s] \in DispatchSet
  BY DEF Sound, FlowTypes
<1>2. ASSUME NEW d, Turns(s, d), d.applied = disp[s].applied
      PROVE  FALSE
  BY <1>1, <1>2 DEF Turns
<1>3. ASSUME Claims(s, disp[s])
      PROVE  FALSE
  <2>1. Claimed(disp[s], s).applied = disp[s].applied
    BY <1>1 DEF Claimed, DispatchSet
  <2> QED
    BY <1>2, <1>3, <2>1 DEF Claims
<1>4. ASSUME NEW marker, Retries(s, marker)
      PROVE  FALSE
  <2>1. [disp[s] EXCEPT !.state = "retry", !.confirm = marker].applied = disp[s].applied
    BY <1>1 DEF DispatchSet
  <2> QED
    BY <1>2, <1>4, <2>1 DEF Retries
<1>5. CASE ClaimDue(s) \/ RunUnproven(s) \/ PublicationUnproven(s) \/ ConfirmBroad(s)
  BY <1>3, <1>4, <1>5 DEF ClaimDue, RunUnproven, PublicationUnproven, ConfirmBroad
<1>6. CASE Prepare(s)
  <2>1. /\ [disp[s] EXCEPT !.state = "retry", !.phase = "none", !.confirm = 0].applied
             = disp[s].applied
        /\ [disp[s] EXCEPT !.phase = "prepared", !.log = FreshLog].applied = disp[s].applied
    BY <1>1 DEF DispatchSet
  <2> QED
    BY <1>2, <1>6, <2>1 DEF Prepare
<1>7. CASE Enqueue(s)
  <2>1. /\ [disp[s] EXCEPT !.phase = "sent"].applied = disp[s].applied
        /\ [disp[s] EXCEPT !.phase = "lost", !.confirm = 0].applied = disp[s].applied
    BY <1>1 DEF DispatchSet
  <2> QED
    BY <1>2, <1>7, <2>1 DEF Enqueue
<1>8. CASE FinishDispatch(s)
  <2>1. [disp[s] EXCEPT !.state = "queued", !.phase = "none",
                        !.dispatched = disp[s].target].applied = disp[s].applied
    BY <1>1 DEF DispatchSet
  <2> QED
    BY <1>2, <1>8, <2>1 DEF FinishDispatch
<1>9. CASE DispatcherDies(s)
  <2>1. [disp[s] EXCEPT !.phase = "lost"].applied = disp[s].applied
    BY <1>1 DEF DispatchSet
  <2> QED
    BY <1>2, <1>9, <2>1 DEF DispatcherDies
<1>10. CASE RecoverLease(s)
  <2>1. [disp[s] EXCEPT !.state = "queued", !.phase = "none", !.dispatched = disp[s].target,
                        !.confirm = 0].applied = disp[s].applied
    BY <1>1 DEF DispatchSet
  <2> QED
    BY <1>2, <1>3, <1>10, <2>1 DEF RecoverLease
<1>11. CASE Receive(s) \/ DispatchRetry(s) \/ RetryLeaseEnds(s) \/ RetryWindowEnds(s)
  BY <1>11 DEF Receive, DispatchRetry, RetryLeaseEnds, RetryWindowEnds
<1>12. CASE Apply(s)
  <2> DEFINE done == [disp[s] EXCEPT !.state = "idle", !.applied = disp[s].target, !.confirm = 0]
  <2>1. Claims(s, done) \/ Turns(s, done)
    BY <1>12 DEF Apply
  <2>2. t = s
    BY <1>1, <2>1 DEF Claims, Turns
  <2> QED
    BY <1>12, <2>2
<1> QED
  BY <1>5, <1>6, <1>7, <1>8, <1>9, <1>10, <1>11, <1>12 DEF DispatchSteps

LEMMA AppliedTwice ==
  ASSUME Sound, FlowInv, NEW s \in Sources, Apply(s), NeedsTwoScans(s)
  PROVE  scanned[s] = 2
<1>1. /\ disp[s].state = "queued" /\ outcome[s] = "success"
      /\ disp[s].confirm = disp[s].target
  BY DEF Apply, ProofDue
<1>2. disp[s].applied \in Nat /\ disp[s].target \in Nat
  BY DispatchTypes
<1>3. disp[s].target # 0
  <2>1. PICK kinds : HintsIn(s, disp[s].applied, disp[s].target, kinds) # {}
    BY DEF NeedsTwoScans
  <2>2. PICK i \in (disp[s].applied + 1)..disp[s].target : TRUE
    BY <2>1 DEF HintsIn
  <2> QED
    BY <1>2, <2>2
<1> QED
  BY <1>1, <1>3 DEF FlowInv, ScanInv, Scanned

LEMMA StepApplies ==
  ASSUME Sound, FlowInv, [DrillsStep]_drillVars, NEW s \in Sources,
         disp'[s].applied # disp[s].applied
  PROVE  Apply(s)
<1>1. CASE UNCHANGED indexVars
  BY <1>1 DEF indexVars, publicationVars
<1>2. CASE FileChange
  BY <1>2, FileChangeEffect DEF FlowInv
<1>3. CASE \E b \in BOOLEAN : Embedding(b)
  BY <1>3, QuietTurns
<1>4. CASE WeKnoraStep
  <2>1. ASSUME NEW r \in RunIds, RunSteps(r)
        PROVE  UNCHANGED disp
    BY <2>1 DEF RunSteps, StartRun, CreateLog, ReadChanges, ReadManifest, WithdrawItem,
                IngestItem, StageItem, ItemPublished, StoreCursor, RunKeeps
  <2> QED
    BY <1>4, <2>1, DispatchApplies, QuietTurns DEF WeKnoraStep
<1> QED
  BY <1>1, <1>2, <1>3, <1>4, DrillsMove DEF drillVars

(* The watermark moves over a range with a folder change, or a vanished file, only after two
   complete scans for exactly that target: the marker of a first scan is never taken for the
   one of another target.                                                             *)
THEOREM ConfirmedCorrect == DrillsSpec => BroadConfirmedTwice
<1>1. Sound /\ FlowInv /\ [DrillsStep]_drillVars =>
        [\A s \in Sources :
           disp'[s].applied # disp[s].applied /\ NeedsTwoScans(s) => scanned[s] = 2]_drillVars
  BY StepApplies, AppliedTwice
<1> QED
  BY <1>1, PublicationCorrect, PTL DEF DrillsSpec, BroadConfirmedTwice

----------------------------------------------------------------------------
(* The drills.  They meet no mishap: a range that is claimed goes beyond what is applied, and
   its task is the only event run of its source.                                      *)

Busy(s) ==
  /\ disp[s].phase # "lost"
  /\ IF disp[s].state = "idle" THEN disp[s].dispatched = disp[s].applied
     ELSE /\ disp[s].applied < disp[s].target
          /\ disp[s].state = "queued" => disp[s].dispatched = disp[s].target
NamedByRange(r) ==
  runs[r].kind = "event" =>
    /\ disp[runs[r].src].log = r /\ disp[runs[r].src].state \in {"leased", "queued"}
    /\ outcome[runs[r].src] \notin {"success", "failed"}
Claimless == (\A s \in Sources : Busy(s)) /\ (\A r \in RunIds : NamedByRange(r))

(* A retry job that is leased has been tried, and no window has closed. *)
Budget ==
  \A s \in Sources : ~version[s].old /\ (job[s].state = "leased" => job[s].attempts >= 1)

(* What the file looks like is never of ETag 0. *)
Real ==
  /\ \A s \in Sources : View(s) # Absent => View(s).etag # 0
  /\ \A k \in DOMAIN rows : rows[k].etag # 0
  /\ \A r \in RunIds : runs[r].view # Absent => runs[r].view.etag # 0

Calm == trouble = 0 /\ Claimless /\ Budget /\ Real

(* Every hint is received and applied, and nothing is under way. *)
Settled ==
  /\ \A s \in Sources : /\ disp[s].state = "idle"
                        /\ disp[s].dispatched = received[s] /\ received[s] = Len(outbox[s])
  /\ \A r \in RunIds : runs[r] = NoRun
NoFailures == embedding /\ \A k \in DOMAIN rows : rows[k].parse # "failed"

(* The row is fenced for good. *)
Retired(k) == ~rows[k].open /\ version[rows[k].source].cand # k
Passed(k) == k \in DOMAIN rows /\ (version[rows[k].source].cand = k \/ ~rows[k].open)

(* What runs have seen of the folders is still true. *)
Seen == Listed \ {"listed"}
ViewsTrue == \A r \in RunIds : runs[r].pc \in Seen => runs[r].view = View(runs[r].src)

(* What a step leaves of the rows: a parsed one stays parsed, and one fails only while the
   embedding service is down; none is withdrawn.  No window closes, and no version row is
   forgotten.                                                                          *)
ParsedGoOn ==
  \A k \in DOMAIN rows :
    /\ rows[k].parse = "completed" => rows'[k].parse = "completed"
    /\ rows'[k].parse = "failed" => rows[k].parse = "failed" \/ ~embedding
NewRows ==
  \A k \in DOMAIN rows' \ DOMAIN rows : \E r \in RunIds :
    /\ runs[r].src \in Sources /\ View(runs[r].src) # Absent
    /\ rows'[k] = NewRow(runs[r].src, View(runs[r].src))
GoneSame == \A k \in DOMAIN rows : rows'[k].gone = rows[k].gone
VersionsLast ==
  \A s \in Sources :
    /\ version'[s].old => version[s].old
    /\ version'[s].state = "none" => version[s].state = "none"
Lasting == ParsedGoOn /\ NewRows /\ GoneSame /\ VersionsLast

LEMMA IndexLasts ==
  ASSUME DOMAIN rows' = DOMAIN rows, VersionsLast,
         \A k \in DOMAIN rows : rows'[k].parse = rows[k].parse /\ rows'[k].gone = rows[k].gone
  PROVE  Lasting
  BY DEF Lasting, ParsedGoOn, NewRows, GoneSame

LEMMA StageLasts ==
  ASSUME IndexInv, NEW s \in Sources, NEW v \in ViewSet, NEW k \in DOMAIN rows, Stage(s, v, k)
  PROVE  Lasting
<1> DEFINE kept == KeepOnly(s, k)
<1>1. rows' = [kept EXCEPT ![k].etag = v.etag, ![k].path = v.path]
  BY DEF Stage
<1>2. /\ kept \in Seq(RowSet) /\ DOMAIN kept = DOMAIN rows
      /\ \A j \in DOMAIN rows : kept[j].parse = rows[j].parse /\ kept[j].gone = rows[j].gone
  BY KeptRows DEF IndexInv, Closed
<1> HIDE DEF kept
<1>3. kept[k] \in RowSet
  BY <1>2, RowsAre
<1>4. /\ DOMAIN rows' = DOMAIN rows
      /\ rows'[k] = [kept[k] EXCEPT !.etag = v.etag, !.path = v.path]
      /\ \A j \in DOMAIN rows : j # k => rows'[j] = kept[j]
  BY <1>1, <1>2
<1>5. \A j \in DOMAIN rows : rows'[j].parse = rows[j].parse /\ rows'[j].gone = rows[j].gone
  BY <1>2, <1>3, <1>4 DEF RowSet
<1>6. VersionsLast
  BY DEF Stage, IndexInv, VersionsLast
<1> QED
  BY <1>4, <1>5, <1>6, IndexLasts

LEMMA ReadableLasts ==
  ASSUME IndexInv, NEW k \in DOMAIN rows, MakeReadable(k)
  PROVE  Lasting
<1> DEFINE s == rows[k].source
           kept == KeepOnly(s, k)
<1>1. s \in Sources
  BY RowTypes
<1>2. rows' = [kept EXCEPT ![k].shown = TRUE] /\ version' = [version EXCEPT ![s].state = "published"]
  BY DEF MakeReadable
<1>3. /\ kept \in Seq(RowSet) /\ DOMAIN kept = DOMAIN rows
      /\ \A j \in DOMAIN rows : kept[j].parse = rows[j].parse /\ kept[j].gone = rows[j].gone
  BY <1>1, KeptRows DEF IndexInv, Closed
<1> HIDE DEF kept, s
<1>4. kept[k] \in RowSet
  BY <1>3, RowsAre
<1>5. /\ DOMAIN rows' = DOMAIN rows
      /\ rows'[k] = [kept[k] EXCEPT !.shown = TRUE]
      /\ \A j \in DOMAIN rows : j # k => rows'[j] = kept[j]
  BY <1>2, <1>3
<1>6. \A j \in DOMAIN rows : rows'[j].parse = rows[j].parse /\ rows'[j].gone = rows[j].gone
  BY <1>3, <1>4, <1>5 DEF RowSet
<1>7. VersionsLast
  BY <1>1, <1>2 DEF IndexInv, VersionSet, VersionsLast
<1> QED
  BY <1>5, <1>6, <1>7, IndexLasts

LEMMA HiddenLasts ==
  ASSUME IndexInv, NEW s \in Sources, rows' = Hidden(s),
         version' = [version EXCEPT ![s].state = "staging"]
  PROVE  Lasting
<1>1. /\ DOMAIN rows' = DOMAIN rows
      /\ \A k \in DOMAIN rows : rows'[k].parse = rows[k].parse /\ rows'[k].gone = rows[k].gone
  BY HiddenRows DEF IndexInv, Closed
<1>2. VersionsLast
  BY DEF IndexInv, VersionSet, VersionsLast
<1> QED
  BY <1>1, <1>2, IndexLasts

(* Only a tombstone withdraws rows, those of its source. *)
LEMMA TombstoneLasts ==
  ASSUME IndexInv, NEW s \in Sources, Tombstone(s)
  PROVE  /\ ParsedGoOn /\ NewRows /\ VersionsLast
         /\ \A k \in DOMAIN rows : rows[k].source # s => rows'[k] = rows[k]
<1> DEFINE kept == KeepOnly(s, 0)
<1>1. rows' = [k \in DOMAIN rows |->
                IF rows[k].source = s THEN [kept[k] EXCEPT !.gone = TRUE] ELSE rows[k]]
  BY DEF Tombstone
<1>2. /\ kept \in Seq(RowSet) /\ DOMAIN kept = DOMAIN rows
      /\ \A j \in DOMAIN rows : kept[j].parse = rows[j].parse
  BY KeptRows DEF IndexInv, Closed
<1> HIDE DEF kept
<1>3. \A j \in DOMAIN rows : kept[j] \in RowSet
  BY <1>2, RowsAre
<1>4. /\ DOMAIN rows' = DOMAIN rows
      /\ \A k \in DOMAIN rows : rows[k].source # s => rows'[k] = rows[k]
      /\ \A k \in DOMAIN rows : rows[k].source = s => rows'[k] = [kept[k] EXCEPT !.gone = TRUE]
  BY <1>1
<1>5. \A k \in DOMAIN rows : rows'[k].parse = rows[k].parse
  BY <1>2, <1>3, <1>4 DEF RowSet
<1>6. VersionsLast
  BY DEF Tombstone, IndexInv, NoVersion, VersionsLast
<1> QED
  BY <1>4, <1>5, <1>6 DEF ParsedGoOn, NewRows

LEMMA UntouchedLasts ==
  ASSUME UNCHANGED <<version, rows>>
  PROVE  Lasting
  BY IndexLasts DEF VersionsLast

(* A job keeps its candidate and its attempts, or notes a failure. *)
JobGoesOn(s) ==
  /\ job'[s].state = "leased" => job'[s].attempts >= 1
  /\ \/ job'[s].cand = job[s].cand /\ job'[s].attempts >= job[s].attempts
     \/ Failed(s) /\ job'[s].cand = version[s].cand
JobsGoOn == \A s \in Sources : JobGoesOn(s)

LEMMA JobsStay ==
  ASSUME Sound, Calm, UNCHANGED job
  PROVE  JobsGoOn
<1>1. \A s \in Sources : job[s].attempts \in Nat
  BY DEF Sound, JobSet
<1> QED
  BY <1>1 DEF JobsGoOn, JobGoesOn, Calm, Budget

LEMMA JobTurns ==
  ASSUME Sound, Calm, NEW s \in Sources, NEW j, job' = [job EXCEPT ![s] = j],
         j.state = "leased" => j.attempts >= 1,
         \/ j.cand = job[s].cand /\ j.attempts >= job[s].attempts
         \/ Failed(s) /\ j.cand = version[s].cand
  PROVE  JobsGoOn
<1>1. \A t \in Sources : job[t].attempts \in Nat
  BY DEF Sound, JobSet
<1>2. job'[s] = j /\ \A t \in Sources \ {s} : job'[t] = job[t]
  BY DEF Sound
<1> QED
  BY <1>1, <1>2 DEF JobsGoOn, JobGoesOn, Calm, Budget

LEMMA BudgetKept ==
  ASSUME Calm, VersionsLast, JobsGoOn
  PROVE  Budget'
  BY DEF Calm, Budget, VersionsLast, JobsGoOn, JobGoesOn

(* What the parser, the retry job and the publishers do. *)
IndexTurns == Lasting /\ JobsGoOn /\ UNCHANGED <<embedding, trouble>>

LEMMA VersionTurns ==
  ASSUME Sound, Calm, NEW s \in Sources, VersionSteps(s)
  PROVE  IndexTurns
<1>0. job[s] \in JobSet /\ job[s].attempts \in Nat /\ ~version[s].old
  BY DEF Sound, JobSet, Calm, Budget
<1>1. CASE Versions(NoteFailure(s))
  <2> DEFINE j == [state |-> IF version[s].old THEN "manual" ELSE "retry",
                   etag |-> version[s].etag, cand |-> version[s].cand,
                   lease |-> job[s].lease,
                   attempts |-> IF job[s].etag = version[s].etag THEN job[s].attempts ELSE 0]
  <2>1. /\ job' = [job EXCEPT ![s] = j] /\ UNCHANGED <<version, rows>> /\ Failed(s)
        /\ UNCHANGED <<embedding, trouble>>
    BY <1>1 DEF Versions, publicationVars, NoteFailure
  <2>2. j.state # "leased" /\ j.cand = version[s].cand
    BY <1>0
  <2> HIDE DEF j
  <2> QED
    BY <2>1, <2>2, JobTurns, UntouchedLasts DEF IndexTurns
<1>2. CASE Versions(GiveUpRetrying(s))
  BY <1>0, <1>2 DEF Versions, GiveUpRetrying
<1>4. CASE ~HasRunning(s) /\ Versions(RetryFailedCandidate(s))
  <2> DEFINE j == [state |-> "retry", etag |-> version[s].etag,
                   cand |-> version[s].cand, attempts |-> 0, lease |-> job[s].lease]
  <2>1. /\ job' = [job EXCEPT ![s] = j] /\ UNCHANGED rows /\ Failed(s)
        /\ version' = [version EXCEPT ![s].old = FALSE]
        /\ UNCHANGED <<embedding, trouble>>
    BY <1>4 DEF Versions, publicationVars, RetryFailedCandidate
  <2>2. UNCHANGED version
    <3>0. version \in [Sources -> VersionSet]
      BY DEF Sound, IndexInv
    <3>1. version \in [Sources -> VersionSet] /\ version[s].old = FALSE
      BY <1>0, <3>0 DEF VersionSet
    <3>2. [version[s] EXCEPT !.old = FALSE] = version[s]
      BY <3>1 DEF VersionSet
    <3> QED  BY <2>1, <3>1, <3>2
  <2>3. j.state # "leased" /\ j.cand = version[s].cand
    OBVIOUS
  <2> HIDE DEF j
  <2> QED
    BY <2>1, <2>2, <2>3, JobTurns, UntouchedLasts DEF IndexTurns
<1>3. ASSUME NEW k \in DOMAIN rows, rows[k].source = s, Versions(ParseEnds(k))
      PROVE  IndexTurns
  <2>1. /\ UNCHANGED <<version, job, embedding, trouble>> /\ rows[k].parse = "pending"
        /\ \/ rows' = [rows EXCEPT ![k].parse = "completed"]
           \/ ~embedding /\ rows' = [rows EXCEPT ![k].parse = "failed"]
    BY <1>3 DEF Versions, publicationVars, ParseEnds
  <2>2. rows[k] \in RowSet
    BY RowTypes DEF Sound
  <2>3. Lasting
    BY <2>1, <2>2 DEF Lasting, ParsedGoOn, NewRows, GoneSame, VersionsLast, RowSet
  <2> QED
    BY <2>1, <2>3, JobsStay DEF IndexTurns
<1> QED
  BY <1>1, <1>2, <1>3, <1>4 DEF VersionSteps

LEMMA PublisherTurns ==
  ASSUME Sound, Calm, NEW p \in Publishers, PublisherSteps(p)
  PROVE  IndexTurns
<1>1. PICK answers \in BOOLEAN :
        \/ PublishAsk(p, answers) \/ PublishCommit(p) \/ PublishConfirm(p, answers)
        \/ PublishHide(p)
  BY DEF PublisherSteps, Versions
<1>2. UNCHANGED <<job, embedding, trouble>> /\ publishing[p].pc \in Asking
  <2>1. UNCHANGED job /\ publishing[p].pc \in Asking
    BY <1>1 DEF PublishAsk, PublishCommit, PublishConfirm, PublishHide, PublishingAt, Asking
  <2>2. UNCHANGED <<embedding, trouble>>
    <3>1. \/ UNCHANGED <<file, embedding, publicationVars>>
          \/ /\ trouble > 0 /\ trouble' = trouble - 1
             /\ UNCHANGED <<file, embedding, outbox, received, cursor, disp, outcome, runs,
                            scanned>>
      BY DEF PublisherSteps, Versions
    <3> QED
      BY <3>1 DEF publicationVars, Calm
  <2> QED
    BY <2>1, <2>2
<1> DEFINE k == publishing[p].cand
<1>3. \/ UNCHANGED <<version, rows>>
      \/ MakeReadable(k)
      \/ rows' = Hidden(rows[k].source) /\ version' = [version EXCEPT ![rows[k].source].state = "staging"]
  BY <1>1 DEF PublishAsk, PublishCommit, PublishConfirm, PublishHide
<1>4. k \in DOMAIN rows /\ rows[k].source \in Sources /\ IndexInv
  BY <1>2, RowTypes DEF Sound, PublisherHands
<1> HIDE DEF k
<1>5. Lasting
  BY <1>3, <1>4, UntouchedLasts, ReadableLasts, HiddenLasts
<1> QED
  BY <1>2, <1>5, JobsStay DEF IndexTurns

(* What the dispatcher does *)
Dispatched ==
  /\ Claimless' /\ UNCHANGED <<file, embedding, outbox, version, rows, trouble>> /\ JobsGoOn
  /\ \A r \in RunIds : runs'[r] = runs[r] \/ (runs'[r].pc = "queued" /\ runs'[r].view = Absent)
NoTask(s) == \A r \in RunIds : ~(runs[r].kind = "event" /\ runs[r].src = s)
Going(d) ==
  /\ d.phase # "lost"
  /\ IF d.state = "idle" THEN d.dispatched = d.applied
     ELSE d.applied < d.target /\ (d.state = "queued" => d.dispatched = d.target)

LEMMA TurnCalm ==
  ASSUME Sound, Calm, NEW s \in Sources, NEW d, disp' = [disp EXCEPT ![s] = d], Going(d),
         NoTask(s) \/ (/\ d.log = disp[s].log /\ outcome'[s] = outcome[s]
                       /\ d.state \in {"leased", "queued"}),
         \A t \in Sources \ {s} : outcome'[t] = outcome[t], UNCHANGED <<runs, trouble>>,
         UNCHANGED <<job, version>>, IndexStill
  PROVE  Dispatched
<1>1. disp'[s] = d /\ \A t \in Sources \ {s} : disp'[t] = disp[t]
  BY DEF Sound, FlowTypes
<1>2. \A t \in Sources : Busy(t)'
  BY <1>1 DEF Calm, Claimless, Busy, Going
<1>3. ASSUME NEW r \in RunIds
      PROVE  NamedByRange(r)'
  <2>1. runs[r].kind = "event" => runs[r].src \in Sources
    BY RunTypes
  <2> QED
    BY <1>1, <2>1 DEF Calm, Claimless, NamedByRange, NoTask
<1> QED
  BY <1>2, <1>3, JobsStay DEF Dispatched, Claimless, IndexStill

LEMMA ClaimsCalm ==
  ASSUME Sound, FlowInv, Calm, NEW s \in Sources, NEW d \in DispatchSet, Claims(s, d), NoTask(s),
         d.applied < received[s], DispatcherKeeps, UNCHANGED <<runs, trouble>>
  PROVE  Dispatched
<1> DEFINE e == Claimed(d, s)
<1>1. Going(e)
  BY DEF Claimed, DispatchSet, Going
<1>2. disp' = [disp EXCEPT ![s] = e] /\ outcome' = [outcome EXCEPT ![s] = "missing"]
  BY DEF Claims, Turns
<1>3. IndexStill /\ UNCHANGED <<version, job>>
  BY KeepsIndex DEF IndexStill
<1> HIDE DEF e
<1>4. \A t \in Sources \ {s} : outcome'[t] = outcome[t]
  BY <1>2 DEF Sound, FlowTypes
<1> QED
  BY <1>1, <1>2, <1>3, <1>4, TurnCalm

LEMMA TurnsCalm ==
  ASSUME Sound, FlowInv, Calm, NEW s \in Sources, NEW d, Turns(s, d), Going(d),
         NoTask(s) \/ (d.log = disp[s].log /\ d.state \in {"leased", "queued"}),
         DispatcherKeeps, UNCHANGED <<outcome, runs, trouble>>
  PROVE  Dispatched
<1>1. IndexStill /\ UNCHANGED <<version, job>>
  BY KeepsIndex DEF IndexStill
<1> QED
  BY <1>1, TurnCalm DEF Turns

LEMMA NoTasks ==
  ASSUME Sound, FlowInv, Calm, NEW s \in Sources,
         \/ disp[s].state \in {"idle", "retry"} \/ outcome[s] \in {"success", "failed"}
         \/ disp[s].phase \in {"claimed", "prepared"}
  PROVE  NoTask(s)
<1> SUFFICES ASSUME NEW r \in RunIds, runs[r].kind = "event", runs[r].src = s
             PROVE  FALSE
  BY DEF NoTask
<1>1. /\ disp[s].log = r /\ disp[s].state \in {"leased", "queued"}
      /\ outcome[s] \notin {"success", "failed"}
  BY DEF Calm, Claimless, NamedByRange
<1>2. r # 0 /\ runs[r] # NoRun
  BY LogsPositive, RunTypes
<1> QED
  BY <1>1, <1>2 DEF FlowInv, PhaseInv, Phased

LEMMA ClaimsAndRetries ==
  ASSUME Sound, FlowInv, Calm, NEW s \in Sources,
         ClaimDue(s) \/ RunUnproven(s) \/ PublicationUnproven(s) \/ ConfirmBroad(s)
  PROVE  Dispatched
<1>0. /\ disp[s] \in DispatchSet /\ disp[s].applied \in Nat /\ disp[s].target \in Nat
      /\ received[s] \in Nat /\ Ordered(s) /\ Busy(s) /\ trouble = 0
  BY DispatchTypes DEF FlowInv, OrderInv, Calm, Claimless
<1>1. NoTask(s)
  BY <1>0, NoTasks DEF ClaimDue, RunUnproven, PublicationUnproven, ConfirmBroad, ProofDue
<1>2. /\ DispatcherKeeps /\ UNCHANGED <<runs, trouble>>
      /\ \/ Claims(s, disp[s]) /\ disp[s].applied < received[s]
         \/ \E marker \in Nat : Retries(s, marker) /\ disp[s].state = "queued"
  <2>1. CASE ClaimDue(s)
    BY <1>0, <2>1 DEF ClaimDue, Busy, Ordered
  <2>2. CASE RunUnproven(s)
    BY <1>0, <2>2 DEF RunUnproven
  <2>3. CASE PublicationUnproven(s)
    BY <1>0, <2>3 DEF PublicationUnproven, ProofDue, Busy, Ordered
  <2>4. CASE ConfirmBroad(s)
    BY <1>0, <2>4 DEF ConfirmBroad, ProofDue
  <2> QED
    BY <2>1, <2>2, <2>3, <2>4
<1>3. CASE Claims(s, disp[s]) /\ disp[s].applied < received[s]
  BY <1>0, <1>1, <1>2, <1>3, ClaimsCalm
<1>4. ASSUME NEW marker \in Nat, Retries(s, marker), disp[s].state = "queued"
      PROVE  Dispatched
  <2> DEFINE d == [disp[s] EXCEPT !.state = "retry", !.confirm = marker]
  <2>1. Going(d)
    BY <1>0, <1>4 DEF Going, Busy, DispatchSet
  <2>2. Turns(s, d) /\ UNCHANGED outcome
    BY <1>4 DEF Retries
  <2> HIDE DEF d
  <2> QED
    BY <1>1, <1>2, <2>1, <2>2, TurnsCalm
<1> QED
  BY <1>2, <1>3, <1>4

LEMMA ApplyCalm ==
  ASSUME Sound, FlowInv, Calm, NEW s \in Sources, Apply(s)
  PROVE  Dispatched
<1> DEFINE done == [disp[s] EXCEPT !.state = "idle", !.applied = disp[s].target, !.confirm = 0]
<1>0. /\ disp[s] \in DispatchSet /\ disp[s].target \in Nat /\ disp[s].dispatched \in Nat
      /\ received[s] \in Nat /\ disp[s].state = "queued" /\ disp[s].dispatched = disp[s].target
      /\ disp[s].phase # "lost"
  BY DispatchTypes DEF Apply, ProofDue, Calm, Claimless, Busy, DispatchSet
<1>1. NoTask(s)
  BY NoTasks DEF Apply, ProofDue
<1>2. /\ DispatcherKeeps /\ UNCHANGED <<runs, trouble>>
      /\ \/ received[s] > disp[s].dispatched /\ Claims(s, done)
         \/ Turns(s, done) /\ UNCHANGED outcome
  BY DEF Apply
<1>3. done \in DispatchSet /\ done.applied = disp[s].target /\ Going(done)
  BY <1>0 DEF DispatchSet, Going
<1> HIDE DEF done
<1> QED
  BY <1>0, <1>1, <1>2, <1>3, ClaimsCalm, TurnsCalm

LEMMA SubmitCalm ==
  ASSUME Sound, FlowInv, Calm, NEW s \in Sources,
         Prepare(s) \/ FinishDispatch(s) \/ DispatcherDies(s) \/ RecoverLease(s)
  PROVE  Dispatched
<1>0. /\ disp[s] \in DispatchSet /\ Busy(s) /\ Phased(s) /\ trouble = 0
      /\ disp[s].applied \in Nat /\ disp[s].target \in Nat
  BY DispatchTypes DEF FlowInv, PhaseInv, Calm, Claimless
<1>1. CASE Prepare(s)
  <2> DEFINE d1 == [disp[s] EXCEPT !.state = "retry", !.phase = "none", !.confirm = 0]
             d2 == [disp[s] EXCEPT !.phase = "prepared", !.log = FreshLog]
  <2>1. /\ DispatcherKeeps /\ UNCHANGED <<outcome, runs, trouble>>
        /\ Turns(s, d1) \/ Turns(s, d2)
    BY <1>1 DEF Prepare
  <2>2. disp[s].phase = "claimed" /\ disp[s].state = "leased"
    BY <1>0, <1>1 DEF Prepare, Phased
  <2>3. NoTask(s)
    BY <2>2, NoTasks
  <2>4. Going(d1) /\ Going(d2)
    BY <1>0, <2>2 DEF Going, Busy, DispatchSet
  <2> HIDE DEF d1, d2
  <2> QED
    BY <2>1, <2>3, <2>4, TurnsCalm
<1>2. CASE FinishDispatch(s)
  <2> DEFINE d == [disp[s] EXCEPT !.state = "queued", !.phase = "none",
                                  !.dispatched = disp[s].target]
  <2>1. DispatcherKeeps /\ UNCHANGED <<outcome, runs, trouble>> /\ Turns(s, d)
    BY <1>2 DEF FinishDispatch
  <2>2. disp[s].state = "leased"
    BY <1>0, <1>2 DEF FinishDispatch, Phased
  <2>3. Going(d) /\ d.log = disp[s].log /\ d.state = "queued"
    BY <1>0, <2>2 DEF Going, Busy, DispatchSet
  <2> HIDE DEF d
  <2> QED
    BY <2>1, <2>3, TurnsCalm
<1>3. CASE DispatcherDies(s) \/ RecoverLease(s)
  BY <1>0, <1>3 DEF DispatcherDies, RecoverLease, Busy
<1> QED
  BY <1>1, <1>2, <1>3

LEMMA EnqueueCalm ==
  ASSUME Sound, FlowInv, Calm, NEW s \in Sources, Enqueue(s)
  PROVE  Dispatched
<1> DEFINE d == [disp[s] EXCEPT !.phase = "sent"]
           l == disp[s].log
<1>0. /\ disp[s] \in DispatchSet /\ Busy(s) /\ Phased(s) /\ trouble = 0
      /\ disp[s].phase = "prepared"
  BY DispatchTypes DEF FlowInv, PhaseInv, Calm, Claimless, Enqueue
<1>1. /\ l \in RunIds /\ outcome[s] = "missing" /\ disp[s].state = "leased"
  BY <1>0, DispatchTypes DEF Phased
<1>2. /\ runs' = [runs EXCEPT ![l] = EventRun(s)] /\ disp' = [disp EXCEPT ![s] = d]
      /\ DispatcherKeeps /\ UNCHANGED <<outcome, scanned, trouble>>
  BY <1>0 DEF Enqueue, Turns
<1>3. Going(d) /\ d.log = l /\ d.state = "leased"
  BY <1>0, <1>1 DEF Going, Busy, DispatchSet
<1>4. NoTask(s)
  BY <1>0, NoTasks
<1> HIDE DEF d, l
<1>5. /\ disp'[s] = d /\ \A t \in Sources \ {s} : disp'[t] = disp[t]
      /\ runs'[l] = EventRun(s) /\ \A r \in RunIds \ {l} : runs'[r] = runs[r]
  BY <1>1, <1>2 DEF Sound, FlowTypes
<1>6. EventRun(s).view = Absent /\ EventRun(s).pc = "queued" /\ EventRun(s).src = s
  BY DEF EventRun, NoRun
<1>7. \A t \in Sources : Busy(t)'
  BY <1>3, <1>5 DEF Calm, Claimless, Busy, Going
<1>8. ASSUME NEW r \in RunIds
      PROVE  NamedByRange(r)'
  <2>1. runs[r].kind = "event" => runs[r].src \in Sources
    BY RunTypes
  <2>2. CASE r = l
    BY <1>1, <1>2, <1>3, <1>5, <1>6, <2>2 DEF NamedByRange
  <2>3. CASE r # l
    BY <1>2, <1>4, <1>5, <2>1, <2>3 DEF Calm, Claimless, NamedByRange, NoTask
  <2> QED
    BY <2>2, <2>3
<1>9. \A r \in RunIds : runs'[r] = runs[r] \/ (runs'[r].pc = "queued" /\ runs'[r].view = Absent)
  BY <1>5, <1>6
<1> QED
  BY <1>2, <1>7, <1>8, <1>9, JobsStay DEF Dispatched, Claimless, DispatcherKeeps, versionVars

LEMMA RetryCalm ==
  ASSUME Sound, FlowInv, Calm, NEW s \in Sources, DispatchRetry(s)
  PROVE  Dispatched
<1> DEFINE l == FreshLog
           c == [ClaimOf(s) EXCEPT !.lease = job[s].lease + 1]
           n == [NoRun EXCEPT !.kind = "retry", !.src = s, !.pc = "queued", !.claim = c]
           j == [job[s] EXCEPT !.state = "leased", !.lease = job[s].lease + 1,
                               !.attempts = job[s].attempts + 1]
<1>1. /\ l \in RunIds /\ runs' = [runs EXCEPT ![l] = n] /\ job' = [job EXCEPT ![s] = j]
      /\ UNCHANGED <<file, embedding, outbox, version, rows, disp, outcome, trouble>>
  BY DEF DispatchRetry, FreshLog, LogLeft, Unused, TakeLease
<1>2. n.kind = "retry" /\ n.pc = "queued" /\ n.view = Absent
  <2> HIDE DEF c
  <2> QED
    BY DEF NoRun
<1>3. /\ j.attempts >= 1 /\ j.attempts >= job[s].attempts /\ j.cand = job[s].cand
  BY DEF Sound, JobSet
<1> HIDE DEF l, c, n, j
<1>4. JobsGoOn
  BY <1>1, <1>3, JobTurns
<1>5. runs'[l] = n /\ \A r \in RunIds \ {l} : runs'[r] = runs[r]
  BY <1>1 DEF Sound, FlowTypes
<1>6. Claimless'
  BY <1>1, <1>2, <1>5 DEF Calm, Claimless, Busy, NamedByRange
<1> QED
  BY <1>1, <1>2, <1>4, <1>5, <1>6 DEF Dispatched

LEMMA DispatchCalm ==
  ASSUME Sound, FlowInv, Calm, NEW s \in Sources, DispatchSteps(s)
  PROVE  Dispatched
<1>1. CASE Receive(s)
  <2>1. UNCHANGED <<file, embedding, outbox, version, rows, job, disp, outcome, runs, trouble>>
    BY <1>1 DEF Receive, versionVars
  <2> QED
    BY <2>1, JobsStay DEF Dispatched, Calm, Claimless, Busy, NamedByRange
<1>2. CASE RetryLeaseEnds(s)
  <2> DEFINE j == [job[s] EXCEPT !.state = "expired"]
  <2>1. /\ job' = [job EXCEPT ![s] = j]
        /\ UNCHANGED <<file, embedding, outbox, version, rows, disp, outcome, runs>>
    BY <1>2 DEF RetryLeaseEnds, LeaseExpires
  <2>2. trouble' = trouble
    <3> DEFINE working == \E r \in RunIds : runs[r].src = s /\ runs[r].kind = "retry"
    <3>1. /\ trouble >= (IF working THEN 1 ELSE 0)
          /\ trouble' = trouble - (IF working THEN 1 ELSE 0)
      BY <1>2 DEF RetryLeaseEnds
    <3>2. CASE working
      BY <3>1, <3>2 DEF Calm
    <3>3. CASE ~working
      <4>1. trouble' = trouble - 0 /\ trouble = 0
        BY <3>1, <3>3 DEF Calm
      <4> QED
        BY <4>1
    <3> QED
      BY <3>2, <3>3
  <2>3. job[s] \in JobSet /\ job[s].attempts \in Nat
    BY DEF Sound, JobSet
  <2>4. j.state # "leased" /\ j.cand = job[s].cand /\ j.attempts >= job[s].attempts
    BY <2>3 DEF JobSet
  <2> HIDE DEF j
  <2>5. JobsGoOn
    BY <2>1, <2>3, <2>4, JobTurns
  <2> QED
    BY <2>1, <2>2, <2>5 DEF Dispatched, Calm, Claimless, Busy, NamedByRange
<1>3. CASE RetryWindowEnds(s)
  BY <1>3 DEF RetryWindowEnds, Calm
<1> QED
  BY <1>1, <1>2, <1>3, ClaimsAndRetries, ApplyCalm, SubmitCalm, EnqueueCalm, RetryCalm
     DEF DispatchSteps

(* What becomes of a run: it saw what the folder shows, and takes the candidate of the listed
   version where there is one.                                                        *)
RunOn(q) ==
  \/ runs'[q] \in {runs[q], NoRun}
  \/ runs'[q].pc = "queued" /\ runs'[q].view = Absent
  \/ /\ runs[q] # NoRun /\ runs'[q].src = runs[q].src
     /\ \/ runs'[q].view = runs[q].view /\ (runs'[q].pc \in Seen => runs[q].pc \in Seen)
        \/ runs'[q].view = View(runs[q].src)
     /\ runs'[q].pc = "made" =>
          (Reusable(runs[q].src, View(runs[q].src).etag) => runs'[q].cand = version[runs[q].src].cand)

Stages(r) ==
  /\ runs[r].pc = "made" /\ rows[runs[r].cand].open
  /\ Stageable(runs[r].src, runs[r].view, runs[r].cand, runs[r].claim)
  /\ Stage(runs[r].src, runs[r].view, runs[r].cand)
Removes(r) == runs[r].pc = "seen" /\ runs[r].view = Absent /\ Tombstone(runs[r].src)
IndexOn(r) == (Steady /\ Lasting) \/ Stages(r) \/ Removes(r)

(* What a run does *)
Ran(r) ==
  /\ UNCHANGED <<file, embedding, outbox, trouble, job>> /\ Claimless' /\ IndexOn(r)
  /\ \A q \in RunIds : RunOn(q)

LEMMA RunCalm ==
  ASSUME Sound, Calm, NEW r \in RunIds, NEW rec, runs[r] # NoRun, RunGoes(r, rec),
         UNCHANGED <<file, embedding, outbox, trouble, job, disp>>, IndexOn(r),
         rec # NoRun =>
           /\ rec.kind = runs[r].kind /\ rec.src = runs[r].src
           /\ \/ rec.view = runs[r].view /\ (rec.pc \in Seen => runs[r].pc \in Seen)
              \/ rec.view = View(runs[r].src)
           /\ rec.pc = "made" =>
                (Reusable(runs[r].src, View(runs[r].src).etag) => rec.cand = version[runs[r].src].cand),
         \/ UNCHANGED outcome \/ LogSays(r, "running")
         \/ rec = NoRun /\ \E what \in {"success", "failed"} : LogSays(r, what)
  PROVE  Ran(r)
<1>1. runs'[r] = rec /\ \A q \in RunIds \ {r} : runs'[q] = runs[q]
  BY DEF Sound, FlowTypes, RunGoes
<1>2. \A s \in Sources : Busy(s)'
  BY DEF Calm, Claimless, Busy
<1>3. ASSUME NEW q \in RunIds, runs'[q].kind = "event"
      PROVE  NamedByRange(q)'
  <2>1. runs[q].kind = "event" /\ runs'[q].src = runs[q].src /\ (q = r => rec # NoRun)
    BY <1>1, <1>3 DEF NoRun
  <2>2. runs[q].src \in Sources
    BY <2>1, RunTypes
  <2>3. /\ disp[runs[q].src].log = q /\ disp[runs[q].src].state \in {"leased", "queued"}
        /\ outcome[runs[q].src] \notin {"success", "failed"}
    BY <2>1 DEF Calm, Claimless, NamedByRange
  <2>4. outcome'[runs[q].src] \notin {"success", "failed"}
    BY <2>1, <2>2, <2>3 DEF LogSays
  <2> QED
    BY <2>1, <2>3, <2>4 DEF NamedByRange
<1>4. \A q \in RunIds : RunOn(q)
  BY <1>1 DEF RunOn
<1> QED
  BY <1>2, <1>3, <1>4 DEF Ran, Claimless, NamedByRange

LEMMA EarlyCalm ==
  ASSUME Sound, Calm, NEW r \in RunIds,
         StartRun(r) \/ CreateLog(r) \/ ReadChanges(r) \/ ReadManifest(r)
  PROVE  Ran(r)
<1>0. /\ runs[r] \in RunSet /\ runs[r] # NoRun /\ UNCHANGED <<version, rows>>
      /\ UNCHANGED <<file, embedding, outbox, trouble, job, disp>>
  <2>1. runs[r].pc # "none"
    BY DEF StartRun, CreateLog, ReadChanges, ReadManifest
  <2>2. UNCHANGED trouble
    <3>1. ~(trouble > 0)
      BY DEF Calm
    <3> QED
      BY <3>1 DEF StartRun, CreateLog, ReadChanges, ReadManifest, RunKeeps
  <2>3. RunStays /\ UNCHANGED <<file, embedding, outbox, disp>>
    BY DEF StartRun, CreateLog, ReadChanges, ReadManifest, RunKeeps
  <2> QED
    BY <2>1, <2>2, <2>3, RunTypes DEF RunStays, versionVars
<1>1. IndexOn(r)
  BY <1>0, IndexStays, UntouchedLasts DEF Sound, IndexOn
<1>2. CASE StartRun(r)
  <2> DEFINE rec == [runs[r] EXCEPT !.pc = "opening"]
  <2>1. (RunGoes(r, rec) \/ RunGoes(r, NoRun)) /\ UNCHANGED outcome
    BY <1>2 DEF StartRun
  <2>2. rec.kind = runs[r].kind /\ rec.src = runs[r].src /\ rec.view = runs[r].view
        /\ rec.pc # "made" /\ rec.pc \notin Seen
    BY <1>0 DEF RunSet, Seen, Listed, Running
  <2> HIDE DEF rec
  <2> QED
    BY <1>0, <1>1, <2>1, <2>2, RunCalm
<1>3. CASE CreateLog(r)
  <2> DEFINE rec == [runs[r] EXCEPT !.pc = "opened"]
  <2>1. RunGoes(r, rec) /\ LogSays(r, "running")
    BY <1>3 DEF CreateLog
  <2>2. rec.kind = runs[r].kind /\ rec.src = runs[r].src /\ rec.view = runs[r].view
        /\ rec.pc # "made" /\ rec.pc \notin Seen
    BY <1>0 DEF RunSet, Seen, Listed, Running
  <2> HIDE DEF rec
  <2> QED
    BY <1>0, <1>1, <2>1, <2>2, RunCalm
<1>4. CASE ReadChanges(r)
  <2> DEFINE rec == [runs[r] EXCEPT !.pc = "listed", !.upto = Len(outbox[runs[r].src])]
  <2>1. \/ RunGoes(r, rec) /\ UNCHANGED outcome
        \/ RunGoes(r, NoRun) /\ LogSays(r, "failed")
    <3>1. ~(trouble > 0)
      BY DEF Calm
    <3> QED
      BY <1>4, <3>1 DEF ReadChanges, Stops
  <2>2. rec.kind = runs[r].kind /\ rec.src = runs[r].src /\ rec.view = runs[r].view
        /\ rec.pc # "made" /\ rec.pc \notin Seen
    BY <1>0 DEF RunSet, Seen, Listed, Running
  <2> HIDE DEF rec
  <2>3. CASE RunGoes(r, rec) /\ UNCHANGED outcome
    BY <1>0, <1>1, <2>2, <2>3, RunCalm
  <2>4. CASE RunGoes(r, NoRun) /\ LogSays(r, "failed")
    BY <1>0, <1>1, <2>4, RunCalm
  <2> QED
    BY <2>1, <2>3, <2>4
<1>5. CASE ReadManifest(r)
  <2> DEFINE rec == [runs[r] EXCEPT !.pc = "seen", !.view = View(runs[r].src)]
  <2>1. RunGoes(r, rec) /\ UNCHANGED outcome
    BY <1>5 DEF ReadManifest
  <2>2. rec.kind = runs[r].kind /\ rec.src = runs[r].src /\ rec.view = View(runs[r].src)
        /\ rec.pc # "made"
    BY <1>0 DEF RunSet
  <2> HIDE DEF rec
  <2> QED
    BY <1>0, <1>1, <2>1, <2>2, RunCalm
<1> QED
  BY <1>2, <1>3, <1>4, <1>5

(* A run that goes from one item step to the next *)
LEMMA NextCalm ==
  ASSUME Sound, Calm, NEW r \in RunIds, runs[r].pc \in Seen, NEW pc, NEW k, IndexOn(r),
         RunGoes(r, AtStep(r, pc, k)), UNCHANGED <<file, embedding, outbox, trouble, job, disp>>,
         UNCHANGED outcome,
         pc = "made" =>
           (Reusable(runs[r].src, View(runs[r].src).etag) => k = version[runs[r].src].cand)
  PROVE  Ran(r)
<1>1. runs[r] \in RunSet /\ runs[r] # NoRun
  BY RunTypes DEF Seen, Listed, Running
<1> DEFINE rec == AtStep(r, pc, k)
<1>2. /\ rec.kind = runs[r].kind /\ rec.src = runs[r].src /\ rec.view = runs[r].view
      /\ rec.pc = pc /\ rec.cand = k /\ RunGoes(r, rec)
  BY <1>1 DEF RunSet, AtStep
<1> HIDE DEF rec
<1> QED
  BY <1>1, <1>2, RunCalm

LEMMA StopCalm ==
  ASSUME Sound, Calm, NEW r \in RunIds, runs[r].pc \in Seen, Stops(r), UNCHANGED <<version, rows>>,
         UNCHANGED <<file, embedding, outbox, trouble, job, disp>>
  PROVE  Ran(r)
<1>1. runs[r] # NoRun
  BY RunTypes DEF Seen, Listed, Running
<1>2. IndexOn(r)
  BY IndexStays, UntouchedLasts DEF Sound, IndexOn
<1> QED
  BY <1>1, <1>2, RunCalm DEF Stops

LEMMA WithdrawCalm ==
  ASSUME Sound, Calm, NEW r \in RunIds, WithdrawItem(r)
  PROVE  Ran(r)
<1>1. /\ runs[r].pc = "seen" /\ runs[r].view = Absent /\ runs[r].pc \in Seen /\ runs[r] # NoRun
      /\ UNCHANGED <<file, embedding, outbox, trouble, job, disp>>
  BY RunTypes DEF WithdrawItem, Withdraws, RunKeeps, Seen, Listed, Running
<1>2. CASE Tombstone(runs[r].src) /\ RunGoes(r, [runs[r] EXCEPT !.pc = "store"]) /\ UNCHANGED outcome
  <2>1. IndexOn(r)
    BY <1>1, <1>2 DEF IndexOn, Removes
  <2> QED
    BY <1>1, <1>2, <2>1, SameCandidate, NextCalm
<1>3. CASE Stops(r) /\ UNCHANGED <<version, rows>>
  BY <1>1, <1>3, StopCalm
<1> QED
  BY <1>2, <1>3 DEF WithdrawItem

LEMMA IngestCalm ==
  ASSUME Sound, Calm, NEW r \in RunIds, IngestItem(r)
  PROVE  Ran(r)
<1> DEFINE s == runs[r].src
           v == runs[r].view
<1>1. /\ runs[r].pc \in Seen /\ runs[r] # NoRun /\ s \in Sources /\ v \in ViewSet /\ v # Absent
      /\ UNCHANGED <<file, embedding, outbox, trouble, job, disp, version>>
  <2>1. runs[r].pc = "seen" /\ v # Absent
        /\ UNCHANGED <<file, embedding, outbox, trouble, job, disp, version>>
    BY DEF IngestItem, RunKeeps, Fetches
  <2> QED
    BY <2>1, RunTypes DEF Seen, Listed, Running
<1>2. UNCHANGED rows => IndexOn(r)
  BY <1>1, IndexStays, UntouchedLasts DEF Sound, IndexOn
<1>3. CASE Stops(r) /\ UNCHANGED rows
  BY <1>1, <1>3, StopCalm
<1>4. CASE RunGoes(r, [runs[r] EXCEPT !.pc = "store"]) /\ UNCHANGED <<rows, outcome>>
  BY <1>1, <1>2, <1>4, SameCandidate, NextCalm
<1>5. CASE /\ View(s) = v /\ Reusable(s, v.etag) /\ UNCHANGED <<rows, outcome>>
           /\ RunGoes(r, [runs[r] EXCEPT !.pc = "made", !.cand = version[s].cand])
  BY <1>1, <1>2, <1>5, NextCalm DEF AtStep
<1>6. CASE /\ View(s) = v /\ ~Reusable(s, v.etag) /\ UNCHANGED outcome
           /\ rows' = Append(rows, NewRow(s, v))
           /\ RunGoes(r, [runs[r] EXCEPT !.pc = "made", !.cand = Len(rows) + 1])
  <2>1. Steady
    BY <1>1, <1>6, NewRowIndex DEF Sound
  <2>2. /\ DOMAIN rows' = DOMAIN rows \cup {Len(rows) + 1}
        /\ \A k \in DOMAIN rows : rows'[k] = rows[k]
        /\ rows'[Len(rows) + 1] = NewRow(s, v)
    <3>1. NewRow(s, v) \in RowSet
      BY <1>1 DEF NewRow, RowSet, ViewSet
    <3> QED
      BY <1>6, <3>1 DEF Sound, IndexInv
  <2>3. NewRows
    BY <1>1, <1>6, <2>2 DEF NewRows
  <2>4. ParsedGoOn /\ GoneSame /\ VersionsLast
    BY <1>1, <2>2 DEF ParsedGoOn, GoneSame, VersionsLast
  <2>5. IndexOn(r)
    BY <2>1, <2>3, <2>4 DEF IndexOn, Lasting
  <2> QED
    BY <1>1, <1>6, <2>5, NextCalm DEF AtStep
<1> QED
  BY <1>3, <1>4, <1>5, <1>6 DEF IngestItem

LEMMA StageCalm ==
  ASSUME Sound, Calm, NEW r \in RunIds, StageItem(r)
  PROVE  Ran(r)
<1> DEFINE s == runs[r].src
           k == runs[r].cand
<1>1. /\ runs[r].pc = "made" /\ runs[r].pc \in Seen /\ runs[r] # NoRun
      /\ UNCHANGED <<file, embedding, outbox, trouble, job, disp>>
  <2>1. runs[r].pc = "made" /\ UNCHANGED <<file, embedding, outbox, trouble, job, disp>>
    BY DEF StageItem, RunKeeps
  <2> QED
    BY <2>1, RunTypes DEF Seen, Listed, Running
<1>2. CASE Stops(r) /\ UNCHANGED <<version, rows>>
  BY <1>1, <1>2, StopCalm
<1>3. CASE RunGoes(r, [runs[r] EXCEPT !.pc = "store"]) /\ UNCHANGED <<version, rows, outcome>>
  <2>1. IndexOn(r)
    BY <1>3, IndexStays, UntouchedLasts DEF Sound, IndexOn
  <2>2. RunGoes(r, AtStep(r, "store", k))
    BY <1>1, <1>3, SameCandidate
  <2> QED
    BY <1>1, <1>3, <2>1, <2>2, NextCalm
<1>4. CASE /\ rows[k].open /\ Stageable(s, runs[r].view, k, runs[r].claim)
           /\ Stage(s, runs[r].view, k) /\ UNCHANGED outcome
           /\ \E pc \in {"publishing", "store"} : RunGoes(r, [runs[r] EXCEPT !.pc = pc])
  <2>1. IndexOn(r)
    BY <1>1, <1>4 DEF IndexOn, Stages
  <2>2. PICK pc \in {"publishing", "store"} : RunGoes(r, [runs[r] EXCEPT !.pc = pc])
    BY <1>4
  <2>3. RunGoes(r, AtStep(r, pc, k)) /\ pc # "made"
    BY <1>1, <2>2, SameCandidate
  <2> QED
    BY <1>1, <1>4, <2>1, <2>3, NextCalm
<1> QED
  BY <1>2, <1>3, <1>4 DEF StageItem

LEMMA LateCalm ==
  ASSUME Sound, Calm, NEW r \in RunIds, ItemPublished(r) \/ StoreCursor(r)
  PROVE  Ran(r)
<1>1. /\ runs[r].pc \in Seen /\ runs[r] # NoRun /\ UNCHANGED <<version, rows>>
      /\ UNCHANGED <<file, embedding, outbox, trouble, job, disp>>
  <2>1. runs[r].pc \in Seen
    BY DEF ItemPublished, StoreCursor, Seen, Listed, Running
  <2>2. UNCHANGED <<file, embedding, outbox, trouble, job, disp, version, rows>>
    BY DEF ItemPublished, StoreCursor, RunKeeps, versionVars
  <2> QED
    BY <2>1, <2>2, RunTypes DEF Seen, Listed, Running
<1>2. IndexOn(r)
  BY <1>1, IndexStays, UntouchedLasts DEF Sound, IndexOn
<1>3. \/ Stops(r)
      \/ RunGoes(r, [runs[r] EXCEPT !.pc = "store"]) /\ UNCHANGED outcome
      \/ RunGoes(r, NoRun) /\ LogSays(r, "success")
  BY DEF ItemPublished, StoreCursor
<1>4. CASE RunGoes(r, NoRun) /\ LogSays(r, "success")
  BY <1>1, <1>2, <1>4, RunCalm
<1>5. CASE RunGoes(r, [runs[r] EXCEPT !.pc = "store"]) /\ UNCHANGED outcome
  BY <1>1, <1>2, <1>5, SameCandidate, NextCalm
<1> QED
  BY <1>1, <1>3, <1>4, <1>5, StopCalm

LEMMA RunsCalm ==
  ASSUME Sound, Calm, NEW r \in RunIds, RunSteps(r)
  PROVE  Ran(r)
  BY EarlyCalm, WithdrawCalm, IngestCalm, StageCalm, LateCalm DEF RunSteps

(* What WeKnora does while no mishap happens *)
CalmStep ==
  /\ UNCHANGED <<file, embedding, outbox, trouble>> /\ Claimless' /\ JobsGoOn
  /\ \A q \in RunIds : RunOn(q)
  /\ \/ Steady /\ Lasting
     \/ \E r \in RunIds : (Stages(r) \/ Removes(r)) /\ UNCHANGED job

LEMMA WeKnoraCalm ==
  ASSUME Sound, FlowInv, Calm, WeKnoraStep
  PROVE  CalmStep
<1>1. ASSUME NEW r \in RunIds, RunSteps(r)
      PROVE  CalmStep
  BY <1>1, RunsCalm, JobsStay DEF Ran, IndexOn, CalmStep
<1>2. ASSUME NEW s \in Sources, DispatchSteps(s)
      PROVE  CalmStep
  <2>1. Dispatched
    BY <1>2, DispatchCalm
  <2>2. Steady /\ Lasting
    BY <2>1, IndexStays, UntouchedLasts DEF Dispatched, Sound
  <2>3. \A q \in RunIds : RunOn(q)
    BY <2>1 DEF Dispatched, RunOn
  <2> QED
    BY <2>1, <2>2, <2>3 DEF Dispatched, CalmStep
<1>3. CASE (\E s \in Sources : VersionSteps(s)) \/ (\E p \in Publishers : PublisherSteps(p))
  <2>1. IndexTurns /\ Steady /\ FlowStill /\ UNCHANGED file
    BY <1>3, VersionTurns, PublisherTurns, VersionStep, PublisherStep
  <2>2. Claimless' /\ \A q \in RunIds : RunOn(q)
    BY <2>1 DEF FlowStill, Calm, Claimless, Busy, NamedByRange, RunOn
  <2> QED
    BY <2>1, <2>2 DEF IndexTurns, FlowStill, CalmStep
<1> QED
  BY <1>1, <1>2, <1>3 DEF WeKnoraStep

(* Whoever stages or withdraws, the rows last. *)
LEMMA StagesFacts ==
  ASSUME Sound, NEW r \in RunIds, Stages(r)
  PROVE  LET s == runs[r].src
             k == runs[r].cand IN
         /\ s \in Sources /\ k \in DOMAIN rows /\ rows[k].source = s /\ rows[k].open
         /\ runs[r].view \in ViewSet /\ RowsKept /\ Lasting
         /\ version'[s].state = "staging" /\ version'[s].cand = k
         /\ version'[s].etag = runs[r].view.etag /\ rows'[k].etag = runs[r].view.etag
         /\ \A j \in DOMAIN rows : j # k =>
              rows'[j].etag = rows[j].etag /\ (rows[j].source = s => ~rows'[j].open)
         /\ \A t \in Sources : t # s => version'[t] = version[t]
<1>1. /\ runs[r].src \in Sources /\ runs[r].view \in ViewSet /\ runs[r].cand \in DOMAIN rows
      /\ rows[runs[r].cand].source = runs[r].src
  BY RunTypes DEF Stages, Sound, RunHands
<1> QED
  BY <1>1, StageIndex, StageLasts DEF Stages, Sound

LEMMA RemovesFacts ==
  ASSUME Sound, NEW r \in RunIds, Removes(r)
  PROVE  LET s == runs[r].src IN
         /\ s \in Sources /\ RowsKept /\ RowsSame /\ ParsedGoOn /\ NewRows /\ VersionsLast
         /\ version'[s].state = "tombstone" /\ version'[s].cand = 0
         /\ \A k \in DOMAIN rows : rows[k].source = s => ~rows'[k].open
         /\ \A k \in DOMAIN rows : rows[k].source # s => rows'[k] = rows[k]
         /\ \A t \in Sources : t # s => version'[t] = version[t]
<1>1. runs[r].src \in Sources
  BY RunTypes DEF Removes
<1> QED
  BY <1>1, TombstoneIndex, TombstoneLasts DEF Removes, Sound

LEMMA RowsLast ==
  ASSUME Sound, CalmStep
  PROVE  RowsKept /\ ParsedGoOn /\ NewRows /\ VersionsLast
<1>1. ASSUME NEW r \in RunIds, Stages(r) \/ Removes(r)
      PROVE  RowsKept /\ ParsedGoOn /\ NewRows /\ VersionsLast
  BY <1>1, StagesFacts, RemovesFacts DEF Lasting
<1> QED
  BY <1>1 DEF CalmStep, Steady, Lasting

(* A row that is fenced for good stays so, and one that was the candidate becomes so. *)
LEMMA RowsPass ==
  ASSUME Sound, CalmStep, NEW k \in DOMAIN rows
  PROVE  (Retired(k) => Retired(k)') /\ (Passed(k) => Passed(k)')
<1> DEFINE s == rows[k].source
<1>1. /\ s \in Sources /\ k \in DOMAIN rows' /\ rows'[k].source = s /\ k # 0
      /\ rows'[k].open => rows[k].open
  BY RowTypes, RowsLast DEF Sound, RowsKept
<1>2. CASE Steady
  BY <1>1, <1>2 DEF Steady, Retired, Passed
<1>3. ASSUME NEW r \in RunIds, Stages(r)
      PROVE  (Retired(k) => Retired(k)') /\ (Passed(k) => Passed(k)')
  <2>1. CASE s = runs[r].src
    BY <1>1, <1>3, <2>1, StagesFacts DEF Retired, Passed
  <2>2. CASE s # runs[r].src
    BY <1>1, <1>3, <2>2, StagesFacts DEF Retired, Passed
  <2> QED
    BY <2>1, <2>2
<1>4. ASSUME NEW r \in RunIds, Removes(r)
      PROVE  (Retired(k) => Retired(k)') /\ (Passed(k) => Passed(k)')
  <2>1. CASE s = runs[r].src
    BY <1>1, <1>4, <2>1, RemovesFacts DEF Retired, Passed
  <2>2. CASE s # runs[r].src
    BY <1>1, <1>4, <2>2, RemovesFacts DEF Retired, Passed
  <2> QED
    BY <2>1, <2>2
<1> QED
  BY <1>2, <1>3, <1>4 DEF CalmStep

LEMMA CalmKept ==
  ASSUME Sound, FlowInv, Calm, CalmStep
  PROVE  Calm'
<1>1. Budget' /\ Claimless' /\ trouble' = 0
  BY RowsLast, BudgetKept DEF CalmStep, Calm
<1>2. \A s \in Sources : View(s)' = View(s)
  BY DEF CalmStep, View
<1>3. ASSUME NEW r \in RunIds, runs'[r].view # Absent
      PROVE  runs'[r].view.etag # 0
  <2>1. NoRun.view = Absent
    BY DEF NoRun
  <2>2. runs'[r].view = runs[r].view \/ (runs[r] # NoRun /\ runs'[r].view = View(runs[r].src))
    BY <1>3, <2>1 DEF CalmStep, RunOn
  <2>3. runs[r] # NoRun => runs[r].src \in Sources
    BY RunTypes
  <2> QED
    BY <1>3, <2>2, <2>3 DEF Calm, Real
<1>4. ASSUME NEW k \in DOMAIN rows'
      PROVE  rows'[k].etag # 0
  <2>1. CASE k \notin DOMAIN rows
    <3>1. PICK r \in RunIds : /\ runs[r].src \in Sources /\ View(runs[r].src) # Absent
                              /\ rows'[k] = NewRow(runs[r].src, View(runs[r].src))
      BY <2>1, RowsLast DEF NewRows
    <3> QED
      BY <3>1 DEF NewRow, Calm, Real
  <2>2. CASE k \in DOMAIN rows
    <3>1. rows[k].etag # 0
      BY <2>2 DEF Calm, Real
    <3>2. ASSUME NEW r \in RunIds, Stages(r)
          PROVE  rows'[k].etag # 0
      <4>1. runs[r].view # Absent
        BY <3>2 DEF FlowInv, RunInv, Reading, Stages, Listed, Running
      <4>2. runs[r].view.etag # 0
        BY <4>1 DEF Calm, Real
      <4> QED
        BY <2>2, <3>1, <3>2, <4>2, StagesFacts
    <3>3. ASSUME NEW r \in RunIds, Removes(r)
          PROVE  rows'[k].etag # 0
      BY <2>2, <3>1, <3>3, RemovesFacts DEF RowsSame
    <3> QED
      BY <2>2, <3>1, <3>2, <3>3 DEF CalmStep, Steady, RowsSame
  <2> QED
    BY <2>1, <2>2
<1> QED
  BY <1>1, <1>2, <1>3, <1>4 DEF Calm, Real

(* When every hint is applied, nothing is under way, and a candidate shows its folder. *)
LEMMA AppliedView ==
  ASSUME Sound, FlowInv, NEW s \in Sources, disp[s].applied >= Len(outbox[s]), Named(s)
  PROVE  CandidateView(s) = View(s)
<1>1. disp[s].applied \in Nat /\ Len(outbox[s]) \in Nat /\ outbox[s] \in Seq(HintSet)
  BY DispatchTypes DEF Sound, FlowTypes
<1>2. PICK i \in 1..Len(outbox[s]) :
        disp[s].applied <= i /\ outbox[s][i].view = CandidateView(s)
  BY DEF FlowInv, FreshInv, Since
<1>3. i = Len(outbox[s]) /\ outbox[s] # <<>>
  BY <1>1, <1>2
<1> QED
  BY <1>2, <1>3 DEF FlowInv, FileInv, Last

LEMMA AppliedSettled ==
  ASSUME Sound, FlowInv, Calm, NoFailures,
         \A s \in Sources : disp[s].applied >= Len(outbox[s])
  PROVE  Settled
<1>1. ASSUME NEW s \in Sources
      PROVE  /\ disp[s].state = "idle" /\ disp[s].dispatched = received[s]
             /\ received[s] = Len(outbox[s])
  <2>1. /\ disp[s].applied \in Nat /\ disp[s].target \in Nat /\ received[s] \in Nat
        /\ Len(outbox[s]) \in Nat /\ Ordered(s) /\ Busy(s)
    BY DispatchTypes DEF FlowInv, OrderInv, Calm, Claimless
  <2> QED
    BY <2>1 DEF Ordered, Busy
<1>2. ASSUME NEW r \in RunIds, runs[r] # NoRun
      PROVE  FALSE
  <2>1. runs[r].kind \in {"event", "retry"} /\ runs[r].src \in Sources
    BY <1>2, RunTypes
  <2>2. runs[r].kind # "event"
    BY <1>1, <2>1 DEF Calm, Claimless, NamedByRange
  <2>3. runs[r].kind # "retry"
    BY DEF FlowInv, ClaimInv, Claiming, NoFailures
  <2> QED
    BY <2>1, <2>2, <2>3
<1> QED
  BY <1>1, <1>2 DEF Settled

LEMMA SettledKept ==
  ASSUME Sound, FlowInv, Calm, Settled, WeKnoraStep, \A s \in Sources : ~Failed(s)
  PROVE  Settled' /\ Steady /\ Lasting
<1>1. ASSUME NEW r \in RunIds, RunSteps(r)
      PROVE  FALSE
  <2>1. runs[r].pc = "none"
    BY DEF Settled, NoRun
  <2> QED
    BY <1>1, <2>1 DEF RunSteps, StartRun, CreateLog, ReadChanges, ReadManifest, WithdrawItem,
                      IngestItem, StageItem, ItemPublished, StoreCursor
<1>2. ASSUME NEW s \in Sources, DispatchSteps(s)
      PROVE  Settled' /\ Steady /\ Lasting
  <2>1. /\ disp[s].state = "idle" /\ disp[s].phase = "none" /\ Len(outbox[s]) \in Nat
        /\ disp[s].dispatched = received[s] /\ received[s] = Len(outbox[s]) /\ ~(trouble > 0)
        /\ ~Failed(s) /\ disp[s] \in DispatchSet
    BY DispatchTypes DEF Settled, FlowInv, PhaseInv, Phased, Calm, DispatchSet
  <2>2. ~Receive(s) /\ ~ClaimDue(s)
    BY <2>1 DEF Receive, ClaimDue
  <2>3. /\ ~RunUnproven(s) /\ ~PublicationUnproven(s) /\ ~ConfirmBroad(s) /\ ~Apply(s)
        /\ ~Prepare(s) /\ ~Enqueue(s) /\ ~FinishDispatch(s) /\ ~DispatcherDies(s)
        /\ ~RecoverLease(s) /\ ~DispatchRetry(s) /\ ~RetryWindowEnds(s)
    BY <2>1 DEF RunUnproven, PublicationUnproven, ConfirmBroad, Apply, ProofDue, Prepare, Enqueue,
                FinishDispatch, DispatcherDies, RecoverLease, DispatchRetry, Claimable,
                RetryWindowEnds
  <2>4. RetryLeaseEnds(s)
    BY <1>2, <2>2, <2>3 DEF DispatchSteps
  <2>5. UNCHANGED <<disp, received, outbox, runs, version, rows>>
    BY <2>4 DEF RetryLeaseEnds, LeaseExpires
  <2> QED
    BY <2>5, IndexStays, UntouchedLasts DEF Settled, Sound
<1>3. CASE (\E s \in Sources : VersionSteps(s)) \/ (\E p \in Publishers : PublisherSteps(p))
  <2>1. IndexTurns /\ Steady /\ FlowStill
    BY <1>3, VersionTurns, PublisherTurns, VersionStep, PublisherStep
  <2> QED
    BY <2>1 DEF IndexTurns, FlowStill, Settled
<1> QED
  BY <1>1, <1>2, <1>3 DEF WeKnoraStep

LEMMA ViewsKept ==
  ASSUME Sound, CalmStep, ViewsTrue
  PROVE  ViewsTrue'
<1>1. \A s : View(s)' = View(s)
  BY DEF CalmStep, View
<1> SUFFICES ASSUME NEW q \in RunIds, runs'[q].pc \in Seen
             PROVE  runs'[q].view = View(runs'[q].src)
  BY <1>1 DEF ViewsTrue
<1>2. NoRun.pc \notin Seen /\ "queued" \notin Seen
  BY DEF NoRun, Seen, Listed, Running
<1> QED
  BY <1>2 DEF CalmStep, RunOn, ViewsTrue

LEMMA NoFailuresKept ==
  ASSUME Sound, CalmStep, NoFailures
  PROVE  NoFailures'
<1>1. ASSUME NEW k \in DOMAIN rows'
      PROVE  rows'[k].parse # "failed"
  <2>1. CASE k \in DOMAIN rows
    BY <2>1, RowsLast DEF NoFailures, ParsedGoOn
  <2>2. CASE k \notin DOMAIN rows
    BY <2>2, RowsLast DEF NewRows, NewRow
  <2> QED
    BY <2>1, <2>2
<1> QED
  BY <1>1 DEF NoFailures, CalmStep

----------------------------------------------------------------------------
(* What is known at each place of a drill *)

On(places) == trial.at \in places
Drills == {"retry", "move", "cross"}
Places ==
  {"free", "create", "baseline", "stop", "overwrite", "candidate", "start", "status", "denied",
   "recover", "applied", "done", "missed", "created", "rename", "renamed", "out", "moved out",
   "back", "moved back", "flap out", "flap in", "flapped", "trash", "trashed", "restore",
   "restored", "to other", "left home", "at other", "to home", "left other", "at home"}
TrialSet ==
  [what : Free \cup Drills, at : Places, waits : [Sources -> Nat], seen : SUBSET Nat, last : Nat]

(* Where the file is *)
FilePlace ==
  IF On({"create"}) THEN "nowhere"
  ELSE IF trial.what = "retry" THEN HomeSource
  ELSE IF On({"moved out", "flap in", "back"}) THEN "outside"
  ELSE IF On({"trashed", "restore"}) THEN "trash"
  ELSE IF On({"left home", "at other", "to home"}) THEN OtherSource
  ELSE HomeSource
FileKnown == file.at = FilePlace /\ (~On({"create"}) => file.etag # 0)

(* The published candidate is the one the drill has seen. *)
KeptCandidate ==
  LET v == version[HomeSource] IN
  /\ Named(HomeSource) /\ v.cand = trial.last /\ v.etag = file.etag
  /\ rows[v.cand].parse = "completed" /\ ~rows[v.cand].gone
HandsLast ==
  \A r \in RunIds :
    runs[r].pc = "made" /\ runs[r].src = HomeSource => runs[r].cand = trial.last

(* The drill changes the file again when all is settled. *)
RestKnown ==
  /\ On({"create", "stop", "overwrite", "rename"}) => Settled
  /\ On({"stop", "overwrite", "rename"}) => KeptCandidate
  /\ trial.what # "retry" \/ On({"create", "baseline", "stop"}) => NoFailures

(* Since the drill saw it fail, the candidate is current or was replaced under its lease. *)
HomeRows == \A k \in DOMAIN rows : rows[k].source = HomeSource /\ ~rows[k].gone
SeenParsed == trial.last \in trial.seen /\ \A k \in trial.seen : rows[k].parse = "completed"
LastFailed ==
  /\ trial.last \in DOMAIN rows /\ rows[trial.last].parse = "failed"
  /\ \A k \in trial.seen : Retired(k)
  /\ Named(HomeSource) /\ version[HomeSource].etag = file.etag
Tracked ==
  version[HomeSource].cand # trial.last => RetryClaimed \/ ReplacementFailed
RetryKnown ==
  /\ ViewsTrue /\ HomeRows
  /\ On({"create", "baseline"}) => trial.seen = {}
  /\ On({"stop", "overwrite", "candidate"}) => SeenParsed
  /\ On({"start", "status", "denied", "recover"}) => LastFailed
  /\ On({"denied", "recover"}) => Tracked

(* The candidate of before a move is fenced for good once its tombstone was seen. *)
MoveKnown ==
  /\ ~On({"create", "created"}) =>
       /\ trial.last \in trial.seen /\ rows[trial.last].source = HomeSource
       /\ version[HomeSource].state # "none"
  /\ On({"renamed"}) => KeptCandidate /\ ViewsTrue /\ HandsLast
  /\ On({"back", "moved back", "restore", "restored"}) => Retired(trial.last)
CrossKnown ==
  /\ ~On({"create", "created"}) => version[HomeSource].state # "none"
  /\ On({"create", "created", "to other", "left home", "at other"}) =>
       \A k \in trial.seen : rows[k].source = HomeSource
  /\ On({"at other", "to home", "left other", "at home"}) =>
       \A k \in trial.seen : rows[k].source = HomeSource => Retired(k)
  /\ On({"left home", "at other", "to home", "left other", "at home"}) => OtherSource # HomeSource
  /\ On({"to home", "left other"}) => version[OtherSource].state # "none"

TrialInv ==
  /\ trial \in TrialSet
  /\ IF trial.what \in Free THEN trial.at = "free"
     ELSE /\ trial.at # "failed" /\ trial.waits = [s \in Sources |-> Len(outbox[s])]
          /\ Calm /\ FileKnown /\ (\A k \in trial.seen : Passed(k)) /\ RestKnown
          /\ trial.what = "retry" => RetryKnown
          /\ trial.what = "move" => MoveKnown
          /\ trial.what = "cross" => CrossKnown

(* What a step of WeKnora leaves of that *)
AtHome == file.at = HomeSource /\ file.etag # 0

LEMMA SeenAtHome ==
  ASSUME AtHome, ViewsTrue
  PROVE  /\ View(HomeSource) = [etag |-> file.etag, path |-> file.path]
         /\ View(HomeSource) # Absent /\ View(HomeSource).etag = file.etag
         /\ \A s : View(s) # Absent => s = HomeSource
         /\ \A r \in RunIds : Removes(r) => runs[r].src # HomeSource
         /\ \A r \in RunIds : Stages(r) /\ runs[r].src = HomeSource =>
              runs[r].view.etag = file.etag
<1>1. /\ View(HomeSource) = [etag |-> file.etag, path |-> file.path]
      /\ \A s : View(s) # Absent => s = HomeSource
  BY DEF View, AtHome
<1>2. View(HomeSource) # Absent
  BY <1>1 DEF Absent, AtHome
<1>3. \A r \in RunIds : runs[r].pc \in {"seen", "made"} => runs[r].view = View(runs[r].src)
  BY DEF ViewsTrue, Seen, Listed, Running
<1> QED
  BY <1>1, <1>2, <1>3 DEF Removes, Stages

LEMMA NoneFailed ==
  ASSUME Sound, NoFailures, NEW s \in Sources
  PROVE  ~Failed(s)
  BY DEF Sound, IndexInv, VersionNames, NoFailures, Failed

LEMMA KeptWhenQuiet ==
  ASSUME Sound, KeptCandidate, Steady, Lasting, UNCHANGED <<file, trial>>
  PROVE  KeptCandidate'
<1>1. version[HomeSource].cand \in DOMAIN rows
  BY DrillsAssumption DEF Sound, IndexInv, VersionNames, KeptCandidate, Named
<1> QED
  BY <1>1, DrillsAssumption DEF KeptCandidate, Steady, Lasting, ParsedGoOn, GoneSame

LEMMA KeptWhenRenamed ==
  ASSUME Sound, CalmStep, KeptCandidate, ViewsTrue, HandsLast, AtHome, UNCHANGED trial
  PROVE  KeptCandidate' /\ HandsLast'
<1> USE DrillsAssumption
<1>1. /\ version[HomeSource].cand \in DOMAIN rows /\ rows[version[HomeSource].cand].source = HomeSource
      /\ version[HomeSource].cand = trial.last /\ file' = file
      /\ rows[trial.last].parse = "completed" /\ ~rows[trial.last].gone
      /\ version[HomeSource].etag = file.etag /\ Named(HomeSource)
  BY DEF Sound, IndexInv, VersionNames, KeptCandidate, Named, CalmStep
<1>2. KeptCandidate'
  <2>1. CASE Steady /\ Lasting
    BY <1>1, <2>1, KeptWhenQuiet
  <2>2. ASSUME NEW r \in RunIds, Stages(r)
        PROVE  KeptCandidate'
    <3>1. rows'[trial.last].parse = "completed" /\ ~rows'[trial.last].gone
      BY <1>1, <2>2, StagesFacts DEF Lasting, ParsedGoOn, GoneSame
    <3>2. CASE runs[r].src = HomeSource
      BY <1>1, <2>2, <3>1, <3>2, StagesFacts, SeenAtHome
         DEF KeptCandidate, Named, HandsLast, Stages
    <3>3. CASE runs[r].src # HomeSource
      BY <1>1, <2>2, <3>1, <3>3, StagesFacts DEF KeptCandidate, Named
    <3> QED
      BY <3>2, <3>3
  <2>3. ASSUME NEW r \in RunIds, Removes(r)
        PROVE  KeptCandidate'
    <3>1. runs[r].src # HomeSource
      BY <2>3, SeenAtHome
    <3> QED
      BY <1>1, <2>3, <3>1, RemovesFacts DEF KeptCandidate, Named
  <2> QED
    BY <2>1, <2>2, <2>3 DEF CalmStep
<1>3. ASSUME NEW q \in RunIds, runs'[q].pc = "made", runs'[q].src = HomeSource
      PROVE  runs'[q].cand = trial.last
  <2>1. NoRun.pc # "made"
    BY DEF NoRun
  <2>2. Reusable(HomeSource, View(HomeSource).etag)
    BY <1>1, SeenAtHome DEF Reusable, Named
  <2> QED
    BY <1>1, <1>3, <2>1, <2>2 DEF CalmStep, RunOn, HandsLast
<1> QED
  BY <1>2, <1>3 DEF HandsLast

LEMMA HomeRowsKept ==
  ASSUME Sound, CalmStep, ViewsTrue, HomeRows,
         AtHome \/ (file.at \notin Sources /\ Settled)
  PROVE  HomeRows'
<1> SUFFICES ASSUME NEW k \in DOMAIN rows'
             PROVE  rows'[k].source = HomeSource /\ ~rows'[k].gone
  BY DEF HomeRows
<1>1. CASE k \notin DOMAIN rows
  <2>1. PICK r \in RunIds : /\ runs[r].src \in Sources /\ View(runs[r].src) # Absent
                            /\ rows'[k] = NewRow(runs[r].src, View(runs[r].src))
    BY <1>1, RowsLast DEF NewRows
  <2>2. runs[r].src = HomeSource
    BY <2>1, SeenAtHome DEF View
  <2> QED
    BY <2>1, <2>2 DEF NewRow
<1>2. CASE k \in DOMAIN rows
  <2>1. rows[k].source = HomeSource /\ ~rows[k].gone /\ rows'[k].source = HomeSource
    BY <1>2, RowsLast DEF RowsKept, HomeRows
  <2>2. ASSUME NEW r \in RunIds, Removes(r)
        PROVE  ~rows'[k].gone
    <3>1. runs[r].src # HomeSource
      BY <2>2, SeenAtHome DEF Settled, Removes, NoRun
    <3> QED
      BY <1>2, <2>1, <2>2, <3>1, RemovesFacts
  <2>3. ASSUME NEW r \in RunIds, Stages(r)
        PROVE  ~rows'[k].gone
    BY <1>2, <2>1, <2>3, StagesFacts DEF Lasting, GoneSame
  <2> QED
    BY <1>2, <2>1, <2>2, <2>3 DEF CalmStep, Lasting, GoneSame
<1> QED
  BY <1>1, <1>2

LEMMA LastFailedKept ==
  ASSUME Sound, CalmStep, ViewsTrue, AtHome, LastFailed, UNCHANGED trial,
         \A k \in trial.seen : Passed(k)
  PROVE  LastFailed'
<1> USE DrillsAssumption
<1>1. trial.last \in DOMAIN rows' /\ rows'[trial.last].parse = "failed"
  BY RowsLast DEF LastFailed, RowsKept
<1>2. \A k \in trial.seen : Retired(k)'
  BY RowsPass DEF LastFailed, Passed
<1>3. Named(HomeSource)' /\ version'[HomeSource].etag = file.etag
  <2>1. ASSUME NEW r \in RunIds, Stages(r)
        PROVE  Named(HomeSource)' /\ version'[HomeSource].etag = file.etag
    BY <2>1, StagesFacts, SeenAtHome DEF LastFailed, Named
  <2>2. ASSUME NEW r \in RunIds, Removes(r)
        PROVE  Named(HomeSource)' /\ version'[HomeSource].etag = file.etag
    BY <2>2, RemovesFacts, SeenAtHome DEF LastFailed, Named
  <2> QED
    BY <2>1, <2>2 DEF CalmStep, Steady, LastFailed
<1> QED
  BY <1>1, <1>2, <1>3 DEF LastFailed, CalmStep

LEMMA TrackedKept ==
  ASSUME Sound, Sound', CalmStep, Calm, ViewsTrue, HomeRows, AtHome, LastFailed, Tracked,
         UNCHANGED trial, \A k \in trial.seen : Passed(k)
  PROVE  Tracked'
<1> USE DrillsAssumption
<1> SUFFICES ASSUME version'[HomeSource].cand # trial.last
             PROVE  RetryClaimed' \/ ReplacementFailed'
  BY DEF Tracked
<1>1. ReplacementFailed => ReplacementFailed'
  BY RowsLast DEF ReplacementFailed, RowsKept
<1>2. CASE version[HomeSource].cand # trial.last
  <2>1. RetryClaimed \/ ReplacementFailed
    BY <1>2 DEF Tracked
  <2>2. ASSUME RetryClaimed, ~ReplacementFailed
        PROVE  RetryClaimed'
    <3>1. ~Failed(HomeSource)
      <4> SUFFICES ASSUME Failed(HomeSource)
                   PROVE  FALSE
        OBVIOUS
      <4>1. /\ version[HomeSource].cand \in DOMAIN rows
            /\ rows[version[HomeSource].cand].parse = "failed"
        BY DEF Failed, Sound, IndexInv, VersionNames
      <4>2. version[HomeSource].cand \notin trial.seen
        BY <4>1 DEF LastFailed, Retired, HomeRows
      <4> QED
        BY <1>2, <2>2, <4>1, <4>2 DEF ReplacementFailed
    <3>2. JobGoesOn(HomeSource)
      BY DEF CalmStep, JobsGoOn
    <3>3. job[HomeSource].attempts \in Nat /\ job'[HomeSource].attempts \in Nat
      BY DEF Sound, JobSet
    <3> QED
      BY <2>2, <3>1, <3>2, <3>3 DEF JobGoesOn, RetryClaimed
  <2> QED
    BY <1>1, <2>1, <2>2
<1>3. CASE version[HomeSource].cand = trial.last
  <2>1. PICK r \in RunIds : (Stages(r) \/ Removes(r)) /\ UNCHANGED job
    BY <1>3 DEF CalmStep, Steady
  <2>2. runs[r].src = HomeSource
    BY <1>3, <2>1, StagesFacts, RemovesFacts
  <2>3. Stages(r) /\ runs[r].view.etag = version[HomeSource].etag
    BY <2>1, <2>2, SeenAtHome DEF LastFailed
  <2>4. Failed(HomeSource)
    BY <1>3 DEF Failed, LastFailed, Named, Sound, IndexInv, VersionNames
  <2>5. LeaseHeld(HomeSource, runs[r].claim)
    BY <2>2, <2>3, <2>4 DEF Stages, Stageable, Admitted
  <2>6. job[HomeSource].cand = trial.last /\ job[HomeSource].attempts >= 1
    BY <1>3, <2>5 DEF LeaseHeld, Calm, Budget
  <2> QED
    BY <2>1, <2>6 DEF RetryClaimed
<1> QED
  BY <1>2, <1>3

LEMMA RestKept ==
  ASSUME Sound, FlowInv, Calm, CalmStep, WeKnoraStep, RestKnown, UNCHANGED trial,
         trial.what = "retry" => HomeRows
  PROVE  RestKnown'
<1> USE DrillsAssumption
<1> DEFINE easy == trial.what # "retry" \/ On({"create", "baseline", "stop"})
<1>1. easy => NoFailures /\ NoFailures'
  BY NoFailuresKept DEF RestKnown
<1>2. ASSUME On({"create", "stop", "overwrite", "rename"})
      PROVE  Settled' /\ Steady /\ Lasting
  <2>1. ASSUME NEW s \in Sources, Failed(s)
        PROVE  FALSE
    <3>1. CASE easy
      BY <1>1, <2>1, <3>1, NoneFailed
    <3>2. CASE ~easy
      <4>1. HomeRows /\ KeptCandidate
        BY <1>2, <3>2 DEF RestKnown, On
      <4>2. /\ version[s].cand \in DOMAIN rows /\ rows[version[s].cand].source = s
            /\ rows[version[s].cand].parse = "failed"
        BY <2>1 DEF Failed, Sound, IndexInv, VersionNames
      <4> QED
        BY <4>1, <4>2 DEF HomeRows, KeptCandidate
    <3> QED
      BY <3>1, <3>2
  <2>2. Settled
    BY <1>2 DEF RestKnown
  <2> QED
    BY <2>1, <2>2, SettledKept
<1>3. ASSUME On({"stop", "overwrite", "rename"})
      PROVE  KeptCandidate'
  <2>1. Steady /\ Lasting /\ KeptCandidate
    BY <1>2, <1>3 DEF On, RestKnown
  <2> QED
    BY <2>1, KeptWhenQuiet DEF CalmStep
<1>4. On({"create", "stop", "overwrite", "rename"})' => Settled'
  BY <1>2 DEF On
<1>5. On({"stop", "overwrite", "rename"})' => KeptCandidate'
  BY <1>3 DEF On
<1>6. (trial.what # "retry" \/ On({"create", "baseline", "stop"}))' => NoFailures'
  BY <1>1 DEF On
<1> QED
  BY <1>4, <1>5, <1>6 DEF RestKnown

LEMMA SeenKept ==
  ASSUME Sound, CalmStep, SeenParsed, UNCHANGED trial, \A k \in trial.seen : Passed(k)
  PROVE  SeenParsed'
  BY RowsLast DEF SeenParsed, ParsedGoOn, Passed

LEMMA RetryKept ==
  ASSUME Sound, Sound', Calm, CalmStep, FileKnown, RestKnown, RetryKnown, trial.what = "retry",
         \A k \in trial.seen : Passed(k), UNCHANGED trial
  PROVE  RetryKnown'
<1> USE DrillsAssumption
<1>1. AtHome \/ (file.at \notin Sources /\ Settled)
  BY PlacesDiffer DEF FileKnown, FilePlace, RestKnown, On, AtHome
<1>2. ~On({"create"}) => AtHome
  BY DEF FileKnown, FilePlace, AtHome
<1>3. ViewsTrue' /\ HomeRows'
  BY <1>1, ViewsKept, HomeRowsKept DEF RetryKnown
<1>4. On({"stop", "overwrite", "candidate"})' => SeenParsed'
  <2>1. On({"stop", "overwrite", "candidate"})' => SeenParsed
    BY DEF On, RetryKnown
  <2> QED
    BY <2>1, SeenKept
<1>5. On({"start", "status", "denied", "recover"})' => LastFailed' /\ LastFailed /\ AtHome
  <2>1. On({"start", "status", "denied", "recover"})' => LastFailed /\ AtHome /\ ViewsTrue
    BY <1>2 DEF On, RetryKnown
  <2> QED
    BY <2>1, LastFailedKept
<1>6. On({"denied", "recover"})' => Tracked'
  <2>1. On({"denied", "recover"})' => Tracked /\ LastFailed /\ AtHome /\ ViewsTrue /\ HomeRows
    BY <1>5 DEF On, RetryKnown
  <2> QED
    BY <2>1, TrackedKept
<1>7. On({"create", "baseline"})' => trial'.seen = {}
  BY DEF On, RetryKnown
<1> QED
  BY <1>3, <1>4, <1>5, <1>6, <1>7 DEF RetryKnown

LEMMA MoveKept ==
  ASSUME Sound, CalmStep, FileKnown, MoveKnown, trial.what = "move",
         \A k \in trial.seen : Passed(k), UNCHANGED trial
  PROVE  MoveKnown'
<1> USE DrillsAssumption
<1>1. ~On({"create", "created"})' =>
        /\ trial.last \in trial.seen /\ trial.last \in DOMAIN rows
        /\ rows'[trial.last].source = HomeSource /\ version'[HomeSource].state # "none"
  <2>1. ~On({"create", "created"})' =>
          /\ trial.last \in trial.seen /\ rows[trial.last].source = HomeSource
          /\ version[HomeSource].state # "none"
    BY DEF On, MoveKnown
  <2>2. trial.last \in trial.seen => trial.last \in DOMAIN rows
    BY DEF Passed
  <2> QED
    BY <2>1, <2>2, RowsLast DEF RowsKept, VersionsLast
<1>2. On({"renamed"})' => KeptCandidate' /\ ViewsTrue' /\ HandsLast'
  <2>1. On({"renamed"})' => KeptCandidate /\ ViewsTrue /\ HandsLast /\ AtHome
    <3> SUFFICES ASSUME trial.at = "renamed"
                 PROVE  KeptCandidate /\ ViewsTrue /\ HandsLast /\ AtHome
      BY DEF On
    <3> QED
      BY DEF On, MoveKnown, FileKnown, FilePlace, AtHome
  <2> QED
    BY <2>1, ViewsKept, KeptWhenRenamed
<1>3. On({"back", "moved back", "restore", "restored"})' => Retired(trial.last)'
  <2>1. On({"back", "moved back", "restore", "restored"})' =>
          Retired(trial.last) /\ trial.last \in DOMAIN rows
    <3> SUFFICES ASSUME trial.at \in {"back", "moved back", "restore", "restored"}
                 PROVE  Retired(trial.last) /\ trial.last \in DOMAIN rows
      BY DEF On
    <3> QED
      BY <1>1 DEF On, MoveKnown
  <2>2. trial.last \in DOMAIN rows /\ Retired(trial.last) => Retired(trial.last)'
    BY RowsPass DEF Retired
  <2> QED
    BY <2>1, <2>2
<1> QED
  BY <1>1, <1>2, <1>3 DEF MoveKnown

LEMMA CrossKept ==
  ASSUME Sound, CalmStep, CrossKnown, \A k \in trial.seen : Passed(k), UNCHANGED trial
  PROVE  CrossKnown'
<1> USE DrillsAssumption
<1>1. \A places : On(places)' = On(places)
  BY DEF On
<1>2. \A s \in Sources : version[s].state # "none" => version'[s].state # "none"
  BY RowsLast DEF VersionsLast
<1>3. \A k \in trial.seen : rows'[k].source = rows[k].source /\ (Retired(k) => Retired(k)')
  BY RowsLast, RowsPass DEF Passed, RowsKept
<1>4. trial' = trial
  OBVIOUS
<1> QED
  BY <1>1, <1>2, <1>3, <1>4 DEF CrossKnown

LEMMA TrialKept ==
  ASSUME Sound, FlowInv, Sound', TrialInv, WeKnoraStep, UNCHANGED trial
  PROVE  TrialInv'
<1>1. CASE trial.what \in Free
  BY <1>1 DEF TrialInv
<1>2. CASE trial.what \notin Free
  <2>1. /\ trial \in TrialSet /\ trial.at # "failed"
        /\ trial.waits = [s \in Sources |-> Len(outbox[s])] /\ Calm /\ FileKnown
        /\ (\A k \in trial.seen : Passed(k)) /\ RestKnown
    BY <1>2 DEF TrialInv
  <2>2. CalmStep
    BY <2>1, WeKnoraCalm
  <2>3. Calm' /\ RestKnown'
    BY <1>2, <2>1, <2>2, CalmKept, RestKept DEF TrialInv, RetryKnown
  <2>4. FileKnown' /\ trial'.waits = [s \in Sources |-> Len(outbox'[s])]
    BY <2>1, <2>2 DEF CalmStep, FileKnown, FilePlace, On
  <2>5. \A k \in trial'.seen : Passed(k)'
    BY <2>1, <2>2, RowsPass DEF Passed
  <2>6. trial.what = "retry" => RetryKnown'
    BY <1>2, <2>1, <2>2, RetryKept DEF TrialInv
  <2>7. trial.what = "move" => MoveKnown'
    BY <1>2, <2>1, <2>2, MoveKept DEF TrialInv
  <2>8. trial.what = "cross" => CrossKnown'
    BY <1>2, <2>1, <2>2, CrossKept DEF TrialInv
  <2> QED
    BY <1>2, <2>1, <2>3, <2>4, <2>5, <2>6, <2>7, <2>8 DEF TrialInv
<1> QED
  BY <1>1, <1>2

----------------------------------------------------------------------------
(* A drill looks at the databases, or turns the embedding service off or on. *)

Now(pc, l, S) ==
  /\ trial' \in TrialSet /\ trial'.what = trial.what /\ trial'.at = pc /\ trial'.last = l
  /\ trial'.seen = S /\ trial'.waits = trial.waits
Looked == UNCHANGED <<file, versionVars, publicationVars>>

LEMMA GoesNow ==
  ASSUME trial \in TrialSet, NEW pc \in Places, Goes(pc)
  PROVE  Now(pc, trial.last, trial.seen)
  BY DEF TrialSet, Goes, Now

LEMMA SeesNow ==
  ASSUME trial \in TrialSet, NEW pc \in Places, NEW k \in Nat,
         trial' = [trial EXCEPT !.at = pc, !.last = k, !.seen = @ \cup {k}]
  PROVE  Now(pc, k, trial.seen \cup {k})
  BY DEF TrialSet, Now

LEMMA LookedFacts ==
  ASSUME Looked
  PROVE  /\ Calm => Calm'
         /\ Settled => Settled'
         /\ ViewsTrue => ViewsTrue'
         /\ HomeRows => HomeRows'
         /\ \A k : (Passed(k) => Passed(k)') /\ (Retired(k) => Retired(k)')
         /\ NoFailures /\ UNCHANGED embedding => NoFailures'
<1>1. UNCHANGED <<file, version, rows, job, publishing, outbox, received, cursor, disp, outcome,
                  runs, scanned, trouble>>
  BY DEF Looked, versionVars, publicationVars
<1>2. \A s : View(s)' = View(s)
  BY <1>1 DEF View
<1>3. Calm => Calm'
  BY <1>1, <1>2 DEF Calm, Claimless, Busy, NamedByRange, Budget, Real
<1> QED
  BY <1>1, <1>2, <1>3 DEF Settled, ViewsTrue, HomeRows, Passed, Retired, NoFailures

LEMMA LookKeeps ==
  ASSUME TrialInv, trial.what \notin Free, Looked, NEW pc, NEW l, NEW S, Now(pc, l, S),
         pc \notin {"failed", "create"}, trial.at # "create", FilePlace' = FilePlace,
         \A k \in S : Passed(k), RestKnown',
         trial.what = "retry" => RetryKnown', trial.what = "move" => MoveKnown',
         trial.what = "cross" => CrossKnown'
  PROVE  TrialInv'
<1>1. outbox' = outbox /\ file' = file
  BY DEF Looked, publicationVars
<1>2. Calm' /\ \A k \in trial'.seen : Passed(k)'
  BY LookedFacts DEF TrialInv, Now
<1>3. FileKnown'
  BY <1>1 DEF TrialInv, FileKnown, Now, On
<1> QED
  BY <1>1, <1>2, <1>3 DEF TrialInv, Now

LEMMA RestGone ==
  ASSUME RestKnown, Looked, NEW pc, NEW l, NEW S, Now(pc, l, S),
         pc \notin {"create", "stop", "overwrite", "rename", "baseline"},
         trial.what # "retry" => UNCHANGED embedding
  PROVE  RestKnown'
  BY LookedFacts DEF RestKnown, Now, On

(* The whole of what is applied is what the drill waits for. *)
LEMMA AppliedIs ==
  ASSUME TrialInv, trial.what \notin Free, AppliedAll
  PROVE  \A s \in Sources : disp[s].applied >= Len(outbox[s])
  BY DEF TrialInv, AppliedAll

(* What is published then is the file as it is. *)
LEMMA PublishedIs ==
  ASSUME Sound, FlowInv, TrialInv, trial.what \notin Free, AppliedAll,
         NEW s \in Sources, IsPublished(s)
  PROVE  LET k == version[s].cand IN
         /\ k \in DOMAIN rows /\ k \in Nat /\ rows[k].source = s /\ Named(s) /\ Passed(k)
         /\ rows[k].parse = "completed" /\ ~rows[k].gone
         /\ file.at = s /\ version[s].etag = file.etag /\ rows[k].path = file.path
<1> DEFINE k == version[s].cand
<1>1. /\ version[s].state = "published" /\ rows[k].parse = "completed" /\ rows[k].shown
      /\ rows[k].etag = version[s].etag
  BY DEF IsPublished
<1>2. k \in DOMAIN rows /\ rows[k].source = s /\ Named(s)
  BY <1>1 DEF Sound, IndexInv, VersionNames, Named
<1>3. ~rows[k].gone
  BY <1>1, <1>2 DEF Sound, IndexInv, ReadableIsCurrent
<1>4. CandidateView(s) = View(s)
  BY <1>2, AppliedIs, AppliedView
<1>5. rows[k].etag # 0 /\ CandidateView(s) = [etag |-> rows[k].etag, path |-> rows[k].path]
  BY <1>2 DEF TrialInv, Calm, Real, CandidateView
<1>6. CandidateView(s) # Absent
  BY <1>5 DEF Absent
<1>7. file.at = s /\ View(s) = [etag |-> file.etag, path |-> file.path]
  BY <1>4, <1>6 DEF View
<1>8. rows[k].etag = file.etag /\ rows[k].path = file.path
  <2>1. CandidateView(s).etag = rows[k].etag /\ CandidateView(s).path = rows[k].path
    BY <1>5
  <2>2. View(s).etag = file.etag /\ View(s).path = file.path
    BY <1>7
  <2> QED
    BY <1>4, <2>1, <2>2
<1>9. k \in Nat /\ Passed(k)
  BY <1>2 DEF Sound, IndexInv, VersionSet, Passed
<1> QED
  BY <1>1, <1>2, <1>3, <1>7, <1>8, <1>9

(* Where the file is not, nothing of it is named any more. *)
LEMMA WithdrawnIs ==
  ASSUME Sound, FlowInv, TrialInv, trial.what \notin Free, AppliedAll,
         NEW s \in Sources, file.at # s, version[s].state # "none"
  PROVE  /\ IsTombstone(s)
         /\ \A k \in trial.seen : rows[k].source = s => Retired(k)
<1>1. ~Named(s)
  <2> SUFFICES ASSUME Named(s)
               PROVE  FALSE
    OBVIOUS
  <2>1. CandidateView(s) = Absent
    BY AppliedIs, AppliedView DEF View
  <2>2. version[s].cand \in DOMAIN rows
    BY DEF Named, Sound, IndexInv, VersionNames
  <2>3. rows[version[s].cand].etag # 0
    BY <2>2 DEF TrialInv, Calm, Real
  <2> QED
    BY <2>1, <2>3 DEF CandidateView, Absent
<1>2. version[s].state = "tombstone" /\ version[s].cand = 0
  BY <1>1 DEF Sound, IndexInv, VersionSet, VersionNames, Named
<1>3. ShownRows(s) = {}
  BY <1>2 DEF ShownRows, Sound, IndexInv, ReadableIsCurrent
<1>4. ASSUME NEW k \in trial.seen, rows[k].source = s
      PROVE  Retired(k)
  <2>1. Passed(k) /\ k \in DOMAIN rows
    BY DEF TrialInv, Passed
  <2>2. k # 0
    BY <2>1 DEF Sound, IndexInv
  <2> QED
    BY <1>2, <1>4, <2>1, <2>2 DEF Passed, Retired
<1> QED
  BY <1>2, <1>3, <1>4 DEF IsTombstone

LEMMA RetryPublished ==
  ASSUME Sound, FlowInv, TrialInv, TrialAt({"retry"}, "baseline"),
         Published(HomeSource, TRUE, "stop")
  PROVE  TrialInv'
<1> USE DrillsAssumption
<1> DEFINE k == version[HomeSource].cand
           S == trial.seen \cup {k}
<1>1. trial.what = "retry" /\ trial.at = "baseline" /\ trial.what \notin Free
  BY DEF TrialAt, Free
<1>2. /\ trial \in TrialSet /\ Calm /\ NoFailures /\ RetryKnown /\ AppliedAll /\ Looked
      /\ UNCHANGED embedding /\ IsPublished(HomeSource) /\ \A j \in trial.seen : Passed(j)
  BY <1>1 DEF TrialInv, RestKnown, On, Published, indexVars, Looked
<1>3. /\ k \in Nat /\ Named(HomeSource) /\ Passed(k) /\ rows[k].parse = "completed"
      /\ ~rows[k].gone /\ version[HomeSource].etag = file.etag
  BY <1>1, <1>2, PublishedIs
<1>4. Now("stop", k, S)
  BY <1>2, <1>3, SeesNow DEF Published, Fails, Places
<1> HIDE DEF k, S
<1>5. Settled /\ trial.seen = {}
  BY <1>1, <1>2, AppliedIs, AppliedSettled DEF RetryKnown, On
<1>6. Settled' /\ ViewsTrue' /\ HomeRows' /\ NoFailures'
  BY <1>2, <1>5, LookedFacts DEF RetryKnown
<1>7. KeptCandidate' /\ SeenParsed'
  BY <1>2, <1>3, <1>4, <1>5 DEF k, S, KeptCandidate, SeenParsed, Now, Named, Looked, versionVars
<1>8. RestKnown' /\ RetryKnown'
  BY <1>1, <1>4, <1>6, <1>7 DEF RestKnown, RetryKnown, Now, On
<1>9. FilePlace' = FilePlace
  BY <1>1, <1>4 DEF FilePlace, Now, On
<1> QED
  BY <1>1, <1>2, <1>3, <1>4, <1>8, <1>9, LookKeeps DEF S

(* A look of the retry drill, after which nothing rests *)
LEMMA RetryLooks ==
  ASSUME TrialInv, trial.what = "retry", trial.at # "create", Looked, NEW pc \in Places, NEW l,
         pc \notin {"failed", "create", "baseline", "stop", "overwrite", "rename"},
         Now(pc, l, trial.seen),
         pc \in {"candidate"} => SeenParsed',
         pc \in {"start", "status", "denied", "recover"} => LastFailed',
         pc \in {"denied", "recover"} => Tracked'
  PROVE  TrialInv'
<1>1. trial.what \notin Free
  BY DEF Free
<1>2. RestKnown'
  BY <1>1, RestGone DEF TrialInv
<1>3. ViewsTrue' /\ HomeRows'
  BY <1>1, LookedFacts DEF TrialInv, RetryKnown
<1>4. RetryKnown'
  BY <1>3 DEF RetryKnown, Now, On
<1>5. FilePlace' = FilePlace
  BY DEF FilePlace, Now, On
<1> QED
  BY <1>1, <1>2, <1>4, <1>5, LookKeeps DEF TrialInv, Now

LEMMA FailureSeen ==
  ASSUME Sound, TrialInv, WaitFailedCandidate
  PROVE  TrialInv'
<1> USE DrillsAssumption
<1>1. /\ trial.what = "retry" /\ trial.at = "candidate" /\ trial.what \notin Free
      /\ Looked /\ Failed(HomeSource) /\ version[HomeSource].etag = file.etag
  BY DEF WaitFailedCandidate, TrialAt, Free, Looked, indexVars
<1>2. /\ trial \in TrialSet /\ RetryKnown /\ SeenParsed /\ HomeRows
      /\ \A j \in trial.seen : Passed(j)
  BY <1>1 DEF TrialInv, RetryKnown, On
<1>3. ~rows[trial.last].gone /\ rows[trial.last].parse = "completed"
  BY <1>2 DEF SeenParsed, Passed, HomeRows
<1>4. trial' = [trial EXCEPT !.at = "start", !.last = Candidate]
  BY <1>3 DEF WaitFailedCandidate
<1>5. /\ Candidate \in Nat /\ Candidate \in DOMAIN rows /\ rows[Candidate].parse = "failed"
      /\ Named(HomeSource)
  BY <1>1 DEF Candidate, Failed, Named, Sound, IndexInv, VersionSet, VersionNames
<1>6. Now("start", Candidate, trial.seen)
  BY <1>2, <1>4, <1>5 DEF TrialSet, Now, Places
<1>7. ASSUME NEW k \in trial.seen
      PROVE  Retired(k)
  BY <1>2, <1>5 DEF Passed, Retired, SeenParsed, HomeRows, Candidate
<1>8. LastFailed'
  BY <1>1, <1>5, <1>6, <1>7, LookedFacts DEF LastFailed, Now, Named, Looked, versionVars
<1> QED
  BY <1>1, <1>6, <1>8, RetryLooks DEF Places

LEMMA FailureKnown ==
  ASSUME TrialInv, trial.what = "retry", trial.at \in {"start", "status", "denied", "recover"},
         Looked, NEW pc, Now(pc, trial.last, trial.seen)
  PROVE  LastFailed'
<1>1. LastFailed
  BY DEF TrialInv, Free, RetryKnown, On
<1> QED
  BY <1>1, LookedFacts DEF LastFailed, Now, Named, Looked, versionVars

LEMMA RetryWatched ==
  ASSUME TrialInv, RetryStatus \/ StrictLatestDenial \/ WaitRecovered \/ RetryApplied
  PROVE  TrialInv'
<1>1. trial.what = "retry" /\ trial.what \notin Free /\ Looked
      /\ trial.at \in {"status", "denied", "recover", "applied"}
  BY DEF RetryStatus, StrictLatestDenial, WaitRecovered, RetryApplied, TrialAt, Free, Looked,
         indexVars
<1>2. trial \in TrialSet /\ RetryKnown
  BY <1>1 DEF TrialInv
<1>3. PICK pc \in {"denied", "recover", "missed", "applied", "done"} :
        /\ Goes(pc)
        /\ pc \in {"denied", "recover"} => trial.at \in {"status", "denied", "recover"} /\ Tracked
  <2>1. CASE RetryStatus
    BY <2>1 DEF RetryStatus, TrialAt, Tracked, Candidate
  <2>2. CASE StrictLatestDenial
    BY <1>2, <2>2 DEF StrictLatestDenial, TrialAt, RetryKnown, On
  <2>3. CASE WaitRecovered
    <3>1. trial.at = "recover" /\ Tracked
      BY <1>2, <2>3 DEF WaitRecovered, TrialAt, RetryKnown, On
    <3> QED
      BY <2>3, <3>1 DEF WaitRecovered, Tracked, Candidate
  <2>4. CASE RetryApplied
    BY <2>4 DEF RetryApplied
  <2> QED
    BY <2>1, <2>2, <2>3, <2>4
<1>4. Now(pc, trial.last, trial.seen)
  BY <1>2, <1>3, GoesNow DEF Places
<1>5. pc \in {"denied", "recover"} => LastFailed' /\ Tracked'
  <2>1. pc \in {"denied", "recover"} => LastFailed'
    BY <1>1, <1>3, <1>4, FailureKnown
  <2>2. Tracked => Tracked'
    BY <1>1, <1>4 DEF Tracked, RetryClaimed, ReplacementFailed, Now, Looked, versionVars
  <2> QED
    BY <1>3, <2>1, <2>2
<1>6. pc \in Places
  BY <1>3 DEF Places
<1> QED
  BY <1>1, <1>3, <1>4, <1>5, <1>6, RetryLooks

LEMMA ServiceLooks ==
  ASSUME TrialInv, StopEmbedding \/ StartEmbedding
  PROVE  TrialInv'
<1>1. CASE StopEmbedding
  <2>1. /\ trial.what = "retry" /\ trial.at = "stop" /\ trial.what \notin Free /\ Looked
        /\ Goes("overwrite")
    BY <1>1 DEF StopEmbedding, TrialAt, Free, Looked, Embedding
  <2>2. /\ trial \in TrialSet /\ RetryKnown /\ Settled /\ KeptCandidate /\ SeenParsed
        /\ ViewsTrue /\ HomeRows /\ \A k \in trial.seen : Passed(k)
    BY <2>1 DEF TrialInv, RestKnown, RetryKnown, On
  <2>3. Now("overwrite", trial.last, trial.seen)
    BY <2>1, <2>2, GoesNow DEF Places
  <2>4. Settled' /\ ViewsTrue' /\ HomeRows'
    BY <2>1, <2>2, LookedFacts
  <2>5. KeptCandidate' /\ SeenParsed'
    BY <2>1, <2>2, <2>3 DEF KeptCandidate, SeenParsed, Now, Named, Looked, versionVars
  <2>6. RestKnown' /\ RetryKnown'
    BY <2>1, <2>3, <2>4, <2>5 DEF RestKnown, RetryKnown, Now, On
  <2>7. FilePlace' = FilePlace
    BY <2>1, <2>3 DEF FilePlace, Now, On
  <2> QED
    BY <2>1, <2>2, <2>3, <2>6, <2>7, LookKeeps
<1>2. CASE StartEmbedding
  <2>1. /\ trial.what = "retry" /\ trial.at = "start" /\ trial.what \notin Free /\ Looked
        /\ \E pc \in {"status", "done"} : Goes(pc)
    BY <1>2 DEF StartEmbedding, TrialAt, Free, Looked, Embedding, Goes
  <2>2. PICK pc \in {"status", "done"} : Goes(pc)
    BY <2>1
  <2>3. trial \in TrialSet /\ pc \in Places
    BY <2>1 DEF TrialInv, Places
  <2>4. Now(pc, trial.last, trial.seen)
    BY <2>2, <2>3, GoesNow DEF Places
  <2>5. LastFailed'
    BY <2>1, <2>4, FailureKnown
  <2> QED
    BY <2>1, <2>3, <2>4, <2>5, RetryLooks
<1> QED
  BY <1>1, <1>2

(* A look of the moving drills, after which nothing rests *)
LEMMA FileLooks ==
  ASSUME TrialInv, trial.what \in {"move", "cross"}, trial.at # "create", Looked,
         UNCHANGED embedding, NEW pc \in Places, NEW l, NEW S, Now(pc, l, S),
         pc \notin {"create", "stop", "overwrite", "rename", "baseline"}, FilePlace' = FilePlace,
         \A k \in S : Passed(k),
         trial.what = "move" => MoveKnown', trial.what = "cross" => CrossKnown'
  PROVE  TrialInv'
<1>1. trial.what \notin Free /\ trial.what # "retry" /\ pc # "failed"
  BY DEF Free, Places
<1>2. RestKnown'
  BY <1>1, RestGone DEF TrialInv
<1> QED
  BY <1>1, <1>2, LookKeeps

LEMMA MoveLooks ==
  ASSUME TrialInv, trial.what = "move", trial.at # "create", Looked, UNCHANGED embedding,
         NEW pc \in {"out", "back", "flap out", "trash", "restore", "done"}, NEW l, NEW S,
         Now(pc, l, S), FilePlace' = FilePlace, \A k \in S : Passed(k), l \in S,
         rows[l].source = HomeSource, version[HomeSource].state # "none",
         pc \in {"back", "restore"} => Retired(l)
  PROVE  TrialInv'
<1>1. pc \in {"back", "restore"} => Retired(l)'
  BY LookedFacts
<1>2. MoveKnown'
  BY <1>1 DEF MoveKnown, Now, On, Looked, versionVars
<1>3. pc \in Places
  BY DEF Places
<1> QED
  BY <1>2, <1>3, FileLooks

(* What a moving drill has seen before *)
LEMMA MoveHas ==
  ASSUME TrialInv, trial.what = "move", trial.at \notin {"create", "created"}
  PROVE  /\ trial.last \in trial.seen /\ rows[trial.last].source = HomeSource
         /\ version[HomeSource].state # "none" /\ trial.last \in Nat
         /\ \A k \in trial.seen : Passed(k)
         /\ trial.what \notin Free /\ trial \in TrialSet
  BY DEF TrialInv, MoveKnown, On, Free, TrialSet

(* What a drill has seen published is the file at that place. *)
LEMMA SeesPublished ==
  ASSUME Sound, FlowInv, TrialInv, trial.what \notin Free, NEW s \in Sources,
         AppliedAll, IsPublished(s), NEW pc \in Places,
         trial' = [trial EXCEPT !.at = pc, !.last = version[s].cand,
                                !.seen = @ \cup {version[s].cand}]
  PROVE  LET k == version[s].cand IN
         /\ Now(pc, k, trial.seen \cup {k}) /\ rows[k].source = s
         /\ \A j \in trial.seen \cup {k} : Passed(j)
<1>1. version[s].cand \in Nat /\ Passed(version[s].cand) /\ rows[version[s].cand].source = s
  BY PublishedIs
<1>2. trial \in TrialSet /\ \A j \in trial.seen : Passed(j)
  BY DEF TrialInv
<1> QED
  BY <1>1, <1>2, SeesNow

LEMMA FirstPublished ==
  ASSUME Sound, FlowInv, TrialInv, CreatedPublished
  PROVE  TrialInv'
<1> USE DrillsAssumption
<1> DEFINE k == version[HomeSource].cand
           S == trial.seen \cup {k}
           pc == IF trial.what = "move" THEN "rename" ELSE "to other"
<1>1. /\ trial.what \in {"move", "cross"} /\ trial.at = "created" /\ trial.what \notin Free
      /\ trial.what # "retry" /\ trial.at # "create"
      /\ Published(HomeSource, PathCurrent(HomeSource), pc)
  BY DEF CreatedPublished, TrialAt, Free
<1>2. /\ AppliedAll /\ IsPublished(HomeSource) /\ Looked /\ UNCHANGED embedding
      /\ RestKnown /\ Calm /\ NoFailures
  BY <1>1 DEF TrialInv, Published, Looked, indexVars, RestKnown
<1>3. /\ Named(HomeSource) /\ rows[k].parse = "completed" /\ ~rows[k].gone
      /\ version[HomeSource].etag = file.etag /\ rows[k].path = file.path
  BY <1>1, <1>2, PublishedIs
<1>4. trial' = [trial EXCEPT !.at = pc, !.last = k, !.seen = @ \cup {k}]
  BY <1>1, <1>3 DEF Published, PathCurrent
<1>5. pc \in {"rename", "to other"} /\ pc \in Places /\ (pc = "rename" <=> trial.what = "move")
  BY DEF Places
<1> HIDE DEF pc
<1>6. Now(pc, k, S) /\ rows[k].source = HomeSource /\ \A j \in S : Passed(j)
  BY <1>1, <1>2, <1>4, <1>5, SeesPublished
<1> HIDE DEF k
<1>7. Settled' /\ NoFailures'
  BY <1>1, <1>2, AppliedIs, AppliedSettled, LookedFacts
<1>8. KeptCandidate' /\ version'[HomeSource].state # "none"
        /\ rows'[k].source = HomeSource
  BY <1>2, <1>3, <1>6 DEF k, KeptCandidate, Now, Named, Looked, versionVars
<1>9. RestKnown' /\ FilePlace' = FilePlace
  BY <1>1, <1>5, <1>6, <1>7, <1>8 DEF RestKnown, Now, On, FilePlace
<1>10. trial.what = "move" => MoveKnown'
  BY <1>1, <1>5, <1>6, <1>8 DEF MoveKnown, Now, On
<1>11. trial.what = "cross" => CrossKnown'
  <2>1. trial.what = "cross" => \A j \in S : rows'[j].source = HomeSource
    BY <1>1, <1>2, <1>8 DEF TrialInv, CrossKnown, On, Looked, versionVars
  <2> QED
    BY <1>1, <1>5, <1>6, <1>8, <2>1 DEF CrossKnown, Now, On
<1>12. pc \notin {"failed", "create"}
  BY <1>5
<1> QED
  BY <1>1, <1>2, <1>6, <1>9, <1>10, <1>11, <1>12, LookKeeps

LEMMA RenameSeen ==
  ASSUME Sound, FlowInv, TrialInv, RenamedPublished
  PROVE  TrialInv'
<1> USE DrillsAssumption
<1>1. /\ trial.what = "move" /\ trial.at = "renamed" /\ trial.what \notin Free
      /\ Published(HomeSource, Candidate = trial.last /\ PathCurrent(HomeSource), "out")
  BY DEF RenamedPublished, TrialAt, Free
<1>2. /\ AppliedAll /\ IsPublished(HomeSource) /\ Looked /\ UNCHANGED embedding
      /\ KeptCandidate
  BY <1>1 DEF TrialInv, MoveKnown, On, Published, Looked, indexVars
<1>3. PathCurrent(HomeSource) /\ Candidate = trial.last
  BY <1>1, <1>2, PublishedIs DEF PathCurrent, Candidate, KeptCandidate
<1>4. trial' = [trial EXCEPT !.at = "out", !.last = version[HomeSource].cand,
                             !.seen = @ \cup {version[HomeSource].cand}]
  BY <1>1, <1>3 DEF Published
<1>5. LET k == version[HomeSource].cand IN
      /\ Now("out", k, trial.seen \cup {k}) /\ rows[k].source = HomeSource
      /\ \A j \in trial.seen \cup {k} : Passed(j)
  BY <1>1, <1>2, <1>4, SeesPublished DEF Places
<1>6. FilePlace' = FilePlace
  BY <1>1, <1>5 DEF FilePlace, Now, On
<1>7. version[HomeSource].state # "none" /\ trial.at # "create"
  BY <1>1, <1>2 DEF IsPublished
<1> DEFINE k == version[HomeSource].cand
           S == trial.seen \cup {k}
<1>8. Now("out", k, S) /\ k \in S /\ rows[k].source = HomeSource /\ \A j \in S : Passed(j)
  BY <1>5
<1> HIDE DEF k, S
<1> QED
  BY <1>1, <1>2, <1>6, <1>7, <1>8, MoveLooks

LEMMA BackSeen ==
  ASSUME Sound, FlowInv, TrialInv, MovedBack \/ RestoredPublished
  PROVE  TrialInv'
<1> USE DrillsAssumption
<1>1. PICK pc \in {"flap out", "done"} :
        /\ trial.what = "move" /\ trial.at \in {"moved back", "restored"}
        /\ Published(HomeSource, Candidate # trial.last, pc)
  BY DEF MovedBack, RestoredPublished, TrialAt
<1>2. /\ trial.what \notin Free /\ AppliedAll /\ IsPublished(HomeSource) /\ Looked
      /\ UNCHANGED embedding /\ Retired(trial.last) /\ trial.last \in trial.seen
  BY <1>1 DEF TrialInv, MoveKnown, On, Published, Looked, indexVars, Free
<1>3. Candidate # trial.last
  <2>1. rows[Candidate].source = HomeSource
    BY <1>2, PublishedIs DEF Candidate
  <2> QED
    BY <2>1, <1>2 DEF Retired, Candidate
<1>4. trial' = [trial EXCEPT !.at = pc, !.last = version[HomeSource].cand,
                             !.seen = @ \cup {version[HomeSource].cand}]
  BY <1>1, <1>3 DEF Published
<1>5. pc \in Places
  BY DEF Places
<1>6. LET k == version[HomeSource].cand IN
      /\ Now(pc, k, trial.seen \cup {k}) /\ rows[k].source = HomeSource
      /\ \A j \in trial.seen \cup {k} : Passed(j)
  BY <1>2, <1>4, <1>5, SeesPublished
<1>7. FilePlace' = FilePlace
  BY <1>1, <1>6 DEF FilePlace, Now, On
<1>8. version[HomeSource].state # "none" /\ trial.at # "create"
  BY <1>1, <1>2 DEF IsPublished
<1>9. pc \in {"out", "back", "flap out", "trash", "restore", "done"}
      /\ pc \notin {"back", "restore"}
  OBVIOUS
<1> DEFINE k == version[HomeSource].cand
           S == trial.seen \cup {k}
<1>10. Now(pc, k, S) /\ k \in S /\ rows[k].source = HomeSource /\ \A j \in S : Passed(j)
  BY <1>6
<1> HIDE DEF k, S
<1> QED
  BY <1>1, <1>2, <1>7, <1>8, <1>9, <1>10, MoveLooks

LEMMA OutSeen ==
  ASSUME Sound, FlowInv, TrialInv, MovedOut \/ Trashed \/ PairPublished
  PROVE  TrialInv'
<1> USE DrillsAssumption
<1>1. /\ trial.what = "move" /\ trial.at \in {"moved out", "trashed", "flapped"}
      /\ trial.at # "create" /\ Looked /\ UNCHANGED embedding /\ AppliedAll
  BY DEF MovedOut, Trashed, PairPublished, TrialAt, Withdrawn, Looked, indexVars
<1>2. /\ trial.last \in trial.seen /\ rows[trial.last].source = HomeSource
      /\ version[HomeSource].state # "none" /\ (\A k \in trial.seen : Passed(k))
      /\ trial.what \notin Free /\ trial \in TrialSet
  BY <1>1, MoveHas
<1>3. trial.at \in {"moved out", "trashed"} => file.at # HomeSource
  BY <1>1, <1>2, PlacesDiffer DEF TrialInv, FileKnown, FilePlace, On
<1>4. trial.at \in {"moved out", "trashed"} => IsTombstone(HomeSource) /\ Retired(trial.last)
  BY <1>1, <1>2, <1>3, WithdrawnIs
<1>5. PICK pc \in {"back", "restore", "trash"} :
        /\ Goes(pc)
        /\ (pc = "back" /\ trial.at = "moved out") \/ (pc = "restore" /\ trial.at = "trashed")
             \/ (pc = "trash" /\ trial.at = "flapped")
  BY <1>1, <1>4 DEF MovedOut, Trashed, PairPublished, TrialAt, Withdrawn
<1>6. Now(pc, trial.last, trial.seen)
  BY <1>2, <1>5, GoesNow DEF Places
<1>7. FilePlace' = FilePlace
  BY <1>1, <1>5, <1>6 DEF FilePlace, Now, On
<1>8. pc \in {"back", "restore"} => Retired(trial.last)
  BY <1>4, <1>5
<1>9. pc \in {"out", "back", "flap out", "trash", "restore", "done"}
  BY <1>5
<1> QED
  BY <1>1, <1>2, <1>6, <1>7, <1>8, <1>9, MoveLooks

LEMMA CrossLooks ==
  ASSUME TrialInv, trial.what = "cross", trial.at # "create", Looked, UNCHANGED embedding,
         NEW pc \in {"at other", "to home", "at home", "done"}, NEW l, NEW S, Now(pc, l, S),
         FilePlace' = FilePlace, \A k \in S : Passed(k),
         version[HomeSource].state # "none",
         pc \in {"at other"} => \A k \in S : rows[k].source = HomeSource,
         pc \in {"at other", "to home", "at home"} =>
           /\ \A k \in S : rows[k].source = HomeSource => Retired(k)
           /\ OtherSource # HomeSource,
         pc \in {"to home"} => version[OtherSource].state # "none"
  PROVE  TrialInv'
<1>1. pc \in Places
  BY DEF Places
<1>2. UNCHANGED <<version, rows>> /\ \A k : Retired(k) => Retired(k)'
  BY LookedFacts DEF Looked, versionVars
<1>3. CrossKnown'
  BY <1>2 DEF CrossKnown, Now, On
<1> QED
  BY <1>1, <1>3, FileLooks

LEMMA CrossHas ==
  ASSUME TrialInv, trial.what = "cross",
         trial.at \in {"left home", "at other", "to home", "left other", "at home"}
  PROVE  /\ trial \in TrialSet /\ trial.what \notin Free /\ trial.at # "create"
         /\ version[HomeSource].state # "none" /\ OtherSource # HomeSource
         /\ \A k \in trial.seen : Passed(k)
  BY DEF TrialInv, CrossKnown, On, Free

LEMMA LeftSeen ==
  ASSUME Sound, FlowInv, TrialInv, trial.what = "cross",
         \/ trial.at = "left home" /\ Withdrawn(HomeSource, "at other")
         \/ trial.at = "left other" /\ Withdrawn(OtherSource, "at home")
  PROVE  TrialInv'
<1> USE DrillsAssumption
<1>1. /\ trial \in TrialSet /\ trial.what \notin Free /\ trial.at # "create"
      /\ version[HomeSource].state # "none" /\ OtherSource # HomeSource
      /\ \A k \in trial.seen : Passed(k)
  BY CrossHas
<1>2. Looked /\ UNCHANGED embedding /\ AppliedAll
  BY DEF Withdrawn, Looked, indexVars
<1>3. CASE trial.at = "left home"
  <2>1. file.at = OtherSource /\ \A k \in trial.seen : rows[k].source = HomeSource
    BY <1>1, <1>3 DEF TrialInv, FileKnown, FilePlace, On, CrossKnown
  <2>2. IsTombstone(HomeSource) /\ \A k \in trial.seen : rows[k].source = HomeSource => Retired(k)
    BY <1>1, <1>2, <2>1, WithdrawnIs
  <2>3. Goes("at other")
    BY <1>3, <2>2 DEF Withdrawn
  <2>4. Now("at other", trial.last, trial.seen)
    BY <1>1, <2>3, GoesNow DEF Places
  <2>5. FilePlace' = FilePlace
    BY <1>1, <1>3, <2>4 DEF FilePlace, Now, On
  <2> QED
    BY <1>1, <1>2, <2>1, <2>2, <2>4, <2>5, CrossLooks
<1>4. CASE trial.at = "left other"
  <2>1. /\ file.at = HomeSource /\ version[OtherSource].state # "none"
        /\ \A k \in trial.seen : rows[k].source = HomeSource => Retired(k)
    BY <1>1, <1>4 DEF TrialInv, FileKnown, FilePlace, On, CrossKnown
  <2>2. IsTombstone(OtherSource)
    BY <1>1, <1>2, <2>1, WithdrawnIs
  <2>3. Goes("at home")
    BY <1>4, <2>2 DEF Withdrawn
  <2>4. Now("at home", trial.last, trial.seen)
    BY <1>1, <2>3, GoesNow DEF Places
  <2>5. FilePlace' = FilePlace
    BY <1>1, <1>4, <2>4 DEF FilePlace, Now, On
  <2> QED
    BY <1>1, <1>2, <2>1, <2>4, <2>5, CrossLooks
<1> QED
  BY <1>3, <1>4

LEMMA ArrivalSeen ==
  ASSUME Sound, FlowInv, TrialInv, trial.what = "cross", NEW s \in Sources,
         NEW pc \in {"to home", "done"},
         Published(s, version[s].cand \notin trial.seen /\ PathCurrent(s), pc),
         \/ trial.at = "at other" /\ s = OtherSource /\ pc = "to home"
         \/ trial.at = "at home" /\ s = HomeSource /\ pc = "done"
  PROVE  TrialInv'
<1> USE DrillsAssumption
<1> DEFINE c == version[s].cand
           S == trial.seen \cup {c}
<1>1. /\ trial \in TrialSet /\ trial.what \notin Free /\ trial.at # "create"
      /\ version[HomeSource].state # "none" /\ OtherSource # HomeSource
      /\ \A k \in trial.seen : Passed(k)
  BY CrossHas
<1>2. Looked /\ UNCHANGED embedding /\ AppliedAll /\ IsPublished(s)
  BY DEF Published, Looked, indexVars
<1>3. rows[c].source = s /\ rows[c].path = file.path
  BY <1>1, <1>2, PublishedIs
<1>4. /\ trial.at = "at other" => \A k \in trial.seen : rows[k].source = HomeSource
      /\ \A k \in trial.seen : rows[k].source = HomeSource => Retired(k)
  BY <1>1 DEF TrialInv, CrossKnown, On
<1>5. c \notin trial.seen
  BY <1>1, <1>3, <1>4 DEF Retired
<1>6. trial' = [trial EXCEPT !.at = pc, !.last = c, !.seen = @ \cup {c}]
  BY <1>3, <1>5 DEF Published, PathCurrent
<1>7. pc \in Places
  BY DEF Places
<1>8. Now(pc, c, S) /\ \A j \in S : Passed(j)
  BY <1>1, <1>2, <1>6, <1>7, SeesPublished
<1>9. FilePlace' = FilePlace
  BY <1>1, <1>8 DEF FilePlace, Now, On
<1>10. /\ version[s].state # "none"
       /\ pc \in {"to home"} => \A k \in S : rows[k].source = HomeSource => Retired(k)
  BY <1>1, <1>2, <1>3, <1>4 DEF IsPublished
<1> HIDE DEF c, S
<1>11. pc \in {"at other", "to home", "at home", "done"} /\ pc \notin {"at other", "at home"}
       /\ (pc \in {"to home"} => version[OtherSource].state # "none")
  BY <1>10
<1> QED
  BY <1>1, <1>2, <1>8, <1>9, <1>10, <1>11, CrossLooks

----------------------------------------------------------------------------
(* A drill works on the file. *)

Acted(pc) ==
  /\ trial' \in TrialSet /\ trial'.what = trial.what /\ trial'.at = pc
  /\ trial'.last = trial.last /\ trial'.seen = trial.seen
  /\ trial'.waits = [s \in Sources |-> Len(outbox'[s])]
Untouched ==
  UNCHANGED <<embedding, versionVars, received, cursor, disp, outcome, runs, scanned, trouble>>

LEMMA ActsNow ==
  ASSUME Sound, FlowInv, TrialInv, trial.what \notin Free, FileChange, NEW pc \in Places,
         trial' = [trial EXCEPT !.at = pc, !.waits = [s \in Sources |->
                     IF outbox'[s] = outbox[s] THEN trial.waits[s] ELSE Len(outbox'[s])]]
  PROVE  Acted(pc) /\ Untouched
<1>1. Sound' /\ Untouched
  BY FileChangeEffect DEF FlowInv, Untouched
<1> DEFINE w == [s \in Sources |->
                   IF outbox'[s] = outbox[s] THEN trial.waits[s] ELSE Len(outbox'[s])]
<1>2. trial.waits = [s \in Sources |-> Len(outbox[s])] /\ trial \in TrialSet
  BY DEF TrialInv
<1>3. w = [s \in Sources |-> Len(outbox'[s])]
  BY <1>2
<1>4. w \in [Sources -> Nat]
  BY <1>1, <1>3 DEF Sound, FlowTypes
<1>5. trial' = [trial EXCEPT !.at = pc, !.waits = w]
  OBVIOUS
<1> HIDE DEF w
<1>6. /\ trial' \in TrialSet /\ trial'.what = trial.what /\ trial'.at = pc
      /\ trial'.last = trial.last /\ trial'.seen = trial.seen /\ trial'.waits = w
  BY <1>2, <1>4, <1>5 DEF TrialSet
<1> QED
  BY <1>1, <1>3, <1>6 DEF Acted

LEMMA ActedFacts ==
  ASSUME Untouched
  PROVE  /\ Settled => ViewsTrue' /\ \A r \in RunIds : runs'[r].pc # "made"
         /\ HomeRows => HomeRows'
         /\ \A k : (Passed(k) => Passed(k)') /\ (Retired(k) => Retired(k)')
         /\ NoFailures => NoFailures'
         /\ UNCHANGED <<version, rows>>
<1>1. UNCHANGED <<version, rows, job, publishing, embedding, runs>>
  BY DEF Untouched, versionVars
<1>2. ASSUME Settled, NEW r \in RunIds
      PROVE  runs'[r].pc # "made" /\ runs'[r].pc \notin Seen
  BY <1>1, <1>2 DEF Settled, NoRun, Seen, Listed, Running
<1> QED
  BY <1>1, <1>2 DEF ViewsTrue, HomeRows, Passed, Retired, NoFailures

LEMMA ActKeeps ==
  ASSUME Sound, TrialInv, trial.what \notin Free, Untouched, NEW pc, Acted(pc),
         pc \notin {"failed", "create", "stop", "overwrite", "rename"},
         pc = "baseline" => trial.at = "create", file'.at = FilePlace', file'.etag # 0,
         trial.what = "retry" => RetryKnown', trial.what = "move" => MoveKnown',
         trial.what = "cross" => CrossKnown'
  PROVE  TrialInv'
<1>1. /\ Calm /\ RestKnown /\ \A k \in trial.seen : Passed(k)
  BY DEF TrialInv
<1>2. UNCHANGED <<embedding, version, rows, job, disp, outcome, runs, trouble>>
  BY DEF Untouched, versionVars
<1>3. \A s \in Sources : View(s)' # Absent => View(s)'.etag # 0
  BY DEF View
<1>4. Calm'
  BY <1>1, <1>2, <1>3 DEF Calm, Claimless, Busy, NamedByRange, Budget, Real
<1>5. RestKnown'
  BY <1>1, ActedFacts DEF RestKnown, Acted, On
<1>6. FileKnown' /\ \A k \in trial'.seen : Passed(k)'
  BY <1>1, ActedFacts DEF FileKnown, Acted
<1> QED
  BY <1>4, <1>5, <1>6 DEF TrialInv, Acted

(* Where a change leaves the file *)
LEMMA ChangeLeaves ==
  ASSUME Sound, NEW s \in Sources
  PROVE  /\ Upload(s) => file'.at = s /\ file'.etag # 0
         /\ RenameFile(s) => file'.at = s /\ file'.etag = file.etag
         /\ Trash(s) => file'.at = "trash" /\ file'.etag = file.etag
         /\ Untrash(s) => file'.at = s /\ file'.etag = file.etag
         /\ \A p, q : MoveFolder(p, q) => file'.at = q /\ file'.etag = file.etag
<1>1. file.etag \in Nat /\ file = [at |-> file.at, etag |-> file.etag, path |-> file.path]
  BY DEF Sound, FileSet
<1>2. Upload(s) => file'.at = s /\ file'.etag = file.etag + 1
  BY <1>1 DEF Upload, Changes
<1>3. file.etag + 1 # 0
  BY <1>1
<1>4. RenameFile(s) => file'.at = s /\ file'.etag = file.etag
  BY <1>1 DEF RenameFile, Changes
<1>5. Trash(s) => file'.at = "trash" /\ file'.etag = file.etag
  BY <1>1 DEF Trash, Changes
<1>6. Untrash(s) => file'.at = s /\ file'.etag = file.etag
  BY <1>1 DEF Untrash, Changes
<1>7. \A p, q : MoveFolder(p, q) => file'.at = q /\ file'.etag = file.etag
  BY <1>1 DEF MoveFolder, Changes
<1> QED
  BY <1>2, <1>3, <1>4, <1>5, <1>6, <1>7

LEMMA RetryActs ==
  ASSUME Sound, FlowInv, TrialInv,
         \/ TrialAt({"retry"}, "create") /\ Acts(Upload(HomeSource), "baseline")
         \/ TrialAt({"retry"}, "overwrite") /\ Acts(Upload(HomeSource), "candidate")
  PROVE  TrialInv'
<1> USE DrillsAssumption
<1>1. PICK pc \in {"baseline", "candidate"} :
        /\ trial.what = "retry" /\ Acts(Upload(HomeSource), pc)
        /\ \/ trial.at = "create" /\ pc = "baseline"
           \/ trial.at = "overwrite" /\ pc = "candidate"
  BY DEF TrialAt
<1>2. trial.what \notin Free /\ RetryKnown /\ Settled
  BY <1>1 DEF TrialInv, Free, RestKnown, On
<1>3. Upload(HomeSource) /\ FileChange /\ pc \in Places
  BY <1>1 DEF Acts, FileChange, Places
<1>4. Acted(pc) /\ Untouched
  BY <1>1, <1>2, <1>3, ActsNow DEF Acts
<1>5. file'.at = HomeSource /\ file'.etag # 0
  BY <1>3, ChangeLeaves
<1>6. ViewsTrue' /\ HomeRows' /\ UNCHANGED <<version, rows>>
  BY <1>2, <1>4, ActedFacts DEF RetryKnown
<1>7. pc = "candidate" => SeenParsed
  BY <1>1, <1>2 DEF RetryKnown, On
<1>8. pc = "candidate" => SeenParsed'
  BY <1>4, <1>6, <1>7 DEF SeenParsed, Acted
<1>9. pc = "baseline" => trial.seen = {}
  BY <1>1, <1>2 DEF RetryKnown, On
<1>10. RetryKnown'
  BY <1>1, <1>4, <1>6, <1>8, <1>9 DEF RetryKnown, Acted, On
<1>11. FilePlace' = HomeSource
  BY <1>1, <1>4 DEF FilePlace, Acted, On
<1> QED
  BY <1>1, <1>2, <1>4, <1>5, <1>10, <1>11, ActKeeps

LEMMA FirstActs ==
  ASSUME Sound, FlowInv, TrialInv, CreateFile
  PROVE  TrialInv'
<1> USE DrillsAssumption
<1>1. /\ trial.what \in {"move", "cross"} /\ trial.at = "create" /\ trial.what \notin Free
      /\ trial.what # "retry" /\ Upload(HomeSource) /\ FileChange /\ Acts(Upload(HomeSource), "created")
  BY DEF CreateFile, TrialAt, Free, Acts, FileChange
<1>2. Acted("created") /\ Untouched
  BY <1>1, ActsNow DEF Acts, Places
<1>3. file'.at = HomeSource /\ file'.etag # 0
  BY <1>1, ChangeLeaves
<1>4. FilePlace' = HomeSource
  BY <1>1, <1>2 DEF FilePlace, Acted, On
<1>5. MoveKnown'
  BY <1>2 DEF MoveKnown, Acted, On
<1>6. trial.what = "cross" => CrossKnown'
  BY <1>1, <1>2, ActedFacts DEF TrialInv, CrossKnown, Acted, On
<1> QED
  BY <1>1, <1>2, <1>3, <1>4, <1>5, <1>6, ActKeeps

LEMMA MoveActs ==
  ASSUME Sound, FlowInv, TrialInv,
         RenameStep \/ MoveOut \/ MoveBack \/ RapidPair \/ TrashStep \/ RestoreStep
  PROVE  TrialInv'
<1> USE DrillsAssumption
<1>1. PICK pc \in {"renamed", "moved out", "moved back", "flap in", "flapped", "trashed",
                   "restored"} :
        /\ trial.what = "move" /\ FileChange /\ \E change \in BOOLEAN : Acts(change, pc)
        /\ \/ trial.at = "rename" /\ pc = "renamed" /\ RenameFile(HomeSource)
           \/ /\ MoveFolder(HomeSource, "outside")
              /\ \/ trial.at = "out" /\ pc = "moved out"
                 \/ trial.at = "flap out" /\ pc = "flap in"
           \/ /\ MoveFolder("outside", HomeSource)
              /\ \/ trial.at = "back" /\ pc = "moved back"
                 \/ trial.at = "flap in" /\ pc = "flapped"
           \/ trial.at = "trash" /\ pc = "trashed" /\ Trash(HomeSource)
           \/ trial.at = "restore" /\ pc = "restored" /\ Untrash(HomeSource)
  <2>1. CASE RenameStep
    BY <2>1 DEF RenameStep, TrialAt, Acts, FileChange
  <2>2. CASE MoveOut
    BY <2>2 DEF MoveOut, TrialAt, Acts, FileChange
  <2>3. CASE MoveBack
    BY <2>3 DEF MoveBack, TrialAt, Acts, FileChange
  <2>4. CASE RapidPair
    BY <2>4 DEF RapidPair, TrialAt, Acts, FileChange
  <2>5. CASE TrashStep
    BY <2>5 DEF TrashStep, TrialAt, Acts, FileChange
  <2>6. CASE RestoreStep
    BY <2>6 DEF RestoreStep, TrialAt, Acts, FileChange
  <2> QED
    BY <2>1, <2>2, <2>3, <2>4, <2>5, <2>6
<1>2. /\ trial.last \in trial.seen /\ rows[trial.last].source = HomeSource
      /\ version[HomeSource].state # "none" /\ trial.what \notin Free
      /\ trial.at \notin {"create", "created"}
  BY <1>1, MoveHas
<1>3. pc \in Places
  BY DEF Places
<1>4. Acted(pc) /\ Untouched
  BY <1>1, <1>2, <1>3, ActsNow DEF Acts
<1>5. file.etag # 0 /\ file'.etag = file.etag
  BY <1>1, <1>2, ChangeLeaves DEF TrialInv, FileKnown, On
<1>6. file'.at = FilePlace'
  <2>1. file'.at = IF pc \in {"moved out", "flap in"} THEN "outside"
                   ELSE IF pc = "trashed" THEN "trash" ELSE HomeSource
    BY <1>1, ChangeLeaves
  <2> QED
    BY <1>1, <1>4, <2>1 DEF FilePlace, Acted, On
<1>7. pc \in {"moved back", "restored"} => Retired(trial.last)'
  <2>1. pc \in {"moved back", "restored"} => Retired(trial.last)
    <3>1. pc \in {"moved back", "restored"} => trial.at \in {"back", "restore"}
      BY <1>1
    <3>2. MoveKnown
      BY <1>1, <1>2 DEF TrialInv
    <3> QED
      BY <3>1, <3>2 DEF MoveKnown, On
  <2>2. UNCHANGED <<version, rows>> /\ trial'.last = trial.last
    BY <1>4, ActedFacts DEF Acted
  <2> QED
    BY <2>1, <2>2 DEF Retired
<1>8. pc = "renamed" => KeptCandidate' /\ ViewsTrue' /\ HandsLast'
  <2>1. pc = "renamed" => Settled /\ KeptCandidate
    BY <1>1, <1>2 DEF TrialInv, RestKnown, On
  <2>2. pc = "renamed" => ViewsTrue' /\ HandsLast'
    BY <1>4, <2>1, ActedFacts DEF HandsLast
  <2>3. pc = "renamed" => KeptCandidate'
    BY <1>4, <1>5, <2>1, ActedFacts DEF KeptCandidate, Named, Acted
  <2> QED
    BY <2>2, <2>3
<1>9. UNCHANGED <<version, rows>>
  BY <1>4, ActedFacts
<1>10. MoveKnown'
  BY <1>2, <1>4, <1>7, <1>8, <1>9 DEF MoveKnown, Acted, On
<1>11. trial.what # "retry" /\ trial.what # "cross"
       /\ pc \notin {"failed", "create", "stop", "overwrite", "rename"} /\ pc # "baseline"
  BY <1>1
<1> QED
  BY <1>2, <1>4, <1>5, <1>6, <1>10, <1>11, ActKeeps

LEMMA CrossActs ==
  ASSUME Sound, FlowInv, TrialInv, trial.what = "cross",
         \/ trial.at = "to other" /\ Acts(MoveFolder(HomeSource, OtherSource), "left home")
         \/ trial.at = "to home" /\ Acts(MoveFolder(OtherSource, HomeSource), "left other")
  PROVE  TrialInv'
<1> USE DrillsAssumption
<1>1. PICK pc \in {"left home", "left other"} :
        /\ FileChange /\ \E change \in BOOLEAN : Acts(change, pc)
        /\ OtherSource # HomeSource
        /\ \/ /\ trial.at = "to other" /\ pc = "left home"
              /\ MoveFolder(HomeSource, OtherSource)
           \/ /\ trial.at = "to home" /\ pc = "left other"
              /\ MoveFolder(OtherSource, HomeSource)
  BY DEF Acts, FileChange, MoveFolder
<1>2. trial.what \notin Free /\ pc \in Places /\ trial.at # "create"
  BY <1>1 DEF Free, Places
<1>3. Acted(pc) /\ Untouched
  BY <1>1, <1>2, ActsNow DEF Acts
<1>4. file.etag # 0 /\ file'.etag = file.etag
  BY <1>1, <1>2, ChangeLeaves DEF TrialInv, FileKnown, On
<1>5. file'.at = FilePlace'
  BY <1>1, <1>3, ChangeLeaves DEF FilePlace, Acted, On
<1>6. UNCHANGED <<version, rows>> /\ \A k : Retired(k) => Retired(k)'
  BY <1>3, ActedFacts
<1>7. CrossKnown
  BY <1>2 DEF TrialInv
<1>8. /\ version[HomeSource].state # "none"
      /\ pc = "left home" => \A k \in trial.seen : rows[k].source = HomeSource
      /\ pc = "left other" => /\ \A k \in trial.seen : rows[k].source = HomeSource => Retired(k)
                              /\ version[OtherSource].state # "none"
  BY <1>1, <1>7 DEF CrossKnown, On
<1>9. CrossKnown'
  BY <1>1, <1>3, <1>6, <1>8 DEF CrossKnown, Acted, On
<1>10. trial.what # "retry" /\ trial.what # "move"
       /\ pc \notin {"failed", "create", "stop", "overwrite", "rename"} /\ pc # "baseline"
  BY <1>1
<1> QED
  BY <1>2, <1>3, <1>4, <1>5, <1>9, <1>10, ActKeeps

----------------------------------------------------------------------------
(* The drills as a whole *)

LEMMA TrialStart ==
  ASSUME DrillsInit
  PROVE  TrialInv
<1> USE DrillsAssumption
<1>1. PICK w \in Free \cup {"retry", "move", "cross"} :
        trial = [NoTrial EXCEPT !.what = w, !.at = IF w \in Free THEN "free" ELSE "create"]
  BY DEF DrillsInit
<1>2. /\ trial \in TrialSet /\ trial.what = w
      /\ trial.at = (IF w \in Free THEN "free" ELSE "create")
      /\ trial.seen = {} /\ trial.waits = [s \in Sources |-> 0]
  BY <1>1 DEF NoTrial, TrialSet, Places, Drills
<1>3. CASE w \in Free
  BY <1>2, <1>3 DEF TrialInv
<1>4. CASE w \notin Free
  <2>1. /\ version = [s \in Sources |-> NoVersion] /\ rows = <<>>
        /\ job = [s \in Sources |-> NoJob]
        /\ outbox = [s \in Sources |-> <<>>] /\ received = [s \in Sources |-> 0]
        /\ disp = [s \in Sources |-> FreshDispatch] /\ outcome = [s \in Sources |-> "missing"]
        /\ runs = [r \in RunIds |-> NoRun]
    BY DEF DrillsInit, PublicationInit
  <2>2. file.at = "nowhere" /\ embedding = TRUE /\ trouble = 0
    BY <1>2, <1>4 DEF DrillsInit, Free
  <2>3. DOMAIN rows = {}
    BY <2>1
  <2>4. Claimless
    BY <2>1 DEF Claimless, Busy, NamedByRange, FreshDispatch, NoRun
  <2>5. Budget /\ Real
    BY <2>1, <2>2, <2>3, PlacesDiffer DEF Budget, Real, NoVersion, NoJob, NoRun, View
  <2>6. trial.at = "create" /\ trial.waits = [s \in Sources |-> Len(outbox[s])]
    BY <1>2, <1>4, <2>1
  <2>7. Settled
    BY <2>1 DEF Settled, FreshDispatch
  <2>8. NoFailures /\ HomeRows
    BY <2>2, <2>3 DEF NoFailures, HomeRows
  <2>9. ViewsTrue
    BY <2>1 DEF ViewsTrue, NoRun, Seen, Listed, Running
  <2>10. FileKnown
    BY <2>2, <2>6 DEF FileKnown, FilePlace, On
  <2>11. RestKnown /\ RetryKnown /\ MoveKnown /\ CrossKnown
    BY <1>2, <2>6, <2>7, <2>8, <2>9 DEF RestKnown, RetryKnown, MoveKnown, CrossKnown, On
  <2> QED
    BY <1>2, <1>4, <2>2, <2>4, <2>5, <2>6, <2>10, <2>11 DEF TrialInv, Calm
<1> QED
  BY <1>3, <1>4

LEMMA RetryDrillKeeps ==
  ASSUME Sound, FlowInv, TrialInv, RetryDrill
  PROVE  TrialInv'
<1>1. CASE RetryBaseline
  BY <1>1, RetryActs, RetryPublished DEF RetryBaseline
<1>2. CASE OverwriteV2
  BY <1>2, RetryActs DEF OverwriteV2
<1>3. CASE StopEmbedding \/ StartEmbedding
  BY <1>3, ServiceLooks
<1>4. CASE WaitFailedCandidate
  BY <1>4, FailureSeen
<1>5. CASE RetryStatus \/ StrictLatestDenial \/ WaitRecovered \/ RetryApplied
  BY <1>5, RetryWatched
<1> QED
  BY <1>1, <1>2, <1>3, <1>4, <1>5 DEF RetryDrill

LEMMA CrossKeeps ==
  ASSUME Sound, FlowInv, TrialInv, FirstToSecond \/ SecondToFirst
  PROVE  TrialInv'
<1> USE DrillsAssumption
<1>1. trial.what = "cross"
  BY DEF FirstToSecond, SecondToFirst, TrialAt
<1>2. CASE FirstToSecond
  <2>1. \/ trial.at = "to other" /\ Acts(MoveFolder(HomeSource, OtherSource), "left home")
        \/ trial.at = "left home" /\ Withdrawn(HomeSource, "at other")
        \/ /\ trial.at = "at other"
           /\ Published(OtherSource, version[OtherSource].cand \notin trial.seen
                                       /\ PathCurrent(OtherSource), "to home")
    BY <1>2 DEF FirstToSecond, TrialAt
  <2> QED
    BY <1>1, <2>1, CrossActs, LeftSeen, ArrivalSeen
<1>3. CASE SecondToFirst
  <2>1. \/ trial.at = "to home" /\ Acts(MoveFolder(OtherSource, HomeSource), "left other")
        \/ trial.at = "left other" /\ Withdrawn(OtherSource, "at home")
        \/ /\ trial.at = "at home"
           /\ Published(HomeSource, version[HomeSource].cand \notin trial.seen
                                      /\ PathCurrent(HomeSource), "done")
    BY <1>3 DEF SecondToFirst, TrialAt, Candidate
  <2> QED
    BY <1>1, <2>1, CrossActs, LeftSeen, ArrivalSeen
<1> QED
  BY <1>2, <1>3

LEMMA MoveDrillKeeps ==
  ASSUME Sound, FlowInv, TrialInv, MoveDrill
  PROVE  TrialInv'
  BY FirstActs, FirstPublished, MoveActs, RenameSeen, OutSeen, BackSeen, CrossKeeps
     DEF MoveDrill

LEMMA TrialStep ==
  ASSUME Sound, FlowInv, Sound', TrialInv, [DrillsStep]_drillVars
  PROVE  TrialInv'
<1>1. CASE WeKnoraStep /\ UNCHANGED trial
  BY <1>1, TrialKept
<1>2. CASE UserStep \/ EmbeddingReturns
  BY <1>2 DEF UserStep, EmbeddingReturns, Free, TrialInv
<1>3. CASE UNCHANGED drillVars
  <2>1. /\ UNCHANGED trial /\ UNCHANGED <<file, version, rows, job, embedding, outbox, received>>
        /\ UNCHANGED <<disp, outcome, runs, trouble>> /\ Looked
    BY <1>3 DEF drillVars, indexVars, versionVars, publicationVars, Looked
  <2>2. Calm => Calm'
    BY <2>1, LookedFacts
  <2>3. FileKnown => FileKnown'
    BY <2>1 DEF FileKnown, FilePlace, On
  <2>4. \A k : (Passed(k) => Passed(k)') /\ (Retired(k) => Retired(k)')
    BY <2>1, LookedFacts
  <2>5. KeptCandidate => KeptCandidate'
    BY <2>1 DEF KeptCandidate, Named
  <2>6. RestKnown => RestKnown'
    BY <2>1, <2>5, LookedFacts DEF RestKnown, On
  <2>7. /\ LastFailed => LastFailed'
        /\ Tracked => Tracked'
        /\ SeenParsed => SeenParsed'
        /\ HandsLast => HandsLast'
    BY <2>1, <2>4 DEF LastFailed, Tracked, SeenParsed, HandsLast, RetryClaimed,
                      ReplacementFailed, Named
  <2>8. RetryKnown => RetryKnown'
    BY <2>1, <2>7, LookedFacts DEF RetryKnown, On
  <2>9. (MoveKnown => MoveKnown') /\ (CrossKnown => CrossKnown')
    BY <2>1, <2>4, <2>5, <2>7, LookedFacts DEF MoveKnown, CrossKnown, On
  <2> QED
    BY <2>1, <2>2, <2>3, <2>4, <2>6, <2>8, <2>9 DEF TrialInv
<1> QED
  BY <1>1, <1>2, <1>3, RetryDrillKeeps, MoveDrillKeeps DEF DrillsStep

(* No requirement of the drills that does not race with the system fails: where a drill waits
   until its hints are applied and a candidate is readable, what it then demands of that
   candidate, of the one before it and of the tombstones holds.                       *)
THEOREM DrillChecksCorrect == DrillsSpec => []DrillChecksHold
<1> DEFINE Inv == Sound /\ FlowInv /\ TrialInv
<1>1. DrillsInit => Inv
  BY DrillsStart, TrialStart
<1>2. Inv /\ [DrillsStep]_drillVars => Inv'
  BY StepKeeps, TrialStep
<1>3. Inv => DrillChecksHold
  BY DEF TrialInv, DrillChecksHold
<1> QED
  BY <1>1, <1>2, <1>3, PTL DEF DrillsSpec
=============================================================================
