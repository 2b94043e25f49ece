---------------------------- MODULE Tools_proofs -----------------------------
(***************************************************************************)
(* The operators' tools one by one, for every value of the constants: the  *)
(* asset download, the rebind, the restore drill, the synthetic fixture,   *)
(* the pilot of the original volume, the drivers of source trust, the      *)
(* drill of pending aborts and the publication recovery ledger with the    *)
(* cold checkpoint and the replay that it serves.  Each                    *)
(* has an inductive invariant over its own state, shown from its own       *)
(* steps; Operations_proofs joins them.                                    *)
(***************************************************************************)
EXTENDS AssetDownload, ColdRecovery, EventRebind, RestoreDrill, SyntheticFixture, PilotVolume,
        SourceDriver, AbortSmoke, SequenceTheorems, FiniteSetTheorems, TLAPS

-----------------------------------------------------------------------------
(* The download: at each of its steps, where the blocks of its tag are. *)
DownloadPlaces ==
  {"idle", "open", "import", "fetch", "drain", "clear", "verify", "unreachable", "delivered",
   "corrupt", "drop"}
DownloadTypes ==
  /\ part \in [Tags -> [Chunks -> Blocks \cup {"none"}]]
  /\ asset \in [Tags -> Seq(Blocks)]
  /\ download \in [pc : DownloadPlaces, tag : Tags \cup {0}, running : SUBSET Chunks]
  /\ download.pc # "idle" => download.tag \in Tags
  /\ outcome \in [Tags -> [status : {"unseen", "success", "rejected"}, attempts : Nat]]
FetchedOnce ==
  /\ download.pc \notin {"fetch", "drain"} => download.running = {}
  /\ download.pc \in {"fetch", "drain"} =>
       /\ download.running \subseteq Missing(download.tag)
       /\ \A c \in Chunks : c <= Len(asset[download.tag]) => part[download.tag][c] # "none"
Assembled ==
  /\ download.pc = "clear" =>
       /\ WholeAsset(asset[download.tag])
       /\ \A c \in Chunks : asset[download.tag][c] = part[download.tag][c]
  /\ download.pc = "verify" => WholeAsset(asset[download.tag])
  /\ download.pc = "drop" => outcome[download.tag].status = "success"
DownloadInv == DownloadTypes /\ FetchedOnce /\ Assembled

LEMMA DownloadBegins == DownloadInit => DownloadInv
<1> SUFFICES ASSUME DownloadInit PROVE DownloadInv
  OBVIOUS
<1>1. part \in [Tags -> [Chunks -> Blocks \cup {"none"}]]
  BY DEF DownloadInit, NoPart
<1>2. asset \in [Tags -> Seq(Blocks)]
  <2>1. \A b \in Blocks : <<b>> \in Seq(Blocks)
    OBVIOUS
  <2>2. <<>> \in Seq(Blocks)
    OBVIOUS
  <2>3. PICK first \in Seq(Blocks) : asset = [t \in Tags |-> IF t = 1 THEN first ELSE <<>>]
    BY <2>1, <2>2 DEF DownloadInit
  <2> QED  BY <2>2, <2>3
<1>3. /\ download.pc = "idle" /\ download.running = {} /\ outcome \in [Tags -> [status : {"unseen", "success", "rejected"}, attempts : Nat]]
      /\ download \in [pc : DownloadPlaces, tag : Tags \cup {0}, running : SUBSET Chunks]
  BY DEF DownloadInit, NoDownload, DownloadPlaces
<1> QED  BY <1>1, <1>2, <1>3 DEF DownloadInv, DownloadTypes, FetchedOnce, Assembled

LEMMA BlocksStay ==
  ASSUME UNCHANGED <<part, asset>> PROVE FetchedBlocksKept
BY DEF FetchedBlocksKept, Holds, BlockOf

LEMMA DownloadGoesOn ==
  DownloadInv /\ [DownloadStep]_downloadVars => DownloadInv' /\ FetchedBlocksKept
<1> SUFFICES ASSUME DownloadInv, [DownloadStep]_downloadVars
             PROVE  DownloadInv' /\ FetchedBlocksKept
  OBVIOUS
<1>0. NChunks \in Nat \ {0} /\ Chunks = 1..NChunks /\ <<>> \in Seq(Blocks) /\ Len(<<>>) = 0
      /\ NoPart \in [Chunks -> Blocks \cup {"none"}]
  BY DownloadAssumption DEF Chunks, NoPart
<1> USE DEF DownloadInv, DownloadTypes, DownloadPlaces, FetchedOnce, Assembled, WholeAsset, Idle
<1> DEFINE t == download.tag
<1>1. CASE \E s \in Tags : StartDownload(s)
  BY <1>1, BlocksStay DEF StartDownload
<1>2. CASE OpenCache
  <2>1. /\ download.pc = "open" /\ t \in Tags /\ UNCHANGED outcome
        /\ download'.tag = t /\ download'.pc \in {"import", "verify"} /\ download'.running = {}
        /\ download' \in [pc : DownloadPlaces, tag : Tags \cup {0}, running : SUBSET Chunks]
    BY <1>2 DEF OpenCache
  <2>2. CASE WholeAsset(asset[t]) /\ ~Verified(asset[t])
    <3>1. /\ part' = [part EXCEPT ![t] = NoPart] /\ asset' = [asset EXCEPT ![t] = <<>>]
          /\ download'.pc = "import"
      BY <1>2, <2>2 DEF OpenCache
    <3>2. FetchedBlocksKept
      BY <3>1, <2>1, <2>2 DEF FetchedBlocksKept, Holds, BlockOf
    <3> QED  BY <1>0, <2>1, <3>1, <3>2
  <2>3. CASE ~(WholeAsset(asset[t]) /\ ~Verified(asset[t]))
    <3>1. UNCHANGED <<part, asset>> /\ (download'.pc = "verify" => WholeAsset(asset[t]))
      BY <1>2, <2>3 DEF OpenCache
    <3> QED  BY <2>1, <3>1, BlocksStay
  <2> QED  BY <2>2, <2>3
<1>3. CASE ImportPrefix
  <2> DEFINE new == [c \in Chunks |->
           IF part[t][c] = "none" /\ c <= Len(asset[t]) THEN asset[t][c] ELSE part[t][c]]
  <2>1. /\ download.pc = "import" /\ t \in Tags /\ UNCHANGED <<asset, outcome>>
        /\ part' = [part EXCEPT ![t] = new]
        /\ download' = [download EXCEPT !.pc = "fetch"]
    BY <1>3 DEF ImportPrefix
  <2>2. \A c \in Chunks : c <= Len(asset[t]) => asset[t][c] \in Blocks
    BY <1>0, <2>1
  <2>3. new \in [Chunks -> Blocks \cup {"none"}]
    BY <2>1, <2>2
  <2>4. \A c \in Chunks : c <= Len(asset[t]) => new[c] # "none"
    BY <2>2 DEF Blocks
  <2>5. \A c \in Chunks : part[t][c] # "none" => new[c] = part[t][c]
    OBVIOUS
  <2>6. \A c \in Chunks : part[t][c] = "none" /\ c <= Len(asset[t]) => new[c] = asset[t][c]
    OBVIOUS
  <2> HIDE DEF new
  <2>7. part'[t] = new /\ \A s \in Tags : s # t => part'[s] = part[s]
    BY <2>1
  <2>8. FetchedBlocksKept
    BY <2>1, <2>4, <2>5, <2>6, <2>7 DEF FetchedBlocksKept, Holds, BlockOf
  <2>9. DownloadTypes'
    BY <2>1, <2>3
  <2>10. FetchedOnce'
    <3>1. download'.running = {} /\ download'.tag = t
      BY <2>1
    <3> QED  BY <2>1, <2>4, <2>7, <3>1
  <2> QED  BY <2>1, <2>8, <2>9, <2>10
<1>4. CASE \E c \in Chunks : Schedule(c)
  <2>1. PICK c \in Chunks : Schedule(c)
    BY <1>4
  <2>2. /\ download.pc = "fetch" /\ c \in Missing(t) /\ UNCHANGED <<part, asset, outcome>>
        /\ download' = [download EXCEPT !.running = @ \cup {c}] /\ t \in Tags
    BY <2>1 DEF Schedule
  <2>3. /\ download'.pc = "fetch" /\ download'.tag = t /\ download'.running = download.running \cup {c}
        /\ Missing(t)' = Missing(t)
    BY <2>2 DEF Missing
  <2>4. DownloadTypes'
    BY <2>2
  <2> QED  BY <2>2, <2>3, <2>4, BlocksStay DEF Missing
<1>5. CASE \E c \in Chunks, block \in Blocks : FetchChunk(c, block)
  <2>1. PICK c \in Chunks, block \in Blocks : FetchChunk(c, block)
    BY <1>5
  <2>2. /\ download.pc \in {"fetch", "drain"} /\ c \in download.running /\ t \in Tags
        /\ part' = [part EXCEPT ![t][c] = block] /\ UNCHANGED <<asset, outcome>>
        /\ download' = [download EXCEPT !.running = @ \ {c}]
    BY <2>1 DEF FetchChunk
  <2>3. c \in Missing(t) /\ ~(c <= Len(asset[t])) /\ block # "none"
    BY <2>2 DEF Missing, Blocks
  <2>4. /\ download'.pc = download.pc /\ download'.tag = t /\ download'.running = download.running \ {c}
        /\ part'[t][c] = block /\ \A d \in Chunks : d # c => part'[t][d] = part[t][d]
        /\ \A s \in Tags : s # t => part'[s] = part[s]
    BY <2>2
  <2>5. FetchedBlocksKept
    BY <2>2, <2>3, <2>4 DEF FetchedBlocksKept, Holds, BlockOf, Missing
  <2>6. DownloadTypes'
    BY <2>2
  <2>7. FetchedOnce'
    BY <2>2, <2>3, <2>4 DEF Missing
  <2> QED  BY <2>2, <2>4, <2>5, <2>6, <2>7
<1>6. CASE \E c \in Chunks : ChunkFails(c)
  <2>1. PICK c \in Chunks : ChunkFails(c)
    BY <1>6
  <2>2. /\ download.pc \in {"fetch", "drain"} /\ UNCHANGED <<part, asset, outcome>> /\ t \in Tags
        /\ download' = [download EXCEPT !.pc = "drain", !.running = @ \ {c}]
    BY <2>1 DEF ChunkFails
  <2>3. download'.pc = "drain" /\ download'.tag = t /\ download'.running \subseteq download.running
    BY <2>2
  <2>4. DownloadTypes'
    BY <2>2
  <2>5. FetchedOnce'
    BY <2>2, <2>3 DEF Missing
  <2> QED  BY <2>2, <2>3, <2>4, <2>5, BlocksStay
<1>7. CASE PoolJoined
  BY <1>7, BlocksStay DEF PoolJoined
<1>8. CASE Assemble
  <2> DEFINE whole == [c \in Chunks |-> part[t][c]]
  <2>1. /\ download.pc = "fetch" /\ Missing(t) = {} /\ t \in Tags /\ UNCHANGED <<part, outcome>>
        /\ asset' = [asset EXCEPT ![t] = whole] /\ download' = [download EXCEPT !.pc = "clear"]
    BY <1>8 DEF Assemble
  <2>2. \A c \in Chunks : part[t][c] \in Blocks /\ part[t][c] # "none"
    BY <2>1 DEF Missing
  <2>3. whole \in Seq(Blocks) /\ Len(whole) = NChunks /\ \A c \in Chunks : whole[c] = part[t][c]
    BY <1>0, <2>2
  <2> HIDE DEF whole
  <2>4. asset'[t] = whole /\ \A s \in Tags : s # t => asset'[s] = asset[s]
    BY <2>1
  <2>5. FetchedBlocksKept
    BY <2>1, <2>2, <2>4 DEF FetchedBlocksKept, Holds, BlockOf
  <2>6. DownloadTypes'
    BY <2>1, <2>3
  <2> QED  BY <2>1, <2>3, <2>4, <2>5, <2>6
<1>9. CASE ClearChunks
  <2>1. /\ download.pc = "clear" /\ t \in Tags /\ UNCHANGED <<asset, outcome>>
        /\ part' = [part EXCEPT ![t] = NoPart] /\ download' = [download EXCEPT !.pc = "verify"]
    BY <1>9 DEF ClearChunks
  <2>2. /\ part'[t] = NoPart /\ \A s \in Tags : s # t => part'[s] = part[s]
        /\ \A c \in Chunks : NoPart[c] = "none"
    BY <2>1 DEF NoPart
  <2>3. \A c \in Chunks : c <= Len(asset[t]) /\ asset[t][c] = part[t][c]
    BY <1>0, <2>1
  <2>4. FetchedBlocksKept
    BY <2>1, <2>2, <2>3 DEF FetchedBlocksKept, Holds, BlockOf
  <2>5. DownloadTypes'
    BY <1>0, <2>1
  <2> QED  BY <2>1, <2>4, <2>5
<1>10. CASE VerifyAsset
  <2>1. download.pc = "verify" /\ t \in Tags /\ UNCHANGED outcome /\ WholeAsset(asset[t])
    BY <1>10 DEF VerifyAsset
  <2>2. CASE Verified(asset[t])
    BY <1>10, <2>1, <2>2, BlocksStay DEF VerifyAsset
  <2>3. CASE ~Verified(asset[t])
    <3>1. /\ part' = [part EXCEPT ![t] = NoPart] /\ asset' = [asset EXCEPT ![t] = <<>>]
          /\ download' = [download EXCEPT !.pc = "corrupt"]
      BY <1>10, <2>3 DEF VerifyAsset
    <3>2. \A s \in Tags : s # t => part'[s] = part[s] /\ asset'[s] = asset[s]
      BY <3>1
    <3>3. FetchedBlocksKept
      BY <2>1, <2>3, <3>2 DEF FetchedBlocksKept, Holds, BlockOf
    <3> QED  BY <1>0, <2>1, <3>1, <3>3
  <2> QED  BY <2>2, <2>3
<1>11. CASE DownloadFails
  <2>1. /\ t \in Tags /\ UNCHANGED <<part, asset>> /\ download' = NoDownload
    BY <1>11 DEF DownloadFails
  <2>2. outcome[t].attempts + 1 \in Nat
    BY <2>1
  <2>3. PICK n \in Nat, status \in {"unseen", "success", "rejected"} :
          outcome' = [outcome EXCEPT ![t] = [status |-> status, attempts |-> n]]
    <3>1. CASE download.pc = "unreachable"
      <4> DEFINE failed == outcome[t].attempts + 1
      <4>1. outcome' = [outcome EXCEPT ![t] =
              [status |-> IF failed < 3 THEN "unseen" ELSE "rejected", attempts |-> failed]]
        BY <1>11, <3>1 DEF DownloadFails
      <4> HIDE DEF failed
      <4> QED  BY <2>2, <4>1 DEF failed
    <3>2. CASE download.pc # "unreachable"
      <4>1. outcome' = [outcome EXCEPT ![t] = [outcome[t] EXCEPT !.status = "rejected"]]
        BY <1>11, <3>2 DEF DownloadFails
      <4>2. /\ outcome[t].attempts \in Nat
            /\ [outcome[t] EXCEPT !.status = "rejected"]
                 = [status |-> "rejected", attempts |-> outcome[t].attempts]
        BY <2>1
      <4> QED  BY <4>1, <4>2
    <3> QED  BY <3>1, <3>2
  <2>4. /\ download'.pc = "idle" /\ download'.running = {}
        /\ download' \in [pc : DownloadPlaces, tag : Tags \cup {0}, running : SUBSET Chunks]
    BY <2>1 DEF NoDownload
  <2>5. outcome' \in [Tags -> [status : {"unseen", "success", "rejected"}, attempts : Nat]]
    BY <2>1, <2>3
  <2> QED  BY <2>1, <2>4, <2>5, BlocksStay
<1>12. CASE ReleaseInstalled
  <2>1. /\ download.pc = "delivered" /\ t \in Tags /\ UNCHANGED <<part, asset>>
        /\ download' = [download EXCEPT !.pc = "drop"]
        /\ outcome' = [outcome EXCEPT ![t] = [outcome[t] EXCEPT !.status = "success"]]
    BY <1>12 DEF ReleaseInstalled
  <2>2. outcome'[t].status = "success"
    BY <2>1
  <2> QED  BY <2>1, <2>2, BlocksStay
<1>13. CASE DropCache
  <2>1. /\ download.pc = "drop" /\ t \in Tags /\ UNCHANGED outcome /\ download' = NoDownload
        /\ part' = [part EXCEPT ![t] = NoPart] /\ asset' = [asset EXCEPT ![t] = <<>>]
    BY <1>13 DEF DropCache
  <2>2. \A s \in Tags : s # t => part'[s] = part[s] /\ asset'[s] = asset[s]
    BY <2>1
  <2>3. FetchedBlocksKept
    BY <2>1, <2>2 DEF FetchedBlocksKept, Holds, BlockOf
  <2> QED  BY <1>0, <2>1, <2>3 DEF NoDownload
<1>14. CASE UpdaterKilled
  BY <1>14, BlocksStay DEF UpdaterKilled, NoDownload
<1>15. CASE UNCHANGED downloadVars
  BY <1>15, BlocksStay DEF downloadVars, Missing
<1> QED
  BY <1>1, <1>2, <1>3, <1>4, <1>5, <1>6, <1>7, <1>8, <1>9, <1>10, <1>11, <1>12, <1>13, <1>14,
     <1>15 DEF DownloadStep

-----------------------------------------------------------------------------
(* The rebind: what the tool knows at each of its places. *)
SenderRows ==
  [key : Nat, status : {"active", "paused"}, error : {"", "unauthorized", "rejected"},
   received : Nat, applied : Nat]
ReceiverRows ==
  [key : Nat, bound : BOOLEAN, received : Nat, dispatched : Nat, applied : Nat,
   dispatch : {"idle", "queued", "blocked"}]
Scopes == [key : Nat, sent : Nat, seen : Nat, received : Nat, dispatched : Nat, applied : Nat]
RebindPlaces ==
  {"idle", "inspect", "rebind", "sender", "receiver", "resume", "check", "done", "failed"}
RebindTypes ==
  /\ eSender \in SenderRows /\ eReceiver \in ReceiverRows
  /\ delivery \in [key : Nat, event : Nat, answer : {"none", "received", "unauthorized", "rejected"}]
  /\ rebinder \in [pc : RebindPlaces, sender : SenderRows \cup {[key |-> 0]}, before : Scopes,
                   rebound : Scopes, safe : BOOLEAN, after : Scopes,
                   report : {"none", "already_active", "resumed"}]
Onwards == {"sender", "receiver", "resume", "check", "done"}
ReboundKnown ==
  /\ rebinder.pc \in Onwards => eReceiver.bound /\ NotBehind(rebinder.rebound, rebinder.before)
  /\ rebinder.pc \in {"inspect", "receiver", "resume", "check"} => rebinder.sender \in SenderRows
  /\ rebinder.pc = "rebind" => rebinder.sender \in SenderRows
StoppedKnown ==
  rebinder.pc \in {"resume", "check"} =>
    /\ rebinder.sender.received = rebinder.before.sent
    /\ NotBehind(rebinder.after, rebinder.before)
ReportKnown == rebinder.report # "none" => rebinder.pc = "done"
RebindInv == RebindTypes /\ ReboundKnown /\ StoppedKnown /\ ReportKnown /\ ReportedOnce

LEMMA RebindBegins == RebindInit => RebindInv
<1> SUFFICES ASSUME RebindInit PROVE RebindInv
  OBVIOUS
<1>1. eSender \in SenderRows /\ eReceiver \in ReceiverRows
  <2>1. eSender \in [key : {1}, status : {"active"}, error : {""}, received : {0}, applied : {0}]
        /\ 0 \in Nat /\ 1 \in Nat
    BY DEF RebindInit
  <2>2. eSender \in SenderRows
    BY <2>1 DEF SenderRows
  <2>3. ASSUME NEW a \in Nat, NEW b \in Nat,
               eReceiver = [key |-> a, bound |-> FALSE, received |-> b, dispatched |-> b, applied |-> b,
                            dispatch |-> "idle"]
        PROVE  eReceiver \in ReceiverRows
    BY <2>3 DEF ReceiverRows
  <2> QED  BY <2>1, <2>2, <2>3 DEF RebindInit
<1>2. delivery \in [key : Nat, event : Nat, answer : {"none", "received", "unauthorized", "rejected"}]
  BY DEF RebindInit, NoDelivery
<1>3. NoScope \in Scopes
  BY DEF NoScope, Scopes
<1>4. rebinder \in [pc : RebindPlaces, sender : SenderRows \cup {[key |-> 0]}, before : Scopes,
                   rebound : Scopes, safe : BOOLEAN, after : Scopes,
                   report : {"none", "already_active", "resumed"}]
  BY <1>3 DEF RebindInit, NoRebind, RebindPlaces
<1>5. rebinder.pc = "idle" /\ rebinder.report = "none"
  BY DEF RebindInit, NoRebind
<1> QED
  BY <1>1, <1>2, <1>4, <1>5 DEF RebindInv, RebindTypes, ReboundKnown, StoppedKnown, ReportKnown,
     ReportedOnce, Onwards

LEMMA NotMoreThanItself == \A n \in Nat : n <= n
OBVIOUS

LEMMA NotBehindAdds ==
  ASSUME NEW a \in Scopes, NEW b \in Scopes, NEW c \in Scopes, NotBehind(a, b), NotBehind(b, c)
  PROVE  NotBehind(a, c)
<1>1. /\ a.received \in Nat /\ a.dispatched \in Nat /\ a.applied \in Nat
      /\ b.received \in Nat /\ b.dispatched \in Nat /\ b.applied \in Nat
      /\ c.received \in Nat /\ c.dispatched \in Nat /\ c.applied \in Nat
  BY DEF Scopes
<1> QED  BY <1>1 DEF NotBehind

LEMMA RebindNumbers ==
  ASSUME RebindInv
  PROVE  /\ eSender.key \in Nat /\ eSender.received \in Nat /\ eSender.received + 1 \in Nat
         /\ eReceiver.key \in Nat /\ eReceiver.key + 1 \in Nat
<1>1. eSender.key \in Nat /\ eSender.received \in Nat /\ eReceiver.key \in Nat
  BY DEF RebindInv, RebindTypes, SenderRows, ReceiverRows
<1> QED  BY <1>1

(* A dispatch status is safe or it is not. *)
LEMMA SafetyDecided == \A r : SafeDispatch(r) \in BOOLEAN
<1>1. ASSUME NEW S, NEW x PROVE (x \in S) \in BOOLEAN
  OBVIOUS
<1> QED  BY <1>1, Zenon DEF SafeDispatch

LEMMA RebindGoesOn ==
  RebindInv /\ [RebindStep]_rebindVars => RebindInv' /\ ResumesWhereItStopped
<1> SUFFICES ASSUME RebindInv, [RebindStep]_rebindVars
             PROVE  RebindInv' /\ ResumesWhereItStopped
  OBVIOUS
<1> USE DEF RebindInv, RebindTypes, ReboundKnown, StoppedKnown, ReportKnown, ReportedOnce, Onwards,
            RebindAt, ResumesWhereItStopped, NotBehind, SenderRows, ReceiverRows
<1>0. /\ Scopes = [key : Nat, sent : Nat, seen : Nat, received : Nat, dispatched : Nat, applied : Nat]
      /\ \A s \in SenderRows, r \in ReceiverRows : Scope(s, r) \in Scopes
      /\ NoScope \in Scopes
  BY DEF Scopes, Scope, NoScope
<1>Q. ASSUME Quits, UNCHANGED <<eSender, delivery>>, eReceiver' \in ReceiverRows
      PROVE  RebindInv' /\ ResumesWhereItStopped
  <2>1. [NoRebind EXCEPT !.pc = "failed"] \in
          [pc : RebindPlaces, sender : SenderRows \cup {[key |-> 0]}, before : Scopes,
           rebound : Scopes, safe : BOOLEAN, after : Scopes, report : {"none", "already_active", "resumed"}]
    <3>1. "failed" \in RebindPlaces
      BY DEF RebindPlaces
    <3> HIDE DEF Scopes, SenderRows
    <3> QED  BY <3>1, <1>0 DEF NoRebind
  <2>2. rebinder'.pc = "failed" /\ rebinder'.report = "none"
    BY <1>Q DEF Quits, NoRebind
  <2>3. rebinder' = [NoRebind EXCEPT !.pc = "failed"]
    BY <1>Q DEF Quits
  <2>4. eSender' \in SenderRows
        /\ delivery' \in [key : Nat, event : Nat, answer : {"none", "received", "unauthorized", "rejected"}]
    BY <1>Q
  <2>5. RebindTypes'
    <3> HIDE DEF SenderRows, ReceiverRows, NotBehind
    <3> QED  BY <1>Q, <2>1, <2>3, <2>4
  <2> QED  BY <1>Q, <2>2, <2>5
<1>K. ASSUME UNCHANGED rebinder, eSender' \in SenderRows, eReceiver' \in ReceiverRows,
             eReceiver.bound => eReceiver'.bound,
             delivery' \in [key : Nat, event : Nat, answer : {"none", "received", "unauthorized", "rejected"}]
      PROVE  RebindInv' /\ ResumesWhereItStopped
  BY <1>K
<1>1. CASE PostHint
  <2>1. eSender.key \in Nat /\ eSender.received + 1 \in Nat
    BY RebindNumbers
  <2>2. ASSUME NEW k \in Nat, NEW n \in Nat, delivery' = [key |-> k, event |-> n, answer |-> "none"]
        PROVE  RebindInv' /\ ResumesWhereItStopped
    <3>1. delivery' \in [key : Nat, event : Nat, answer : {"none", "received", "unauthorized", "rejected"}]
      BY <2>2
    <3>2. UNCHANGED <<eSender, eReceiver, rebinder>>
      BY <1>1 DEF PostHint
    <3> QED  BY <3>1, <3>2, <1>K
  <2>3. delivery' = [key |-> eSender.key, event |-> eSender.received + 1, answer |-> "none"]
    BY <1>1 DEF PostHint
  <2> HIDE DEF RebindInv, ResumesWhereItStopped
  <2> QED  BY <2>1, <2>2, <2>3
<1>2. CASE AcceptHint
  <2>1. \/ UNCHANGED eReceiver
        \/ eReceiver' = [eReceiver EXCEPT !.received = delivery.event, !.dispatch = "queued"]
    BY <1>2 DEF AcceptHint
  <2>2. delivery.event \in Nat
    OBVIOUS
  <2>3. eReceiver' \in ReceiverRows /\ eReceiver'.bound = eReceiver.bound
    BY <2>1, <2>2
  <2>4. \E answer \in {"received", "unauthorized", "rejected"} :
          delivery' = [delivery EXCEPT !.answer = answer]
    BY <1>2 DEF AcceptHint
  <2>5. delivery' \in [key : Nat, event : Nat, answer : {"none", "received", "unauthorized", "rejected"}]
    BY <2>4
  <2> QED  BY <1>2, <2>3, <2>5, <1>K DEF AcceptHint
<1>3. CASE TakeAnswer
  BY <1>3, <1>K DEF TakeAnswer, NoDelivery
<1>4. CASE DispatchHints
  BY <1>4, <1>K DEF DispatchHints
<1>5. CASE PollApplied
  BY <1>5, <1>K DEF PollApplied
<1>6. CASE RetryElsewhere
  BY <1>6, <1>K DEF RetryElsewhere
<1>7. CASE RotateEventKey
  <2>1. ASSUME NEW k \in Nat, UNCHANGED <<delivery, rebinder>>,
               \/ eReceiver' = [eReceiver EXCEPT !.key = k] /\ UNCHANGED eSender
               \/ eSender' = [eSender EXCEPT !.key = k, !.status = "active", !.error = ""]
                  /\ UNCHANGED eReceiver
        PROVE  RebindInv' /\ ResumesWhereItStopped
    <3>1. CASE eReceiver' = [eReceiver EXCEPT !.key = k] /\ UNCHANGED eSender
      <4>1. eReceiver' \in ReceiverRows /\ eReceiver'.bound = eReceiver.bound
        BY <2>1, <3>1
      <4> QED  BY <4>1, <2>1, <3>1, <1>K
    <3>2. CASE eSender' = [eSender EXCEPT !.key = k, !.status = "active", !.error = ""]
               /\ UNCHANGED eReceiver
      <4>1. eSender' \in SenderRows
        BY <2>1, <3>2
      <4> QED  BY <4>1, <2>1, <3>2, <1>K
    <3> QED  BY <2>1, <3>1, <3>2
  <2>2. eReceiver.key + 1 \in Nat /\ eReceiver.key \in Nat
    BY RebindNumbers
  <2> QED  BY <1>7, <2>1, <2>2 DEF RotateEventKey
<1>8. CASE InspectSender
  BY <1>8, <1>0 DEF InspectSender, ReadSender, RebindPlaces
<1>9. CASE InspectReceiver
  <2>1. /\ rebinder.pc = "inspect" /\ UNCHANGED <<eSender, eReceiver, delivery>>
        /\ Quits \/ rebinder' = [rebinder EXCEPT !.pc = "rebind", !.before = Scope(rebinder.sender, eReceiver)]
    BY <1>9 DEF InspectReceiver
  <2>2. ASSUME NEW scope \in Scopes,
               rebinder' = [rebinder EXCEPT !.pc = "rebind", !.before = scope]
        PROVE  RebindInv' /\ ResumesWhereItStopped
    <3>1. RebindTypes'
      BY <2>1, <2>2 DEF RebindPlaces
    <3>2. /\ rebinder'.pc = "rebind" /\ rebinder'.sender = rebinder.sender
          /\ rebinder'.report = rebinder.report
      BY <2>2
    <3> QED  BY <2>1, <3>1, <3>2
  <2>3. Scope(rebinder.sender, eReceiver) \in Scopes
    BY <2>1, <1>0
  <2> QED  BY <2>1, <2>2, <2>3, <1>Q
<1>10. CASE RebindReceiver
  <2>1. rebinder.pc = "rebind" /\ UNCHANGED <<eSender, delivery>>
        /\ eReceiver' \in {eReceiver, [eReceiver EXCEPT !.bound = TRUE]}
    BY <1>10 DEF RebindReceiver
  <2>2. eReceiver' \in ReceiverRows
    BY <2>1
  <2>3. CASE ~Quits
    <3>1. /\ eReceiver' = [eReceiver EXCEPT !.bound = TRUE] /\ NotBehind(eReceiver, rebinder.before)
          /\ rebinder' = [rebinder EXCEPT !.pc = "sender", !.safe = SafeDispatch(eReceiver),
                                         !.rebound = Scope(rebinder.sender, eReceiver)]
      BY <1>10, <2>3 DEF RebindReceiver
    <3>2. ASSUME NEW scope \in Scopes, NEW known \in BOOLEAN, NotBehind(scope, rebinder.before),
                 rebinder' = [rebinder EXCEPT !.pc = "sender", !.safe = known, !.rebound = scope]
          PROVE  RebindInv' /\ ResumesWhereItStopped
      <4>1. RebindTypes'
        BY <2>1, <2>2, <3>2 DEF RebindPlaces
      <4>2. /\ rebinder'.pc = "sender" /\ rebinder'.sender = rebinder.sender
            /\ rebinder'.before = rebinder.before /\ rebinder'.rebound = scope
            /\ rebinder'.report = rebinder.report
        BY <3>2
      <4>3. eReceiver'.bound
        BY <3>1
      <4> QED  BY <2>1, <3>2, <4>1, <4>2, <4>3
    <3>3. Scope(rebinder.sender, eReceiver) \in Scopes
      BY <2>1, <1>0
    <3>4. NotBehind(Scope(rebinder.sender, eReceiver), rebinder.before)
      BY <3>1 DEF Scope
    <3>5. SafeDispatch(eReceiver) \in BOOLEAN
      BY SafetyDecided
    <3> HIDE DEF RebindInv, ResumesWhereItStopped
    <3> QED  BY <3>1, <3>2, <3>3, <3>4, <3>5
  <2> QED  BY <2>1, <2>2, <2>3, <1>Q
<1>11. CASE RereadSender
  BY <1>11, <1>0 DEF RereadSender, ReadSender, RebindPlaces
<1>12. CASE RereadReceiver
  <2>1. rebinder.pc = "receiver" /\ UNCHANGED <<eSender, eReceiver, delivery>>
        /\ rebinder.sender \in SenderRows
    BY <1>12 DEF RereadReceiver
  <2> DEFINE s == rebinder.sender
             scope == Scope(s, eReceiver)
  <2>2. CASE ~Quits
    <3>1. /\ SameConnection(s)
          /\ \/ rebinder' = [rebinder EXCEPT !.pc = "done", !.after = scope, !.report = "already_active"]
             \/ /\ s.received = rebinder.before.sent
                /\ rebinder' = [rebinder EXCEPT !.pc = "resume", !.after = scope]
      BY <1>12, <2>2 DEF RereadReceiver, StoppedByRotation
    <3>2. scope \in Scopes
      BY <2>1, <1>0
    <3>3. /\ scope.key = rebinder.before.key /\ NotBehind(scope, rebinder.rebound)
          /\ rebinder.before.sent <= scope.sent /\ scope.sent <= scope.received
      BY <3>1 DEF SameConnection, ScopeChecked, Scope
    <3>4. NotBehind(scope, rebinder.before)
      <4>1. rebinder.before \in Scopes /\ rebinder.rebound \in Scopes /\ NotBehind(rebinder.rebound, rebinder.before)
        BY <2>1
      <4> QED  BY <3>2, <3>3, <4>1, NotBehindAdds
    <3> HIDE DEF scope
    <3>5. CASE rebinder' = [rebinder EXCEPT !.pc = "done", !.after = scope, !.report = "already_active"]
      <4>1. RebindTypes'
        BY <2>1, <3>2, <3>5 DEF RebindPlaces
      <4>2. /\ rebinder'.pc = "done" /\ rebinder'.before = rebinder.before
            /\ rebinder'.rebound = rebinder.rebound /\ rebinder'.after = scope
        BY <3>5
      <4> QED  BY <2>1, <3>3, <3>4, <4>1, <4>2
    <3>6. CASE /\ s.received = rebinder.before.sent
               /\ rebinder' = [rebinder EXCEPT !.pc = "resume", !.after = scope]
      <4>1. RebindTypes'
        BY <2>1, <3>2, <3>6 DEF RebindPlaces
      <4>2. /\ rebinder'.pc = "resume" /\ rebinder'.before = rebinder.before
            /\ rebinder'.rebound = rebinder.rebound /\ rebinder'.after = scope
            /\ rebinder'.sender = rebinder.sender /\ rebinder'.report = rebinder.report
        BY <3>6
      <4> QED  BY <2>1, <3>3, <3>4, <3>6, <4>1, <4>2
    <3> QED  BY <3>1, <3>5, <3>6
  <2> QED  BY <2>1, <2>2, <1>Q
<1>13. CASE ResumeSender
  <2>1. rebinder.pc = "resume" /\ UNCHANGED <<eReceiver, delivery>>
    BY <1>13 DEF ResumeSender
  <2>2. CASE Quits /\ UNCHANGED eSender
    BY <2>1, <2>2, <1>Q
  <2>3. CASE /\ AsInspected /\ eSender' = [eSender EXCEPT !.status = "active"]
             /\ rebinder' = [rebinder EXCEPT !.pc = "check", !.sender = eSender']
    <3>1. eSender' \in SenderRows /\ eSender'.received = eSender.received
      BY <2>3
    <3>2. /\ rebinder'.pc = "check" /\ rebinder'.before = rebinder.before
          /\ rebinder'.rebound = rebinder.rebound /\ rebinder'.after = rebinder.after
          /\ rebinder'.sender = eSender' /\ rebinder'.report = rebinder.report
      BY <2>3
    <3>3. RebindTypes'
      <4> DEFINE e == eSender'
      <4> HIDE DEF e
      <4>1. rebinder' = [rebinder EXCEPT !.pc = "check", !.sender = e] /\ e \in SenderRows
        BY <2>3, <3>1 DEF e
      <4> QED  BY <2>1, <3>1, <4>1 DEF RebindPlaces
    <3>4. eSender.received = rebinder.before.sent /\ eSender.key = rebinder.before.key
      BY <2>1, <2>3 DEF AsInspected
    <3>5. rebinder.report = "none" /\ rebinder'.report = "none"
      BY <2>1, <3>2
    <3>6. ReboundKnown'
      <4>1. eReceiver.bound /\ NotBehind(rebinder.rebound, rebinder.before)
        BY <2>1
      <4>2. eReceiver'.bound /\ NotBehind(rebinder.rebound, rebinder.before)'
        BY <4>1, <2>1, <3>2
      <4>3. rebinder'.sender \in SenderRows /\ rebinder'.pc = "check"
        BY <3>1, <3>2
      <4> QED  BY <4>2, <4>3
    <3>7. StoppedKnown'
      <4>1. NotBehind(rebinder.after, rebinder.before)
        BY <2>1
      <4>2. NotBehind(rebinder.after, rebinder.before)'
        BY <4>1, <3>2
      <4>3. rebinder'.sender.received = rebinder'.before.sent
        BY <3>1, <3>2, <3>4
      <4> QED  BY <4>2, <4>3
    <3>8. ReportKnown' /\ ReportedOnce'
      BY <3>5
    <3>9. ResumesWhereItStopped
      BY <3>4
    <3>10. RebindInv'
      BY <3>3, <3>6, <3>7, <3>8 DEF RebindInv
    <3> QED  BY <3>9, <3>10
  <2> QED  BY <1>13, <2>2, <2>3 DEF ResumeSender
<1>14. CASE CheckResumed
  <2>1. rebinder.pc = "check" /\ UNCHANGED <<eSender, eReceiver, delivery>>
        /\ rebinder.sender \in SenderRows
    BY <1>14 DEF CheckResumed
  <2> DEFINE scope == Scope(rebinder.sender, eReceiver)
  <2>2. CASE ~Quits
    <3>1. /\ ScopeChecked(rebinder.sender, eReceiver) /\ NotBehind(eReceiver, rebinder.after)
          /\ rebinder.sender.key = rebinder.before.key
          /\ rebinder' = [rebinder EXCEPT !.pc = "done", !.report = "resumed", !.after = scope]
      BY <1>14, <2>2 DEF CheckResumed
    <3>2. scope \in Scopes
      BY <2>1, <1>0
    <3>3. /\ scope.key = rebinder.before.key /\ NotBehind(scope, rebinder.after)
          /\ rebinder.before.sent = scope.sent /\ scope.sent <= scope.received
      BY <2>1, <3>1 DEF ScopeChecked, Scope
    <3>4. NotBehind(scope, rebinder.before)
      <4>1. rebinder.before \in Scopes /\ rebinder.after \in Scopes /\ NotBehind(rebinder.after, rebinder.before)
        BY <2>1
      <4> QED  BY <3>2, <3>3, <4>1, NotBehindAdds
    <3>5. scope.sent \in Nat
      BY <3>2 DEF Scopes
    <3> HIDE DEF scope
    <3>6. RebindTypes'
      BY <2>1, <3>1, <3>2 DEF RebindPlaces
    <3>7. /\ rebinder'.pc = "done" /\ rebinder'.before = rebinder.before
          /\ rebinder'.rebound = rebinder.rebound /\ rebinder'.after = scope
      BY <3>1
    <3>8. rebinder.before.sent <= scope.sent
      BY <3>3, <3>5, NotMoreThanItself, Zenon
    <3> QED  BY <2>1, <3>3, <3>4, <3>6, <3>7, <3>8
  <2> QED  BY <2>1, <2>2, <1>Q
<1>15. CASE UNCHANGED rebindVars
  BY <1>15, <1>K DEF rebindVars
<1> QED
  BY <1>1, <1>2, <1>3, <1>4, <1>5, <1>6, <1>7, <1>8, <1>9, <1>10, <1>11, <1>12, <1>13, <1>14,
     <1>15 DEF RebindStep

-----------------------------------------------------------------------------
(* The restore drills: who made what the daemon holds, and what the drill wrote down
   before it asked. *)
WeKnora == <<"weknora-app", 0>>
FenceAt == 4 * NArchives + 5
DrillFields ==
  {"mode", "at", "phase", "status", "volumes", "containers", "network", "attempted", "started",
   "staged", "fenced", "claimed", "failed", "cleaned", "foreignActs"}
DrillTypes ==
  /\ DOMAIN drill = DrillFields
  /\ drill = [field \in DrillFields |-> drill[field]]
  /\ drill.mode \in Modes /\ drill.at \in Nat \ {0}
  /\ \A r \in docker :
       /\ r = Resource(r.kind, r.role, r.by, r.uses)
       /\ r.kind \in {"volume", "network", "container"} /\ r.by \in {"drill", "foreign"}
AttemptNamed == drill.phase \in {"create", "record", "start"} => Current.role \in drill.attempted
CleanedIsOver == drill.cleaned => drill.status # "INCOMPLETE"
FenceFirst ==
  /\ drill.mode = "application" /\ drill.at > FenceAt => drill.fenced
  /\ drill.at = FenceAt /\ drill.mode = "application" =>
       drill.phase \notin {"create", "record", "start"}
  /\ WeKnora \in drill.started => drill.mode = "application" /\ drill.fenced
DrillInv ==
  /\ DrillTypes /\ AttemptNamed /\ CleanedIsOver /\ FenceFirst
  /\ CompleteLeavesNothing /\ RetainedIsReported /\ NoCapturedTaskRuns

JobNames == {"volume", "extract", "links", "audit", "network", "postgres", "redis", "openldap",
             "app-code", "nextcloud-app", "weknora-app"}
OpNames == {"volume", "helper", "skip", "network", "database", "runtime", "stage", "fence",
            "fences-hold"}
Jobs == JobNames \X Nat
AllSteps == [op : OpNames, role : Jobs, uses : SUBSET Jobs]

LEMMA StepsOfRestore ==
  /\ RestoreVolumes \in Seq(AllSteps) /\ Len(RestoreVolumes) = 4 * NArchives
  /\ \A i \in 1..(4 * NArchives) : RestoreVolumes[i].role # WeKnora
<1>1. NArchives \in Nat \ {0} /\ 4 * NArchives \in Nat
  BY DrillAssumption
<1>2. ASSUME NEW i \in 1..(4 * NArchives)
      PROVE  RestoreVolumes[i] \in AllSteps /\ RestoreVolumes[i].role # WeKnora
  <2> DEFINE n == (i + 3) \div 4
  <2>1. n \in Nat
    BY <1>1
  <2>2. RestoreVolumes[i] \in
          {Step("volume", <<"volume", n>>, {}), Step("helper", <<"extract", n>>, {<<"volume", n>>}),
           Step("helper", <<"links", n>>, {<<"volume", n>>}),
           Step("skip", <<"links", n>>, {<<"volume", n>>}),
           Step("helper", <<"audit", n>>, {<<"volume", n>>})}
    BY <1>1 DEF RestoreVolumes, VolumeOf
  <2> HIDE DEF n
  <2>3. <<"volume", n>> \in Jobs /\ <<"extract", n>> \in Jobs /\ <<"links", n>> \in Jobs
        /\ <<"audit", n>> \in Jobs
    BY <2>1 DEF Jobs, JobNames
  <2> QED  BY <2>2, <2>3 DEF Step, AllSteps, OpNames, WeKnora
<1>3. RestoreVolumes = [i \in 1..(4 * NArchives) |-> RestoreVolumes[i]]
  BY DEF RestoreVolumes
<1> QED  BY <1>1, <1>2, <1>3

LEMMA StepsOfDatabases ==
  /\ VerifyDatabases \in Seq(AllSteps)
  /\ \A i \in 1..Len(VerifyDatabases) : VerifyDatabases[i].role # WeKnora
<1>1. NArchives \in Nat /\ Network \in Jobs /\ VolumeOf(1) \in Jobs /\ VolumeOf(NArchives) \in Jobs
      /\ <<"postgres", 0>> \in Jobs /\ <<"redis", 0>> \in Jobs
  BY DrillAssumption DEF Network, VolumeOf, Jobs, JobNames
<1> HIDE DEF Network, VolumeOf
<1>2. /\ Step("network", Network, {}) \in AllSteps
      /\ Step("database", <<"postgres", 0>>, {Network, VolumeOf(1)}) \in AllSteps
      /\ Step("database", <<"redis", 0>>, {Network, VolumeOf(NArchives)}) \in AllSteps
  BY <1>1 DEF Step, AllSteps, OpNames
<1> QED  BY <1>2 DEF VerifyDatabases, Step, WeKnora, Network

LEMMA StepsOfApplication ==
  /\ ApplicationValidation \in Seq(AllSteps) /\ Len(ApplicationValidation) >= 5
  /\ \A i \in 1..5 : ApplicationValidation[i].role # WeKnora
  /\ ApplicationValidation[5].op = "fence"
<1>1. /\ NArchives \in Nat /\ NArchives + 1 \in Nat /\ NArchives + 2 \in Nat
      /\ \A name \in JobNames, n \in Nat : <<name, n>> \in Jobs
  BY DrillAssumption DEF Jobs
<1>2. Network \in Jobs /\ LdapCache \in Jobs /\ DataCache \in Jobs /\ VolumeOf(1) \in Jobs
      /\ VolumeOf(NArchives) \in Jobs
  BY <1>1 DEF Network, LdapCache, DataCache, VolumeOf, JobNames
<1>3. ASSUME NEW op \in OpNames, NEW role \in Jobs, NEW uses \in SUBSET Jobs
      PROVE  Step(op, role, uses) \in AllSteps
  BY DEF Step, AllSteps
<1> DEFINE
      First == <<Step("stage", <<"app-code", 0>>, {}),
                 Step("network", Network, {}),
                 Step("runtime", <<"postgres", 0>>, {Network, VolumeOf(1)}),
                 Step("runtime", <<"redis", 0>>, {Network, VolumeOf(NArchives)}),
                 Step("fence", <<"redis", 0>>, {})>>
      Final == <<Step("runtime", <<"nextcloud-app", 0>>, {Network, DataCache}),
                Step("runtime", <<"weknora-app", 0>>, {Network, VolumeOf(NArchives)}),
                Step("fences-hold", <<"redis", 0>>, {})>>
<1>4. First \in Seq(AllSteps) /\ Len(First) = 5
  BY <1>1, <1>2, <1>3, 0 \in Nat DEF JobNames, OpNames
<1>5. Final \in Seq(AllSteps)
  BY <1>1, <1>2, <1>3, 0 \in Nat DEF JobNames, OpNames
<1>6. VerifyLdap \in Seq(AllSteps)
  BY <1>1, <1>2, <1>3, 0 \in Nat DEF VerifyLdap, JobNames, OpNames
<1>7. PrepareDataCache \in Seq(AllSteps) /\ AuditDataCache \in Seq(AllSteps)
  BY <1>1, <1>2, <1>3, 0 \in Nat DEF PrepareDataCache, AuditDataCache, JobNames, OpNames
<1>8. /\ \A i \in 1..5 : First[i].role # WeKnora
      /\ First[5].op = "fence"
  BY DEF Step, WeKnora, Network
<1> HIDE DEF First, Final
<1>9. ASSUME NEW s \in Seq(AllSteps), NEW t \in Seq(AllSteps), Len(s) >= 5,
             \A i \in 1..5 : s[i] = First[i]
      PROVE  /\ s \o t \in Seq(AllSteps) /\ Len(s \o t) >= 5
             /\ \A i \in 1..5 : (s \o t)[i] = First[i]
  BY <1>9, ConcatProperties
<1>10. /\ First \o VerifyLdap \in Seq(AllSteps) /\ Len(First \o VerifyLdap) >= 5
       /\ \A i \in 1..5 : (First \o VerifyLdap)[i] = First[i]
  <2>1. Len(First) >= 5 /\ \A i \in 1..5 : First[i] = First[i]
    BY <1>4
  <2> QED  BY <1>4, <1>6, <1>9, <2>1, Zenon
<1> DEFINE Second == First \o VerifyLdap \o PrepareDataCache
<1>11. /\ Second \in Seq(AllSteps) /\ Len(Second) >= 5 /\ \A i \in 1..5 : Second[i] = First[i]
  BY <1>10, <1>7, <1>9
<1> HIDE DEF Second
<1> DEFINE Third == Second \o Final
<1>12. /\ Third \in Seq(AllSteps) /\ Len(Third) >= 5 /\ \A i \in 1..5 : Third[i] = First[i]
  BY <1>11, <1>5, <1>9
<1> HIDE DEF Third
<1>13. /\ Third \o AuditDataCache \in Seq(AllSteps) /\ Len(Third \o AuditDataCache) >= 5
       /\ \A i \in 1..5 : (Third \o AuditDataCache)[i] = First[i]
  BY <1>12, <1>7, <1>9
<1>14. ApplicationValidation = Third \o AuditDataCache
  <2>1. ApplicationValidation = First \o VerifyLdap \o PrepareDataCache \o Final \o AuditDataCache
    BY DEF ApplicationValidation, First, Final
  <2> QED  BY <2>1 DEF Second, Third
<1> DEFINE all == Third \o AuditDataCache
<1>15. all \in Seq(AllSteps) /\ Len(all) >= 5 /\ \A i \in 1..5 : all[i] = First[i]
  BY <1>13
<1> HIDE DEF all
<1>16. /\ \A i \in 1..5 : all[i].role # WeKnora
       /\ all[5].op = "fence"
  BY <1>8, <1>15
<1>17. ApplicationValidation = all
  BY <1>14 DEF all
<1> QED  BY <1>15, <1>16, <1>17

(* The whole program: whichever drill it is, WeKnora starts after the fence or never. *)
LEMMA FencedBeforeWeKnora ==
  /\ \A mode \in Modes : Program[mode] \in Seq(AllSteps)
  /\ \A mode \in Modes : \A i \in 1..Len(Program[mode]) :
       Program[mode][i].role = WeKnora => mode = "application" /\ i > FenceAt
  /\ FenceAt \in 1..Len(Program["application"])
  /\ Program["application"][FenceAt].op = "fence"
<1>1. NArchives \in Nat \ {0}
  BY DrillAssumption
<1>2. Program["volumes"] = RestoreVolumes /\ Program["databases"] = RestoreVolumes \o VerifyDatabases
      /\ Program["application"] = RestoreVolumes \o ApplicationValidation
  BY DEF Program
<1>3. /\ RestoreVolumes \o VerifyDatabases \in Seq(AllSteps)
      /\ \A i \in 1..Len(RestoreVolumes \o VerifyDatabases) :
           (RestoreVolumes \o VerifyDatabases)[i].role # WeKnora
  <2>1. ASSUME NEW s \in Seq(AllSteps), NEW t \in Seq(AllSteps),
               \A i \in 1..Len(s) : s[i].role # WeKnora, \A i \in 1..Len(t) : t[i].role # WeKnora
        PROVE  s \o t \in Seq(AllSteps) /\ \A i \in 1..Len(s \o t) : (s \o t)[i].role # WeKnora
    <3>1. /\ s \o t \in Seq(AllSteps) /\ Len(s \o t) = Len(s) + Len(t)
          /\ \A i \in 1..(Len(s) + Len(t)) :
               (s \o t)[i] = IF i <= Len(s) THEN s[i] ELSE t[i - Len(s)]
      BY ConcatProperties
    <3>2. Len(s) \in Nat /\ Len(t) \in Nat
      BY LenProperties
    <3>3. ASSUME NEW i \in 1..(Len(s) + Len(t))
          PROVE  (i \in 1..Len(s)) \/ (~(i <= Len(s)) /\ i - Len(s) \in 1..Len(t))
      BY <3>2
    <3> QED  BY <2>1, <3>1, <3>2, <3>3
  <2> QED  BY <2>1, StepsOfRestore, StepsOfDatabases, <1>1
<1> DEFINE all == RestoreVolumes \o ApplicationValidation
      more == Len(ApplicationValidation)
<1>7. more \in Nat
  BY StepsOfApplication
<1>4. /\ all \in Seq(AllSteps) /\ Len(all) = 4 * NArchives + more
      /\ \A i \in 1..(4 * NArchives + more) :
           all[i] = IF i <= 4 * NArchives THEN RestoreVolumes[i]
                    ELSE ApplicationValidation[i - 4 * NArchives]
  <2>1. /\ RestoreVolumes \in Seq(AllSteps) /\ ApplicationValidation \in Seq(AllSteps)
        /\ Len(RestoreVolumes) = 4 * NArchives
    BY StepsOfRestore, StepsOfApplication
  <2>2. /\ all \in Seq(AllSteps) /\ Len(all) = Len(RestoreVolumes) + more
        /\ \A i \in 1..(Len(RestoreVolumes) + more) :
             all[i] = IF i <= Len(RestoreVolumes) THEN RestoreVolumes[i]
                      ELSE ApplicationValidation[i - Len(RestoreVolumes)]
    BY <2>1, ConcatProperties
  <2> HIDE DEF all, more
  <2> QED  BY <2>1, <2>2
<1> HIDE DEF all
<1>5. ASSUME NEW i \in 1..Len(all), all[i].role = WeKnora
      PROVE  i > FenceAt
  <2>1. i \in 1..(4 * NArchives + more) /\ ~(i <= 4 * NArchives)
    BY <1>1, <1>7, <1>4, <1>5, StepsOfRestore
  <2>2. all[i] = ApplicationValidation[i - 4 * NArchives]
    BY <1>4, <2>1
  <2>3. i - 4 * NArchives \in 1..more /\ i - 4 * NArchives \notin 1..5
    BY <1>1, <1>7, <1>5, <2>1, <2>2, StepsOfApplication
  <2> QED  BY <1>1, <1>7, <2>1, <2>3 DEF FenceAt
<1>6. FenceAt \in 1..Len(all) /\ all[FenceAt].op = "fence"
  <2>3. more >= 5
    BY StepsOfApplication
  <2> HIDE DEF more
  <2>1. FenceAt \in 1..(4 * NArchives + more) /\ ~(FenceAt <= 4 * NArchives)
        /\ FenceAt - 4 * NArchives = 5
    BY <1>1, <1>7, <2>3 DEF FenceAt
  <2>2. all[FenceAt] = ApplicationValidation[5]
    BY <1>4, <2>1
  <2> QED  BY <1>4, <2>1, <2>2, StepsOfApplication
<1> QED  BY <1>2, <1>3, <1>5, <1>6, <1>4, StepsOfRestore, <1>1 DEF Modes, all

LEMMA DrillBegins == DrillInit => DrillInv
<1> SUFFICES ASSUME DrillInit PROVE DrillInv
  OBVIOUS
<1>1. PICK mode \in Modes :
        drill = [mode |-> mode, at |-> 1, phase |-> "attempt", status |-> "INCOMPLETE",
                 volumes |-> {}, containers |-> {}, network |-> {}, attempted |-> {},
                 started |-> {}, staged |-> "none", fenced |-> FALSE, claimed |-> FALSE,
                 failed |-> FALSE, cleaned |-> FALSE, foreignActs |-> 0]
  BY DEF DrillInit
<1>2. docker = {} /\ FenceAt \in Nat /\ FenceAt > 1
  BY DrillAssumption DEF DrillInit, FenceAt
<1>3. /\ drill.mode = mode /\ drill.at = 1 /\ drill.phase = "attempt" /\ drill.started = {}
      /\ ~drill.claimed /\ ~drill.cleaned
  BY <1>1
<1>4. DOMAIN drill = DrillFields /\ drill = [field \in DrillFields |-> drill[field]]
  BY <1>1 DEF DrillFields
<1> QED
  BY <1>2, <1>3, <1>4 DEF DrillInv, DrillTypes, AttemptNamed, CleanedIsOver, FenceFirst,
     CompleteLeavesNothing, RetainedIsReported, NoCapturedTaskRuns

(* A step of the program leads behind the fence only from the fence. *)
LEMMA StepsMeetTheFence ==
  ASSUME DrillTypes, drill.mode = "application", drill.at <= Len(Steps),
         NextStep(drill.at) > FenceAt
  PROVE  drill.at >= FenceAt
<1>1. Steps \in Seq(AllSteps) /\ FenceAt \in 1..Len(Steps) /\ Steps[FenceAt].op = "fence"
  BY FencedBeforeWeKnora DEF Steps, DrillTypes
<1>2. drill.at \in Nat /\ FenceAt \in Nat /\ Len(Steps) \in Nat
  BY <1>1 DEF DrillTypes
<1>3. CASE drill.at < Len(Steps) /\ Steps[drill.at + 1].op = "skip"
  <2>1. drill.at + 1 # FenceAt /\ NextStep(drill.at) = drill.at + 2
    BY <1>1, <1>3 DEF NextStep
  <2> QED  BY <1>2, <2>1
<1>4. CASE ~(drill.at < Len(Steps) /\ Steps[drill.at + 1].op = "skip")
  <2>1. NextStep(drill.at) = drill.at + 1
    BY <1>4 DEF NextStep
  <2> QED  BY <1>2, <2>1
<1> QED  BY <1>3, <1>4

LEMMA NextStepCounts == ASSUME DrillTypes PROVE NextStep(drill.at) \in Nat \ {0}
BY DEF DrillTypes, NextStep

(* Steps that make nothing, go on to no other step and open no fence *)
AtWork == {"create", "record", "start"}
DrillRecord(d) == DOMAIN d = DrillFields /\ d = [field \in DrillFields |-> d[field]]
LEMMA DrillStays ==
  ASSUME DrillInv, DrillRecord(drill'),
         drill'.mode = drill.mode, drill'.at = drill.at, drill'.attempted = drill.attempted,
         drill'.fenced = drill.fenced, drill'.claimed = drill.claimed,
         drill'.started \subseteq drill.started,
         drill'.phase \in AtWork => drill.phase \in AtWork,
         drill'.cleaned => drill.cleaned /\ drill'.status = drill.status,
         \A r \in docker' \ docker :
           r.by = "foreign" /\ r.kind \in {"volume", "network", "container"}
             /\ r = Resource(r.kind, r.role, r.by, r.uses)
  PROVE  DrillInv'
<1>1. Current' = Current
  BY DEF Current, Steps
<1>2. DrillTypes'
  BY DEF DrillInv, DrillTypes, DrillRecord
<1>3. AttemptNamed' /\ CleanedIsOver' /\ FenceFirst' /\ NoCapturedTaskRuns'
  BY <1>1 DEF DrillInv, AttemptNamed, CleanedIsOver, FenceFirst, NoCapturedTaskRuns, AtWork
<1>4. CompleteLeavesNothing' /\ RetainedIsReported'
  BY DEF DrillInv, CompleteLeavesNothing, RetainedIsReported
<1> QED  BY <1>2, <1>3, <1>4 DEF DrillInv

(* A step of the program is done, and the drill goes on to the next one. *)
LEMMA DrillOnward ==
  ASSUME DrillInv, NEW d, DrillRecord(d), drill' = Onward(d), UNCHANGED docker,
         Working, drill.at <= Len(Steps),
         d.mode = drill.mode, d.at = drill.at, d.attempted = drill.attempted,
         d.claimed = drill.claimed, d.cleaned = drill.cleaned, drill.fenced => d.fenced,
         drill.mode = "application" /\ drill.at = FenceAt => d.fenced,
         WeKnora \in d.started => drill.mode = "application" /\ d.fenced
  PROVE  DrillInv'
<1>1. /\ drill'.mode = drill.mode /\ drill'.attempted = drill.attempted /\ drill'.phase = "attempt"
      /\ drill'.claimed = drill.claimed /\ drill'.fenced = d.fenced /\ drill'.started = d.started
      /\ drill'.cleaned = drill.cleaned
  BY DEF Onward, DrillRecord, DrillFields
<1>2. drill'.at = NextStep(drill.at) /\ DrillRecord(drill')
  BY DEF Onward, DrillRecord, DrillFields
<1>3. DrillTypes'
  BY <1>1, <1>2, NextStepCounts DEF DrillInv, DrillTypes, DrillRecord
<1>4. ~drill.cleaned
  BY DEF Working, DrillInv, CleanedIsOver
<1>5. FenceFirst'
  <2>1. ASSUME drill.mode = "application", NextStep(drill.at) > FenceAt, drill.at # FenceAt
        PROVE  drill.fenced
    <3>1. drill.at >= FenceAt
      BY <2>1, StepsMeetTheFence DEF DrillInv
    <3>2. drill.at \in Nat /\ FenceAt \in Nat
      BY DrillAssumption DEF DrillInv, DrillTypes, FenceAt
    <3> QED  BY <2>1, <3>1, <3>2 DEF DrillInv, FenceFirst
  <2> QED  BY <1>1, <1>2, <2>1 DEF FenceFirst
<1> QED
  BY <1>1, <1>3, <1>4, <1>5 DEF DrillInv, AttemptNamed, CleanedIsOver, CompleteLeavesNothing,
     RetainedIsReported, NoCapturedTaskRuns

LEMMA DrillGoesOn == DrillInv /\ [DrillStep]_drillVars => DrillInv'
<1> SUFFICES ASSUME DrillInv, [DrillStep]_drillVars
             PROVE  DrillInv'
  OBVIOUS
<1>0. DrillRecord(drill) /\ (drill.cleaned => drill.status # "INCOMPLETE")
  BY DEF DrillInv, DrillTypes, CleanedIsOver, DrillRecord
<1> USE DEF Working, DrillAt, Failing, Makes, AtWork, DrillRecord, DrillFields
<1>F. ASSUME Working, drill' = Failing(drill), UNCHANGED docker
      PROVE  DrillInv'
  BY <1>0, <1>F, DrillStays
<1>1. CASE CreateVolume \/ CreateNetwork \/ CreateContainer \/ CreateRuntime
  <2>1. /\ DrillAt("attempt") /\ Attempt /\ UNCHANGED docker
        /\ Current.op # "fence"
    BY <1>1 DEF CreateVolume, CreateNetwork, CreateContainer, CreateRuntime
  <2>2. CASE drill' = Failing(drill)
    BY <2>1, <2>2, <1>F
  <2>3. CASE drill' = [drill EXCEPT !.attempted = @ \cup {Current.role}, !.phase = "create"]
    <3>1. drill.mode = "application" => drill.at # FenceAt
      BY <2>1, FencedBeforeWeKnora DEF Steps, Current
    <3>2. Current' = Current
      BY <2>3, <1>0 DEF Steps, Current
    <3> QED
      BY <1>0, <2>1, <2>3, <3>1, <3>2 DEF DrillInv, DrillTypes, AttemptNamed, CleanedIsOver,
         FenceFirst, CompleteLeavesNothing, RetainedIsReported, NoCapturedTaskRuns
  <2> QED  BY <2>1, <2>2, <2>3 DEF Attempt
<1>2. CASE DaemonCreates
  <2> DEFINE made == Resource(Kind(Current.op), Current.role, "drill", Current.uses)
  <2>1. /\ Working /\ drill.phase = "create" /\ docker' = docker \cup {made}
        /\ drill' = [drill EXCEPT !.phase = "record"] \/ drill' = Failing(drill)
    BY <1>2 DEF DaemonCreates
  <2>2. /\ made.kind \in {"volume", "network", "container"} /\ made.by = "drill"
        /\ made = Resource(made.kind, made.role, made.by, made.uses)
        /\ made.role \in drill.attempted
    BY <2>1 DEF Resource, Kind, DrillInv, AttemptNamed
  <2> HIDE DEF made
  <2>3. /\ drill'.mode = drill.mode /\ drill'.at = drill.at /\ drill'.attempted = drill.attempted
        /\ drill'.started = drill.started /\ drill'.fenced = drill.fenced
        /\ drill'.claimed = drill.claimed /\ ~drill'.cleaned /\ DrillRecord(drill')
        /\ drill'.phase \in {"record", "cleanup"}
    BY <1>0, <2>1
  <2>4. Current' = Current
    BY <2>3 DEF Current, Steps
  <2> QED
    BY <2>1, <2>2, <2>3, <2>4 DEF DrillInv, DrillTypes, AttemptNamed, CleanedIsOver,
       FenceFirst, CompleteLeavesNothing, RetainedIsReported, NoCapturedTaskRuns
<1>3. CASE RecordResource
  <2>1. Working /\ drill.at <= Len(Steps) /\ drill.phase = "record" /\ UNCHANGED docker
    BY <1>3 DEF RecordResource
  <2>2. PICK d : /\ DrillRecord(d) /\ d.mode = drill.mode /\ d.at = drill.at
                 /\ d.attempted = drill.attempted /\ d.claimed = drill.claimed
                 /\ d.cleaned = drill.cleaned /\ d.fenced = drill.fenced /\ d.started = drill.started
                 /\ d.status = drill.status
                 /\ drill' = [d EXCEPT !.phase = "start"] \/ drill' = Onward(d)
    <3> DEFINE known == CASE Kind(Current.op) = "volume" ->
                         [drill EXCEPT !.volumes = @ \cup {Current.role}]
                    [] Kind(Current.op) = "network" -> [drill EXCEPT !.network = {Current.role}]
                    [] OTHER -> [drill EXCEPT !.containers = @ \cup {Current.role}]
    <3>1. drill' = IF Kind(Current.op) = "container" THEN [known EXCEPT !.phase = "start"]
                   ELSE Onward(known)
      BY <1>3 DEF RecordResource
    <3>2. /\ DrillRecord(known) /\ known.mode = drill.mode /\ known.at = drill.at
          /\ known.attempted = drill.attempted /\ known.claimed = drill.claimed
          /\ known.cleaned = drill.cleaned /\ known.fenced = drill.fenced
          /\ known.started = drill.started /\ known.status = drill.status
      BY <1>0
    <3> HIDE DEF known
    <3> QED  BY <3>1, <3>2
  <2>3. CASE drill' = [d EXCEPT !.phase = "start"]
    BY <2>1, <2>2, <2>3, <1>0, DrillStays
  <2>4. CASE drill' = Onward(d)
    <3>1. drill.mode = "application" => drill.at # FenceAt
      BY <2>1 DEF DrillInv, FenceFirst
    <3>2. WeKnora \in d.started => drill.mode = "application" /\ d.fenced
      BY <2>2 DEF DrillInv, FenceFirst
    <3> QED  BY <2>1, <2>2, <2>4, <3>1, <3>2, DrillOnward
  <2> QED  BY <2>2, <2>3, <2>4
<1>4. CASE Execute
  <2>1. /\ Working /\ drill.at <= Len(Steps) /\ drill.phase = "start" /\ UNCHANGED docker
        /\ drill' = Failing(drill) \/ drill' = Onward(drill)
    BY <1>4 DEF Execute
  <2>2. CASE drill' = Onward(drill)
    <3>1. drill.mode = "application" => drill.at # FenceAt
      BY <2>1 DEF DrillInv, FenceFirst
    <3>2. WeKnora \in drill.started => drill.mode = "application" /\ drill.fenced
      BY DEF DrillInv, FenceFirst
    <3> QED  BY <2>1, <2>2, <1>0, <3>1, <3>2, DrillOnward
  <2> QED  BY <2>1, <2>2, <1>F
<1>5. CASE StartDatabase
  <2> DEFINE d == [drill EXCEPT !.started = @ \cup {Current.role}]
  <2>1. /\ Working /\ drill.at <= Len(Steps) /\ drill.phase = "start" /\ UNCHANGED docker
        /\ drill' = Failing(drill) \/ drill' = Onward(d)
    BY <1>5 DEF StartDatabase
  <2>2. CASE drill' = Onward(d)
    <3>1. drill.mode = "application" => drill.at # FenceAt
      BY <2>1 DEF DrillInv, FenceFirst
    <3>2. Current.role = WeKnora => drill.mode = "application" /\ drill.fenced
      <4>1. drill.at = 0 \/ drill.at \in 1..Len(Steps)
        BY <2>1, FencedBeforeWeKnora DEF DrillInv, DrillTypes, Steps
      <4>2. drill.at # 0
        BY DEF DrillInv, DrillTypes
      <4> QED
        BY <4>1, <4>2, FencedBeforeWeKnora DEF DrillInv, DrillTypes, Steps, Current, FenceFirst
    <3>3. WeKnora \in d.started => drill.mode = "application" /\ drill.fenced
      BY <3>2, <1>0 DEF DrillInv, FenceFirst
    <3>4. /\ DrillRecord(d) /\ d.mode = drill.mode /\ d.at = drill.at
          /\ d.attempted = drill.attempted /\ d.claimed = drill.claimed
          /\ d.cleaned = drill.cleaned /\ d.fenced = drill.fenced
      BY <1>0
    <3> HIDE DEF d
    <3> QED  BY <2>1, <2>2, <3>1, <3>3, <3>4, DrillOnward
  <2> HIDE DEF d
  <2> QED  BY <2>1, <2>2, <1>F
<1>6. CASE StageInputs
  <2> DEFINE d == [drill EXCEPT !.staged = "exact"]
  <2>1. /\ Working /\ drill.at <= Len(Steps) /\ Makes("stage") /\ UNCHANGED docker
        /\ drill' = Onward(d)
    BY <1>6 DEF StageInputs
  <2>2. drill.mode = "application" => drill.at # FenceAt
    BY <2>1, FencedBeforeWeKnora DEF Steps, Current
  <2>3. /\ DrillRecord(d) /\ d.mode = drill.mode /\ d.at = drill.at
        /\ d.attempted = drill.attempted /\ d.claimed = drill.claimed
        /\ d.cleaned = drill.cleaned /\ d.fenced = drill.fenced /\ d.started = drill.started
    BY <1>0
  <2>4. WeKnora \in d.started => drill.mode = "application" /\ d.fenced
    BY <2>3 DEF DrillInv, FenceFirst
  <2> HIDE DEF d
  <2> QED  BY <2>1, <2>2, <2>3, <2>4, DrillOnward
<1>7. CASE FenceQueue
  <2> DEFINE d == [drill EXCEPT !.fenced = TRUE]
  <2>1. Working /\ drill.at <= Len(Steps) /\ UNCHANGED docker /\ drill' = Onward(d)
    BY <1>7 DEF FenceQueue
  <2>2. /\ DrillRecord(d) /\ d.mode = drill.mode /\ d.at = drill.at
        /\ d.attempted = drill.attempted /\ d.claimed = drill.claimed
        /\ d.cleaned = drill.cleaned /\ d.fenced /\ d.started = drill.started
    BY <1>0
  <2>3. WeKnora \in d.started => drill.mode = "application" /\ d.fenced
    BY <2>2 DEF DrillInv, FenceFirst
  <2> HIDE DEF d
  <2> QED  BY <2>1, <2>2, <2>3, DrillOnward
<1>8. CASE FencesHold
  <2>1. /\ Working /\ drill.at <= Len(Steps) /\ UNCHANGED docker
        /\ drill' = Failing(drill) \/ (drill.fenced /\ drill' = Onward(drill))
    BY <1>8 DEF FencesHold
  <2>2. WeKnora \in drill.started => drill.mode = "application" /\ drill.fenced
    BY DEF DrillInv, FenceFirst
  <2>3. CASE drill.fenced /\ drill' = Onward(drill)
    BY <2>1, <2>2, <2>3, <1>0, DrillOnward
  <2> QED  BY <2>1, <2>3, <1>F
<1>9. CASE WorkerClaims
  BY <1>9 DEF WorkerClaims, WeKnora, DrillInv, FenceFirst
<1>10. CASE ValidationEnds
  BY <1>10, <1>0, DrillStays DEF ValidationEnds
<1>11. CASE CommandFails
  BY <1>11, <1>F DEF CommandFails
<1>12. CASE CleanupVerify
  <2>1. /\ drill.status = "INCOMPLETE" /\ drill.phase = "cleanup" /\ UNCHANGED docker
        /\ ~drill.cleaned
    BY <1>0, <1>12 DEF CleanupVerify, Cleaning
  <2>2. CASE ~drill'.cleaned
    <3>1. drill' \in {[drill EXCEPT !.status = "failed"], Failing(drill), [drill EXCEPT !.phase = "remove"],
                      [drill EXCEPT !.status = "failed", !.cleaned = TRUE],
                      [drill EXCEPT !.status = "COMPLETE", !.cleaned = TRUE]}
      BY <1>12 DEF CleanupVerify, CleanupFails
    <3> QED  BY <1>0, <2>1, <2>2, <3>1, DrillStays
  <2>3. CASE drill'.cleaned
    <3>1. /\ DrillVerify /\ NextRemoved = {}
          /\ drill' = [drill EXCEPT !.status = "failed", !.cleaned = TRUE]
             \/ drill' = [drill EXCEPT !.status = "COMPLETE", !.cleaned = TRUE]
      BY <1>0, <1>12, <2>1, <2>3 DEF CleanupVerify, CleanupFails
    <3>2. drill.volumes = {} /\ drill.containers = {} /\ drill.network = {}
      BY <3>1 DEF NextRemoved
    <3>3. \A r \in docker : r.by # "drill"
      BY <3>1, <3>2 DEF DrillVerify, AllowlistKept, AtDaemon, DrillInv, DrillTypes
    <3>4. /\ drill'.mode = drill.mode /\ drill'.at = drill.at /\ drill'.attempted = drill.attempted
          /\ drill'.started = drill.started /\ drill'.fenced = drill.fenced
          /\ drill'.claimed = drill.claimed /\ drill'.status # "INCOMPLETE" /\ DrillRecord(drill')
          /\ drill'.phase = "cleanup"
      BY <1>0, <2>1, <3>1
    <3> QED
      BY <2>1, <3>3, <3>4 DEF DrillInv, DrillTypes, AttemptNamed, CleanedIsOver,
         FenceFirst, CompleteLeavesNothing, RetainedIsReported, NoCapturedTaskRuns
  <2> QED  BY <2>2, <2>3
<1>13. CASE RemoveResource
  <2> DEFINE role == Oldest(NextRemoved)
             less == [drill EXCEPT !.started = @ \ {role}]
  <2>1. /\ drill.status = "INCOMPLETE" /\ drill.phase = "remove" /\ docker' \subseteq docker
        /\ ~drill.cleaned
        /\ drill' \in {[drill EXCEPT !.phase = "cleanup", !.volumes = @ \ {role},
                          !.containers = @ \ {role}, !.network = @ \ {role},
                          !.started = @ \ {role}],
                       CleanupFails(less), CleanupFails(drill)}
    BY <1>0, <1>13 DEF RemoveResource, Cleaning
  <2> HIDE DEF role
  <2>2. /\ drill'.mode = drill.mode /\ drill'.at = drill.at /\ drill'.attempted = drill.attempted
        /\ drill'.started \subseteq drill.started /\ drill'.fenced = drill.fenced
        /\ drill'.claimed = drill.claimed /\ ~drill'.cleaned /\ DrillRecord(drill')
        /\ drill'.phase \in {"cleanup", "remove"}
    <3>0. drill.status = "INCOMPLETE" /\ drill.phase = "remove" /\ ~drill.cleaned
      BY <2>1
    <3>1. ASSUME NEW d, DrillRecord(d), d.mode = drill.mode, d.at = drill.at,
                 d.attempted = drill.attempted, d.started \subseteq drill.started,
                 d.fenced = drill.fenced, d.claimed = drill.claimed, ~d.cleaned, d.phase = "remove",
                 drill' = CleanupFails(d)
          PROVE  /\ drill'.mode = drill.mode /\ drill'.at = drill.at
                 /\ drill'.attempted = drill.attempted /\ drill'.started \subseteq drill.started
                 /\ drill'.fenced = drill.fenced /\ drill'.claimed = drill.claimed
                 /\ ~drill'.cleaned /\ DrillRecord(drill') /\ drill'.phase \in {"cleanup", "remove"}
      <4>1. CASE drill' = [d EXCEPT !.status = "failed"]
        BY <3>1, <4>1
      <4>2. CASE drill' = [d EXCEPT !.failed = TRUE, !.phase = "cleanup"]
        BY <3>1, <4>2
      <4> QED  BY <3>1, <4>1, <4>2 DEF CleanupFails
    <3>2. CASE drill' = CleanupFails(less)
      <4>1. /\ DrillRecord(less) /\ less.mode = drill.mode /\ less.at = drill.at
            /\ less.attempted = drill.attempted /\ less.started \subseteq drill.started
            /\ less.fenced = drill.fenced /\ less.claimed = drill.claimed /\ ~less.cleaned
            /\ less.phase = "remove"
        BY <1>0, <3>0
      <4> HIDE DEF less
      <4> QED  BY <3>1, <3>2, <4>1
    <3>3. CASE drill' = CleanupFails(drill)
      BY <1>0, <3>0, <3>1, <3>3
    <3>4. CASE drill' = [drill EXCEPT !.phase = "cleanup", !.volumes = @ \ {role},
                            !.containers = @ \ {role}, !.network = @ \ {role},
                            !.started = @ \ {role}]
      BY <1>0, <3>0, <3>4
    <3> QED
      <4>1. \/ drill' = CleanupFails(less) \/ drill' = CleanupFails(drill)
            \/ drill' = [drill EXCEPT !.phase = "cleanup", !.volumes = @ \ {role},
                            !.containers = @ \ {role}, !.network = @ \ {role},
                            !.started = @ \ {role}]
        BY <2>1, Zenon
      <4> QED  BY <4>1, <3>2, <3>3, <3>4, Zenon
  <2> QED  BY <2>1, <2>2, DrillStays
<1>14. CASE ForeignUser
  <2>1. drill' = [drill EXCEPT !.foreignActs = drill.foreignActs + 1]
    BY <1>14 DEF ForeignUser, ForeignAct
  <2>2. PICK r \in docker :
          docker' = docker \cup {Resource("container", <<"peer", 0>>, "foreign", {r.role})}
    BY <1>14 DEF ForeignUser
  <2> QED  BY <1>0, <2>1, <2>2, DrillStays DEF Resource
<1>15. CASE ForeignLeaves
  BY <1>15, <1>0, DrillStays DEF ForeignLeaves
<1>16. CASE ForeignReplaces
  <2>1. drill' = [drill EXCEPT !.foreignActs = drill.foreignActs + 1]
    BY <1>16 DEF ForeignReplaces, ForeignAct
  <2>2. PICK r \in docker : docker' = (docker \ {r}) \cup {[r EXCEPT !.by = "foreign"]}
    BY <1>16 DEF ForeignReplaces
  <2>3. r = Resource(r.kind, r.role, r.by, r.uses) /\ r.kind \in {"volume", "network", "container"}
    BY DEF DrillInv, DrillTypes
  <2>4. [r EXCEPT !.by = "foreign"] = Resource(r.kind, r.role, "foreign", r.uses)
    BY <2>3 DEF Resource
  <2>5. PICK q : /\ docker' = (docker \ {r}) \cup {q}
                 /\ q = Resource(q.kind, q.role, q.by, q.uses) /\ q.kind = r.kind /\ q.by = "foreign"
    <3>1. WITNESS Resource(r.kind, r.role, "foreign", r.uses)
    <3> QED  BY <2>2, <2>4 DEF Resource
  <2> QED  BY <1>0, <2>1, <2>3, <2>5, DrillStays
<1>17. CASE ForeignEdit
  <2>1. /\ drill' = [drill EXCEPT !.staged = "changed", !.foreignActs = drill.foreignActs + 1]
        /\ UNCHANGED docker
    BY <1>17 DEF ForeignEdit
  <2> QED  BY <1>0, <2>1, DrillStays
<1>18. CASE UNCHANGED drillVars
  BY <1>18, <1>0, DrillStays DEF drillVars
<1> QED
  BY <1>1, <1>2, <1>3, <1>4, <1>5, <1>6, <1>7, <1>8, <1>9, <1>10, <1>11, <1>12, <1>13, <1>14,
     <1>15, <1>16, <1>17, <1>18 DEF DrillStep

-----------------------------------------------------------------------------
(* The fixture: whatever runs belongs to a scratch directory that is still there, the
   journal was verified before Compose started anything else, and an "up" ends only when
   alice's way into the group is open. *)
JobPlaces ==
  {"none", "start", "journal", "provision", "init", "verify", "compose", "module", "overlay",
   "exact", "empty"}
FixtureTypes ==
  /\ scratch \in [present : BOOLEAN, mode : MatchModes, journal : BOOLEAN, initialized : BOOLEAN]
  /\ project \in [running : SUBSET ComposeServices, volumes : BOOLEAN, stray : BOOLEAN]
  /\ body \in [key : Int, journal : Int, verified : BOOLEAN]
  /\ directory \in [module : BOOLEAN, overlay : BOOLEAN]
  /\ job \in [name : {"none", "up", "destroy"}, pc : JobPlaces, keys : {0, 1}, up : BOOLEAN]
BodyReady == body.verified /\ body.journal = body.key /\ body.key # 0
ComposedAfterJournal == JobAt("up", "compose") /\ scratch.journal => BodyReady
OwnedWhileUsed ==
  /\ job.name # "none" => scratch.present /\ ~job.up
  /\ ~scratch.present => ~job.up
GroupOpen == job.up /\ scratch.mode = "primary" => TextSidMatches
FixtureInv ==
  /\ FixtureTypes /\ ComposedAfterJournal /\ OwnedWhileUsed /\ GroupOpen
  /\ JournalBeforeApp /\ ScratchOutlivesResources

LEMMA FixtureBegins == FixtureInit => FixtureInv
BY DEF FixtureInit, FixtureInv, FixtureTypes, ComposedAfterJournal, OwnedWhileUsed, GroupOpen,
       JournalBeforeApp, ScratchOutlivesResources, NoScratch, NoProject, NoBody, BodyReady,
       PlainDirectory, NoJob, JobAt, Resources, JobPlaces, MatchModes, ComposeServices

LEMMA FixtureGoesOn == FixtureInv /\ [FixtureStep]_fixtureVars => FixtureInv'
<1> SUFFICES ASSUME FixtureInv, [FixtureStep]_fixtureVars
             PROVE  FixtureInv'
  OBVIOUS
<1> USE DEF FixtureInv, FixtureTypes, ComposedAfterJournal, OwnedWhileUsed, GroupOpen, BodyReady,
            JournalBeforeApp, ScratchOutlivesResources, JobAt, Resources, TextSidMatches,
            JobPlaces
<1>1. CASE Prepare
  BY <1>1 DEF Prepare, Unoccupied, PlainDirectory
<1>2. CASE UpBegins
  BY <1>2 DEF UpBegins, OwnedState
<1>3. CASE JournalDatabase
  <2>1. {"wk-db"} \subseteq ComposeServices /\ "wk-app" # "wk-db"
    BY DEF ComposeServices
  <2> QED  BY <1>3, <2>1 DEF JournalDatabase, JobGoto
<1>4. CASE ProvisionKey
  <2>1. /\ JobAt("up", "provision") /\ body.key = 0
        /\ job' = [job EXCEPT !.keys = 1, !.pc = "init"]
        /\ UNCHANGED <<scratch, project, directory>>
    BY <1>4 DEF ProvisionKey
  <2>2. job.keys + 1 \in Int
    OBVIOUS
  <2>3. body' = [body EXCEPT !.key = job.keys + 1]
    BY <1>4 DEF ProvisionKey
  <2>4. ASSUME NEW k \in Int, body' = [body EXCEPT !.key = k]
        PROVE  FixtureInv'
    <3>1. body' \in [key : Int, journal : Int, verified : BOOLEAN]
      BY <2>4
    <3>2. ~(scratch.journal /\ "wk-app" \in project.running)
      BY <2>1
    <3>3. job' \in [name : {"none", "up", "destroy"}, pc : JobPlaces, keys : {0, 1}, up : BOOLEAN]
      BY <2>1
    <3>4. job'.name = "up" /\ job'.pc = "init" /\ job'.up = job.up
      BY <2>1
    <3> QED  BY <2>1, <3>1, <3>2, <3>3, <3>4
  <2> HIDE DEF FixtureInv
  <2> QED  BY <2>2, <2>3, <2>4, Zenon
<1>5. CASE InitJournal
  BY <1>5 DEF InitJournal, JobGoto
<1>6. CASE VerifyJournal
  BY <1>6 DEF VerifyJournal, JobGoto
<1>7. CASE ComposeUp
  <2> PICK s \in ComposeServices \ project.running :
         project' = [project EXCEPT !.running = @ \cup {s}, !.volumes = TRUE]
    BY <1>7 DEF ComposeUp
  <2>1. JobAt("up", "compose") /\ UNCHANGED <<scratch, body, directory, job>>
    BY <1>7 DEF ComposeUp
  <2> QED  BY <2>1
<1>8. CASE ComposeHealthy
  <2>1. JobAt("up", "compose") /\ UNCHANGED <<scratch, project, body, directory>>
    BY <1>8 DEF ComposeHealthy
  <2>2. CASE scratch.mode = "primary"
    BY <1>8, <2>1, <2>2 DEF ComposeHealthy, JobGoto
  <2>3. CASE scratch.mode # "primary"
    BY <1>8, <2>1, <2>3 DEF ComposeHealthy
  <2> QED  BY <2>2, <2>3
<1>9. CASE LoadRewrite
  BY <1>9 DEF LoadRewrite, JobGoto
<1>10. CASE AddRewrite
  BY <1>10 DEF AddRewrite, JobGoto
<1>11. CASE RewriteExact
  BY <1>11 DEF RewriteExact
<1>12. CASE DestroyBegins
  BY <1>12 DEF DestroyBegins, OwnedState, JobStart
<1>13. CASE ComposeDown
  <2>1. JobAt("destroy", "start") /\ UNCHANGED scratch
    BY <1>13 DEF ComposeDown
  <2>2. ASSUME NEW s \in project.running,
               project' = [project EXCEPT !.running = @ \ {s}], UNCHANGED <<body, directory, job>>
        PROVE  FixtureInv'
    BY <2>1, <2>2
  <2>3. CASE /\ project.running = {}
             /\ project' = [project EXCEPT !.volumes = FALSE]
             /\ body' = NoBody /\ directory' = PlainDirectory
             /\ job' = [job EXCEPT !.pc = "empty", !.keys = 0]
    <3>1. body' \in [key : Int, journal : Int, verified : BOOLEAN]
      BY <2>3 DEF NoBody
    <3>2. job' \in [name : {"none", "up", "destroy"}, pc : JobPlaces, keys : {0, 1}, up : BOOLEAN]
      BY <2>3
    <3>3. job'.name = "destroy" /\ job'.up = job.up
      BY <2>1, <2>3
    <3>4. project' \in [running : SUBSET ComposeServices, volumes : BOOLEAN, stray : BOOLEAN]
      BY <2>3
    <3>5. project'.running = {} /\ directory' \in [module : BOOLEAN, overlay : BOOLEAN]
      BY <2>3 DEF PlainDirectory
    <3> QED  BY <2>1, <3>1, <3>2, <3>3, <3>4, <3>5
  <2> QED  BY <1>13, <2>2, <2>3 DEF ComposeDown
<1>14. CASE RemoveScratch
  BY <1>14 DEF RemoveScratch, Unoccupied, JobEnds, NoScratch, MatchModes
<1>15. CASE JobFails
  BY <1>15 DEF JobFails, JobEnds
<1>16. CASE StrayResource
  <2>1. project' = [project EXCEPT !.stray = ~@] /\ UNCHANGED <<scratch, body, directory, job>>
    BY <1>16 DEF StrayResource
  <2>2. project'.running = project.running /\ project'.volumes = project.volumes
    BY <2>1
  <2>3. project' \in [running : SUBSET ComposeServices, volumes : BOOLEAN, stray : BOOLEAN]
    BY <2>1
  <2>4. UNCHANGED <<scratch, body, directory, job>>
    BY <2>1
  <2> QED  BY <2>2, <2>3, <2>4
<1>17. CASE UNCHANGED fixtureVars
  BY <1>17 DEF fixtureVars
<1> QED
  BY <1>1, <1>2, <1>3, <1>4, <1>5, <1>6, <1>7, <1>8, <1>9, <1>10, <1>11, <1>12, <1>13, <1>14,
     <1>15, <1>16, <1>17 DEF FixtureStep

LEMMA FixtureGranted == FixtureInv => UpMeansGranted
<1> SUFFICES ASSUME FixtureInv, job.up, scratch.present
             PROVE  Granted("alice") /\ ~Granted("bob")
  BY DEF UpMeansGranted
<1>1. scratch.mode \in {"direct", "primary", "nested"}
  BY DEF FixtureInv, FixtureTypes, MatchModes
<1> QED
  BY <1>1 DEF FixtureInv, GroupOpen, Granted, DirectMembers, NestedMembers, PrimaryGroup

-----------------------------------------------------------------------------
(* The pilot: what each place of its command knows of the private files, the resources,
   the PUTs in flight and the report. *)
StartPlaces == {"compose", "credentials", "state"}
RunPlaces ==
  {"start", "ready", "disabled", "enabled", "compared", "departments", "batch", "put", "disk",
   "cache", "manifest", "permissions"}
EndPlaces == {"cleanup", "rm", "wipe", "report"}
PilotTypes ==
  /\ pilotDir \subseteq Private
  /\ stack \in [owned : SUBSET Kinds, foreign : BOOLEAN]
  /\ originals \in [disk : SUBSET Originals, cache : SUBSET Originals]
  /\ pilot \in [command : {"none", "run", "cleanup"},
                pc : {"none"} \cup StartPlaces \cup RunPlaces \cup EndPlaces,
                retain : BOOLEAN, compare : BOOLEAN, next : Nat, flying : SUBSET Originals,
                done : SUBSET Originals, seen : SUBSET Originals, passed : BOOLEAN]
PilotPlace ==
  /\ pilot.command = "none" <=> pilot.pc = "none"
  /\ pilot.pc \in StartPlaces \cup RunPlaces => pilot.command = "run"
  /\ pilot.command = "run" => report = NoReport
PrivateWritten ==
  /\ pilot.pc \in StartPlaces => stack.owned = {}
  /\ pilot.pc \in {"credentials", "state"} => "compose" \in pilotDir
  /\ pilot.pc = "state" => "credentials" \in pilotDir
  /\ pilot.pc \in RunPlaces => pilotDir = Private
RemovalDone ==
  /\ pilot.pc = "wipe" => stack.owned = {}
  /\ pilot.pc = "report" =>
       stack.owned = {} \/ (pilot.command = "run" /\ pilot.passed /\ pilot.retain)
PutsInFlight ==
  /\ pilot.flying # {} => pilot.pc = "put"
  /\ pilot.flying \subseteq Batch
  /\ pilot.flying \cap pilot.done = {}
PilotInv ==
  /\ PilotTypes /\ PilotPlace /\ PrivateWritten /\ RemovalDone /\ PutsInFlight
  /\ PilotRemovable /\ ReportHolds

LEMMA PilotBegins == PilotInit => PilotInv
<1> SUFFICES ASSUME PilotInit PROVE PilotInv
  OBVIOUS
<1> USE DEF PilotInit, NoReport
<1>1. PilotTypes
  BY DEF PilotTypes, StartPlaces, RunPlaces, EndPlaces
<1>2. PilotPlace /\ PrivateWritten /\ RemovalDone
  BY DEF PilotPlace, PrivateWritten, RemovalDone, StartPlaces, RunPlaces
<1>3. PutsInFlight /\ PilotRemovable /\ ReportHolds
  BY DEF PutsInFlight, PilotRemovable, ReportHolds
<1> QED  BY <1>1, <1>2, <1>3 DEF PilotInv

LEMMA PilotGoesOn == PilotInv /\ [PilotStep]_pilotVars => PilotInv'
<1> SUFFICES ASSUME PilotInv, [PilotStep]_pilotVars
             PROVE  PilotInv'
  OBVIOUS
<1> USE DEF PilotInv, PilotTypes, PilotPlace, PrivateWritten, RemovalDone, PutsInFlight,
            PilotRemovable, ReportHolds, PilotAt, PilotGoto, PilotOnly, StartPlaces, RunPlaces,
            EndPlaces, StateIntact, Private, Batch
<1>1. CASE PreparePilot
  <2>1. /\ pilot.command = "none" /\ pilotDir = {} /\ report = NoReport /\ stack.owned = {}
        /\ UNCHANGED <<pilotDir, report, stack, originals, sharing, upsets>>
    BY <1>1 DEF PreparePilot, NoPilotResources
  <2>2. ASSUME NEW retain \in BOOLEAN, NEW compare \in BOOLEAN, NEW n \in Nat,
               pilot' = [pilot EXCEPT !.command = "run", !.pc = "compose", !.retain = retain,
                              !.compare = compare, !.next = n, !.done = {}, !.seen = {},
                              !.passed = FALSE]
        PROVE  PilotInv'
    BY <2>1, <2>2
  <2> HIDE DEF PilotInv
  <2> QED  BY <1>1, <2>2, 0 \in Nat DEF PreparePilot
<1>2. CASE WritePrivate
  BY <1>2 DEF WritePrivate
<1>3. CASE StartStack
  <2>1. /\ pilot.pc = "start" /\ stack' = [stack EXCEPT !.owned = Kinds]
        /\ pilot' = [pilot EXCEPT !.pc = "ready"]
        /\ UNCHANGED <<pilotDir, report, upsets>>
        /\ originals' = [disk |-> {}, cache |-> {}]
    BY <1>3 DEF StartStack
  <2>2. pilot.command = "run" /\ report.cleanup # "removed"
    BY <2>1 DEF NoReport
  <2> QED  BY <2>1, <2>2
<1>4. CASE StackReady
  BY <1>4 DEF StackReady
<1>5. CASE CompareUploads
  BY <1>5 DEF CompareUploads
<1>6. CASE EndComparison
  BY <1>6 DEF EndComparison
<1>7. CASE CreateDepartment
  BY <1>7 DEF CreateDepartment
<1>8. CASE StartBatch
  BY <1>8 DEF StartBatch
<1>9. CASE StartPut
  BY <1>9 DEF StartPut, Waiting
<1>10. CASE EndPut
  <2>1. PICK i \in pilot.flying :
          /\ pilot' = [pilot EXCEPT !.flying = @ \ {i}, !.done = @ \cup {i}]
          /\ originals' = [disk |-> originals.disk \cup {i}, cache |-> originals.cache \cup {i}]
    BY <1>10 DEF EndPut
  <2>2. i \in Originals /\ UNCHANGED <<pilotDir, report, stack, sharing, upsets>>
    BY <1>10, <2>1 DEF EndPut
  <2>3. /\ pilot'.flying = pilot.flying \ {i} /\ pilot'.done = pilot.done \cup {i}
        /\ pilot'.pc = pilot.pc /\ pilot'.next = pilot.next
    BY <2>1
  <2>4. PilotTypes'
    BY <2>1, <2>2
  <2>5. PutsInFlight'
    BY <2>3
  <2> QED  BY <2>1, <2>2, <2>4, <2>5
<1>11. CASE EndBatch
  <2>1. pilot.pc = "put" /\ pilot.flying = {} /\ UNCHANGED <<pilotDir, report, stack, originals>>
    BY <1>11 DEF EndBatch
  <2>2. ASSUME NEW n \in Nat, NEW place \in {"batch", "disk"},
               pilot' = [pilot EXCEPT !.next = n, !.pc = place]
        PROVE  PilotInv'
    BY <2>1, <2>2
  <2>3. pilot.next + BatchSize \in Nat
    BY PilotArguments
  <2>4. pilot' = [pilot EXCEPT !.next = pilot.next + BatchSize,
                    !.pc = IF pilot.next + BatchSize < NOriginals THEN "batch" ELSE "disk"]
    BY <1>11 DEF EndBatch
  <2> HIDE DEF PilotInv
  <2> QED  BY <2>2, <2>3, <2>4, Zenon
<1>12. CASE CheckDisk
  BY <1>12 DEF CheckDisk
<1>13. CASE CheckCache
  BY <1>13 DEF CheckCache
<1>14. CASE ReadManifest
  <2>1. pilot.pc = "manifest" /\ UNCHANGED <<pilotDir, report, stack, originals>>
    BY <1>14 DEF ReadManifest
  <2>2. ASSUME NEW i \in Originals, pilot' = [pilot EXCEPT !.seen = @ \cup {i}]
        PROVE  PilotInv'
    BY <2>1, <2>2
  <2>3. \E i \in Originals : pilot' = [pilot EXCEPT !.seen = @ \cup {i}]
    BY <1>14 DEF ReadManifest, ManifestOf
  <2> QED  BY <2>2, <2>3
<1>15. CASE CheckManifests
  BY <1>15 DEF CheckManifests
<1>16. CASE CheckPermissions
  BY <1>16 DEF CheckPermissions
<1>17. CASE PilotFails
  BY <1>17 DEF PilotFails
<1>18. CASE StartCleanup
  BY <1>18 DEF StartCleanup
<1>19. CASE RemoveOwned
  BY <1>19 DEF RemoveOwned
<1>20. CASE WipePrivate
  BY <1>20 DEF WipePrivate, NoPilotResources
<1>21. CASE WipeCompose
  BY <1>21 DEF WipeCompose
<1>22. CASE WriteReport
  BY <1>22 DEF WriteReport, Ended, NoReport
<1>23. CASE CleanupRefused
  BY <1>23 DEF CleanupRefused, Ended, NoReport
<1>24. CASE CleanupCommand
  BY <1>24 DEF CleanupCommand
<1>25. CASE StoreLoses
  BY <1>25 DEF StoreLoses
<1>26. CASE ForeignResource
  BY <1>26 DEF ForeignResource
<1>27. CASE PilotKilled
  BY <1>27 DEF PilotKilled, Ended
<1>28. CASE UNCHANGED pilotVars
  BY <1>28 DEF pilotVars
<1> QED
  BY <1>1, <1>2, <1>3, <1>4, <1>5, <1>6, <1>7, <1>8, <1>9, <1>10, <1>11, <1>12, <1>13, <1>14, <1>15, <1>16, <1>17, <1>18, <1>19, <1>20, <1>21, <1>22, <1>23, <1>24, <1>25, <1>26, <1>27, <1>28 DEF PilotStep

LEMMA PutsOver == PilotInv => NoPutIntoCleanup
BY DEF PilotInv, PutsInFlight, NoPutIntoCleanup

-----------------------------------------------------------------------------
(* The drivers of source trust: the two rows of an operation, and what the request and the
   driver at a terminal know of them. *)
IntentRows == {"none", "pending", "committed", "done", "aborted"}
RemoteRows == {"none", "pending", "switched", "done", "aborted"}
DriverPlaces ==
  {"idle", "prepare", "start", "retry", "opened", "abort", "aborted", "cloud_abort", "cloud", "knora"}
Codes == {0, 200, 202, 404, 409}
Calls ==
  [stage : {"none", "sent", "exchange", "answered"}, verb : {"none", "start", "retry", "abort"},
   op : DriverOps \cup {NoOp}, code : Codes]
Drivers ==
  [pc : DriverPlaces, action : {"none", "open", "retry", "abort", "status"},
   op : DriverOps \cup {NoOp}, token : BOOLEAN, seen : IntentRows]
DriverTypes ==
  /\ intents \in [DriverOps -> IntentRows] /\ remotes \in [DriverOps -> RemoteRows]
  /\ serving \in [Terminals -> Calls] /\ terminal \in [Terminals -> Drivers]
RowsAgree ==
  \A op \in DriverOps :
    /\ remotes[op] \in {"switched", "done"} => intents[op] \in {"committed", "done"}
    /\ remotes[op] = "done" => intents[op] = "done"
    /\ remotes[op] = "aborted" => intents[op] = "aborted"
OwnCall ==
  \A t \in Terminals :
    /\ serving[t].stage # "none" => serving[t].op \in DriverOps
    /\ terminal[t].pc # "idle" => terminal[t].op \in DriverOps
    /\ terminal[t].pc \in {"opened", "aborted"} =>
         serving[t].stage # "none" /\ serving[t].op = terminal[t].op
    /\ terminal[t].pc = "aborted" => serving[t].verb = "abort"
    /\ terminal[t].action = "abort" =>
         terminal[t].pc \in {"abort", "aborted", "cloud_abort", "cloud", "knora"}
AbortProved ==
  \A t \in Terminals :
    /\ serving[t].stage = "answered" /\ serving[t].verb = "abort" /\ serving[t].code = 200 =>
         remotes[serving[t].op] = "aborted"
    /\ Pairing /\ terminal[t].pc = "cloud" /\ terminal[t].action = "abort" =>
         remotes[terminal[t].op] = "aborted"
    /\ terminal[t].pc # "idle" /\ terminal[t].seen = "aborted" => intents[terminal[t].op] = "aborted"
DriverInv == DriverTypes /\ RowsAgree /\ OwnCall /\ AbortProved /\ ClaimsHold

LEMMA DriverBegins == DriverInit => DriverInv
<1> SUFFICES ASSUME DriverInit PROVE DriverInv
  OBVIOUS
<1>1. DriverTypes
  BY DEF DriverInit, DriverTypes, IntentRows, RemoteRows, Calls, Codes, Drivers, NoCall, NoDriver, DriverPlaces
<1>2. \A t \in Terminals : serving[t].stage = "none" /\ terminal[t].pc = "idle" /\ terminal[t].action = "none"
  BY DEF DriverInit, NoCall, NoDriver
<1> QED
  BY <1>1, <1>2 DEF DriverInit, DriverInv, RowsAgree, OwnCall, AbortProved, ClaimsHold

(* An operation that is on its way, in one of the two tools, only goes on. *)
LEMMA PathGoesOn ==
  ASSUME NEW from \in 1..Len(Path), NEW to \in 1..Len(Path), from <= to
  PROVE  /\ Path[from][1] \in {"pending", "committed", "done"}
         /\ Path[from][2] \in {"pending", "switched", "done"}
         /\ Path[to][1] \in {"pending", "committed", "done"}
         /\ Path[to][2] \in {"pending", "switched", "done"}
         /\ Path[to][2] = "done" => Path[to][1] = "done"
         /\ Path[to][2] = "switched" => Path[to][1] \in {"committed", "done"}
         /\ Path[from][1] = "done" => Path[to][1] = "done"
         /\ Path[from][2] = "done" => Path[to][2] = "done"
<1>1. CASE Pairing
  BY <1>1 DEF Path, PairPath
<1>2. CASE ~Pairing
  BY <1>2 DEF Path, RotationPath
<1> QED  BY <1>1, <1>2

(* What is settled on either side stays. *)
RowsGoOn ==
  /\ intents' \in [DriverOps -> IntentRows] /\ remotes' \in [DriverOps -> RemoteRows]
  /\ RowsAgree' /\ trust' = trust
  /\ \A op \in DriverOps :
       /\ intents[op] = "aborted" => intents'[op] = "aborted"
       /\ intents[op] = "done" => intents'[op] = "done"
       /\ remotes[op] = "aborted" => remotes'[op] = "aborted"
       /\ remotes[op] = "done" => remotes'[op] = "done"

(* The step of one terminal, with what it leaves behind there *)
LEMMA DriverMoves ==
  ASSUME DriverInv, RowsGoOn, NEW t \in Terminals, NEW call \in Calls, NEW driver \in Drivers,
         serving' = [serving EXCEPT ![t] = call], terminal' = [terminal EXCEPT ![t] = driver],
         call.stage # "none" => call.op \in DriverOps,
         driver.pc # "idle" => driver.op \in DriverOps,
         driver.pc \in {"opened", "aborted"} => call.stage # "none" /\ call.op = driver.op,
         driver.pc = "aborted" => call.verb = "abort",
         driver.action = "abort" =>
           driver.pc \in {"abort", "aborted", "cloud_abort", "cloud", "knora"},
         call.stage = "answered" /\ call.verb = "abort" /\ call.code = 200 =>
           remotes'[call.op] = "aborted",
         Pairing /\ driver.pc = "cloud" /\ driver.action = "abort" => remotes'[driver.op] = "aborted",
         driver.pc # "idle" /\ driver.seen = "aborted" => intents'[driver.op] = "aborted",
         \A op \in DriverOps :
           /\ <<"aborted", op>> \in claims' =>
                <<"aborted", op>> \in claims \/ intents'[op] = "aborted"
           /\ <<"established", op>> \in claims' =>
                <<"established", op>> \in claims \/ remotes'[op] = "done"
  PROVE  DriverInv'
<1>1. /\ serving'[t] = call /\ terminal'[t] = driver
      /\ \A u \in Terminals : u # t => serving'[u] = serving[u] /\ terminal'[u] = terminal[u]
  BY DEF DriverInv, DriverTypes
<1>2. DriverTypes'
  BY DEF DriverInv, DriverTypes, RowsGoOn
<1>3. OwnCall'
  BY <1>1 DEF DriverInv, OwnCall
<1>4. AbortProved'
  <2>1. ASSUME NEW u \in Terminals, u # t
        PROVE  /\ serving[u].stage = "answered" /\ serving[u].verb = "abort" /\ serving[u].code = 200 =>
                    remotes'[serving[u].op] = "aborted"
               /\ Pairing /\ terminal[u].pc = "cloud" /\ terminal[u].action = "abort" =>
                    remotes'[terminal[u].op] = "aborted"
               /\ terminal[u].pc # "idle" /\ terminal[u].seen = "aborted" =>
                    intents'[terminal[u].op] = "aborted"
    BY <2>1 DEF DriverInv, AbortProved, OwnCall, RowsGoOn
  <2>2. Pairing' = Pairing
    BY DEF Pairing, RowsGoOn
  <2> QED  BY <1>1, <2>1, <2>2 DEF AbortProved
<1>5. ClaimsHold'
  BY DEF DriverInv, ClaimsHold, RowsGoOn, RowsAgree
<1> QED  BY <1>2, <1>3, <1>4, <1>5 DEF DriverInv, RowsGoOn

(* One row of each side changes, and only as the protocol lets it. *)
LEMMA RowChanges ==
  ASSUME DriverTypes, RowsAgree, UNCHANGED trust,
         NEW op \in DriverOps, NEW intent \in IntentRows, NEW remote \in RemoteRows,
         intents' = [intents EXCEPT ![op] = intent], remotes' = [remotes EXCEPT ![op] = remote],
         remote \in {"switched", "done"} => intent \in {"committed", "done"},
         remote = "done" => intent = "done", remote = "aborted" => intent = "aborted",
         intents[op] = "aborted" => intent = "aborted", intents[op] = "done" => intent = "done",
         remotes[op] = "aborted" => remote = "aborted", remotes[op] = "done" => remote = "done"
  PROVE  RowsGoOn
<1>1. /\ intents'[op] = intent /\ remotes'[op] = remote
      /\ \A q \in DriverOps : q # op => intents'[q] = intents[q] /\ remotes'[q] = remotes[q]
  BY DEF DriverTypes
<1> QED  BY <1>1 DEF RowsGoOn, RowsAgree, DriverTypes

LEMMA RowsStay ==
  ASSUME DriverInv, UNCHANGED <<trust, intents, remotes>> PROVE RowsGoOn
BY DEF RowsGoOn, DriverInv, DriverTypes, RowsAgree

(* The driver of one terminal moves, and neither the rows nor the claims do. *)
LEMMA DriverSteps ==
  ASSUME DriverInv, UNCHANGED <<trust, intents, remotes, claims>>,
         NEW t \in Terminals, NEW call \in Calls, NEW driver \in Drivers,
         serving' = [serving EXCEPT ![t] = call], terminal' = [terminal EXCEPT ![t] = driver],
         call.stage # "none" => call.op \in DriverOps,
         driver.pc # "idle" => driver.op \in DriverOps,
         driver.pc \in {"opened", "aborted"} => call.stage # "none" /\ call.op = driver.op,
         driver.pc = "aborted" => call.verb = "abort",
         driver.action = "abort" =>
           driver.pc \in {"abort", "aborted", "cloud_abort", "cloud", "knora"},
         call.stage = "answered" /\ call.verb = "abort" /\ call.code = 200 =>
           remotes[call.op] = "aborted",
         Pairing /\ driver.pc = "cloud" /\ driver.action = "abort" => remotes[driver.op] = "aborted",
         driver.pc # "idle" /\ driver.seen = "aborted" => intents[driver.op] = "aborted"
  PROVE  DriverInv'
BY RowsStay, DriverMoves

LEMMA NoCallNoDriver ==
  /\ NoCall \in Calls /\ NoCall.stage = "none"
  /\ NoDriver \in Drivers /\ NoDriver.pc = "idle" /\ NoDriver.action = "none"
BY DEF NoCall, NoDriver, Calls, Codes, Drivers, DriverPlaces, IntentRows

LEMMA DriverSame ==
  ASSUME DriverInv, NEW t \in Terminals
  PROVE  /\ serving[t] \in Calls /\ terminal[t] \in Drivers
         /\ serving = [serving EXCEPT ![t] = serving[t]]
         /\ terminal = [terminal EXCEPT ![t] = terminal[t]]
         /\ \A pc \in DriverPlaces : Moves(t, pc) =>
              \E driver \in Drivers :
                /\ terminal' = [terminal EXCEPT ![t] = driver]
                /\ driver.pc = pc /\ driver.action = terminal[t].action
                /\ driver.op = terminal[t].op /\ driver.seen = terminal[t].seen
         /\ \A stage \in {"exchange", "answered"}, code \in Codes :
              Admits(t, stage, code) =>
                \E call \in Calls :
                  /\ serving' = [serving EXCEPT ![t] = call]
                  /\ call.stage = stage /\ call.code = code
                  /\ call.op = serving[t].op /\ call.verb = serving[t].verb
<1>1. /\ serving[t] \in Calls /\ terminal[t] \in Drivers
      /\ serving = [serving EXCEPT ![t] = serving[t]]
      /\ terminal = [terminal EXCEPT ![t] = terminal[t]]
  BY DEF DriverInv, DriverTypes
<1>2. ASSUME NEW pc \in DriverPlaces, Moves(t, pc)
      PROVE  \E driver \in Drivers :
                /\ terminal' = [terminal EXCEPT ![t] = driver]
                /\ driver.pc = pc /\ driver.action = terminal[t].action
                /\ driver.op = terminal[t].op /\ driver.seen = terminal[t].seen
  <2> DEFINE driver == [terminal[t] EXCEPT !.pc = pc]
  <2>1. terminal' = [terminal EXCEPT ![t] = driver]
    BY <1>2 DEF Moves
  <2>2. /\ driver \in Drivers /\ driver.pc = pc /\ driver.action = terminal[t].action
        /\ driver.op = terminal[t].op /\ driver.seen = terminal[t].seen
    BY <1>1 DEF Drivers
  <2> HIDE DEF driver
  <2> QED  BY <2>1, <2>2
<1>3. ASSUME NEW stage \in {"exchange", "answered"}, NEW code \in Codes,
             Admits(t, stage, code)
      PROVE  \E call \in Calls :
                  /\ serving' = [serving EXCEPT ![t] = call]
                  /\ call.stage = stage /\ call.code = code
                  /\ call.op = serving[t].op /\ call.verb = serving[t].verb
  <2> DEFINE call == [stage |-> stage, verb |-> serving[t].verb, op |-> serving[t].op, code |-> code]
  <2>1. serving' = [serving EXCEPT ![t] = call]
    BY <1>3 DEF Admits
  <2>2. /\ call \in Calls /\ call.stage = stage /\ call.code = code
        /\ call.op = serving[t].op /\ call.verb = serving[t].verb
    BY <1>1 DEF Calls
  <2> HIDE DEF call
  <2> QED  BY <2>1, <2>2
<1> QED  BY <1>1, <1>2, <1>3

LEMMA DriverKnows ==
  ASSUME DriverInv, NEW t \in Terminals
  PROVE  /\ serving[t].stage # "none" => serving[t].op \in DriverOps
         /\ terminal[t].pc # "idle" => terminal[t].op \in DriverOps
         /\ terminal[t].pc \in {"opened", "aborted"} =>
              serving[t].stage # "none" /\ serving[t].op = terminal[t].op
         /\ terminal[t].pc = "aborted" => serving[t].verb = "abort"
         /\ terminal[t].action = "abort" =>
              terminal[t].pc \in {"abort", "aborted", "cloud_abort", "cloud", "knora"}
         /\ serving[t].stage = "answered" /\ serving[t].verb = "abort" /\ serving[t].code = 200 =>
              remotes[serving[t].op] = "aborted"
         /\ Pairing /\ terminal[t].pc = "cloud" /\ terminal[t].action = "abort" =>
              remotes[terminal[t].op] = "aborted"
         /\ terminal[t].pc # "idle" /\ terminal[t].seen = "aborted" =>
              intents[terminal[t].op] = "aborted"
BY DEF DriverInv, OwnCall, AbortProved

(* WeKnora goes on with the request of one terminal. *)
LEMMA RequestGoesOn ==
  ASSUME DriverInv, RowsGoOn, UNCHANGED <<terminal, claims>>, NEW t \in Terminals, NEW call \in Calls,
         serving' = [serving EXCEPT ![t] = call],
         serving[t].stage # "none", call.stage # "none",
         call.op = serving[t].op, call.verb = serving[t].verb,
         call.stage = "answered" /\ call.verb = "abort" /\ call.code = 200 =>
           remotes'[call.op] = "aborted"
  PROVE  DriverInv'
<1> DEFINE driver == terminal[t]
<1>1. /\ driver \in Drivers /\ terminal' = [terminal EXCEPT ![t] = driver]
      /\ driver.pc # "idle" => driver.op \in DriverOps
      /\ driver.pc \in {"opened", "aborted"} => call.stage # "none" /\ call.op = driver.op
      /\ driver.pc = "aborted" => call.verb = "abort"
      /\ driver.action = "abort" =>
           driver.pc \in {"abort", "aborted", "cloud_abort", "cloud", "knora"}
      /\ call.op \in DriverOps
  BY DriverSame, DriverKnows
<1>2. /\ Pairing /\ driver.pc = "cloud" /\ driver.action = "abort" => remotes'[driver.op] = "aborted"
      /\ driver.pc # "idle" /\ driver.seen = "aborted" => intents'[driver.op] = "aborted"
  BY DriverKnows DEF RowsGoOn
<1> HIDE DEF driver
<1>3. claims' = claims
  OBVIOUS
<1> QED  BY <1>1, <1>2, <1>3, DriverMoves

(* Nextcloud closes an operation for good, which WeKnora has not followed yet. *)
LEMMA CloseGoesOn ==
  ASSUME DriverInv, NEW op \in DriverOps, CloudCloses(op), UNCHANGED <<trust, remotes>>
  PROVE  RowsGoOn /\ intents'[op] = "aborted"
<1>1. /\ intents[op] \in {"pending", "aborted"} /\ intents' = [intents EXCEPT ![op] = "aborted"]
  BY DEF CloudCloses
<1>2. /\ remotes' = [remotes EXCEPT ![op] = remotes[op]] /\ remotes[op] \in RemoteRows
      /\ "aborted" \in IntentRows /\ remotes[op] \notin {"switched", "done"}
      /\ DriverTypes /\ RowsAgree
  BY <1>1 DEF DriverInv, DriverTypes, IntentRows, RowsAgree
<1>3. RowsGoOn
  BY <1>1, <1>2, RowChanges
<1>4. intents'[op] = "aborted"
  BY <1>1, <1>2 DEF DriverTypes
<1> QED  BY <1>3, <1>4

(* A driver exits, and what it says of its operation is so. *)
LEMMA ClaimedNothing ==
  ASSUME DriverInv, RowsGoOn, NEW t \in Terminals, UNCHANGED <<serving, claims>>,
         terminal' = [terminal EXCEPT ![t] = NoDriver]
  PROVE  DriverInv'
<1>1. /\ serving[t] \in Calls /\ serving' = [serving EXCEPT ![t] = serving[t]]
      /\ serving[t].stage # "none" => serving[t].op \in DriverOps
      /\ serving[t].stage = "answered" /\ serving[t].verb = "abort" /\ serving[t].code = 200 =>
           remotes'[serving[t].op] = "aborted"
  BY DriverSame, DriverKnows DEF RowsGoOn
<1>2. claims' = claims
  OBVIOUS
<1> QED  BY <1>1, <1>2, NoCallNoDriver, DriverMoves

LEMMA ClaimedAborted ==
  ASSUME DriverInv, RowsGoOn, NEW t \in Terminals, UNCHANGED serving, Claims(t, "aborted"),
         terminal' = [terminal EXCEPT ![t] = NoDriver],
         terminal[t].op \in DriverOps, intents'[terminal[t].op] = "aborted"
  PROVE  DriverInv'
<1>1. /\ serving[t] \in Calls /\ serving' = [serving EXCEPT ![t] = serving[t]]
      /\ serving[t].stage # "none" => serving[t].op \in DriverOps
      /\ serving[t].stage = "answered" /\ serving[t].verb = "abort" /\ serving[t].code = 200 =>
           remotes'[serving[t].op] = "aborted"
  BY DriverSame, DriverKnows DEF RowsGoOn
<1>2. \A op \in DriverOps :
        /\ <<"aborted", op>> \in claims' => <<"aborted", op>> \in claims \/ intents'[op] = "aborted"
        /\ <<"established", op>> \in claims' =>
             <<"established", op>> \in claims \/ remotes'[op] = "done"
  BY DEF Claims
<1> QED  BY <1>1, <1>2, NoCallNoDriver, DriverMoves

LEMMA ClaimedEstablished ==
  ASSUME DriverInv, RowsGoOn, NEW t \in Terminals, UNCHANGED serving, Claims(t, "established"),
         terminal' = [terminal EXCEPT ![t] = NoDriver],
         terminal[t].op \in DriverOps, remotes'[terminal[t].op] = "done"
  PROVE  DriverInv'
<1>1. /\ serving[t] \in Calls /\ serving' = [serving EXCEPT ![t] = serving[t]]
      /\ serving[t].stage # "none" => serving[t].op \in DriverOps
      /\ serving[t].stage = "answered" /\ serving[t].verb = "abort" /\ serving[t].code = 200 =>
           remotes'[serving[t].op] = "aborted"
  BY DriverSame, DriverKnows DEF RowsGoOn
<1>2. \A op \in DriverOps :
        /\ <<"aborted", op>> \in claims' => <<"aborted", op>> \in claims \/ intents'[op] = "aborted"
        /\ <<"established", op>> \in claims' =>
             <<"established", op>> \in claims \/ remotes'[op] = "done"
  BY DEF Claims
<1> QED  BY <1>1, <1>2, NoCallNoDriver, DriverMoves

(* WeKnora answers an abort. *)
LEMMA AbortMoves ==
  ASSUME DriverInv, UNCHANGED <<trust, terminal, claims>>, NEW t \in Terminals, NEW call \in Calls,
         serving[t].stage = "exchange", serving[t].verb = "abort", serving[t].op \in DriverOps,
         serving' = [serving EXCEPT ![t] = call], call.stage = "answered",
         call.op = serving[t].op, call.verb = "abort",
         NEW intent, NEW remote, <<intent, remote>> \in IntentRows \X RemoteRows,
         intents' = [intents EXCEPT ![serving[t].op] = intent],
         remotes' = [remotes EXCEPT ![serving[t].op] = remote],
         \/ intent = intents[serving[t].op]
         \/ intents[serving[t].op] = "pending" /\ intent = "aborted",
         \/ remote = remotes[serving[t].op]
         \/ remotes[serving[t].op] = "pending" /\ remote = "aborted" /\ intent = "aborted",
         call.code = 200 => remote = "aborted"
  PROVE  DriverInv'
<1> DEFINE req == serving[t].op
<1>0. intent \in IntentRows /\ remote \in RemoteRows
  OBVIOUS
<1>1. RowsGoOn
  <2>1. /\ remotes[req] \in {"switched", "done"} => intents[req] \in {"committed", "done"}
        /\ remotes[req] = "done" => intents[req] = "done"
        /\ remotes[req] = "aborted" => intents[req] = "aborted"
    BY DEF DriverInv, RowsAgree
  <2>2. DriverTypes /\ RowsAgree
    BY DEF DriverInv
  <2>3. /\ remote \in {"switched", "done"} => intent \in {"committed", "done"}
        /\ remote = "done" => intent = "done"
        /\ remote = "aborted" => intent = "aborted"
        /\ intents[req] = "aborted" => intent = "aborted"
        /\ intents[req] = "done" => intent = "done"
        /\ remotes[req] = "aborted" => remote = "aborted"
        /\ remotes[req] = "done" => remote = "done"
    BY <2>1
  <2> QED  BY <1>0, <2>2, <2>3, RowChanges
<1>2. call.code = 200 => remotes'[req] = "aborted"
  BY DEF DriverInv, DriverTypes
<1> QED  BY <1>1, <1>2, RequestGoesOn

LEMMA DriverGoesOn == DriverInv /\ [DriverStep]_driverVars => DriverInv'
<1> SUFFICES ASSUME DriverInv, [DriverStep]_driverVars
             PROVE  DriverInv'
  OBVIOUS
<1>0. CASE UNCHANGED driverVars
  BY <1>0 DEF driverVars, DriverInv, DriverTypes, RowsAgree, OwnCall, AbortProved, ClaimsHold, Pairing
<1>00. ASSUME NEW t \in Terminals,
             \/ KnoraAdmits(t) \/ KnoraCommits(t) \/ KnoraAborts(t) \/ Forgotten(t)
             \/ GiveCommand(t) \/ DriverDies(t)
             \/ PreparePairing(t) \/ PrepareKeyRotation(t) \/ SendToken(t) \/ SendRetry(t)
             \/ OpenAnswered(t) \/ SendAbort(t) \/ AbortAnswered(t) \/ AbortPairingAlone(t)
             \/ AbortRotationAlone(t) \/ PairingAbortShown(t) \/ CloudShown(t) \/ PairingShown(t)
             \/ RotationShown(t)
      PROVE  DriverInv'
  <2> DEFINE op == terminal[t].op
  <2>0. /\ serving[t] \in Calls /\ terminal[t] \in Drivers
        /\ serving = [serving EXCEPT ![t] = serving[t]]
        /\ terminal = [terminal EXCEPT ![t] = terminal[t]]
        /\ NoDriver \in Drivers /\ NoDriver.pc = "idle" /\ NoDriver.action = "none"
        /\ NoCall \in Calls /\ NoCall.stage = "none"
    BY DriverSame, NoCallNoDriver
  <2>1. CASE KnoraAdmits(t)
    <3> DEFINE req == serving[t].op
    <3>1. /\ serving[t].stage = "sent" /\ req \in DriverOps /\ UNCHANGED <<trust, intents, terminal, claims>>
      BY <2>1, DriverKnows DEF KnoraAdmits
    <3>2. CASE UNCHANGED remotes
      <4>1. PICK stage \in {"exchange", "answered"}, code \in Codes :
              /\ Admits(t, stage, code)
              /\ stage = "answered" /\ code = 200 /\ serving[t].verb = "abort" => remotes[req] = "aborted"
        <5>1. remotes[req] = remotes[req]
          OBVIOUS
        <5>2. \/ Admits(t, "exchange", 0)
              \/ Admits(t, "answered", 404)
              \/ Admits(t, "answered", 200) /\ (serving[t].verb = "abort" => remotes[req] = "aborted")
              \/ Admits(t, "answered", 409)
          BY <2>1 DEF KnoraAdmits
        <5>3. 0 \in Codes /\ 200 \in Codes /\ 404 \in Codes /\ 409 \in Codes /\ 404 # 200 /\ 409 # 200
          BY DEF Codes
        <5> QED  BY <5>2, <5>3
      <4>2. PICK call \in Calls :
              /\ serving' = [serving EXCEPT ![t] = call]
              /\ call.stage = stage /\ call.code = code
              /\ call.op = serving[t].op /\ call.verb = serving[t].verb
        BY <4>1, DriverSame
      <4>3. RowsGoOn /\ UNCHANGED <<terminal, claims>>
        BY <3>1, <3>2, RowsStay
      <4>4. call.stage = "answered" /\ call.verb = "abort" /\ call.code = 200 =>
              remotes'[call.op] = "aborted"
        BY <3>2, <4>1, <4>2
      <4> QED  BY <3>1, <4>1, <4>2, <4>3, <4>4, RequestGoesOn
    <3>3. CASE ~UNCHANGED remotes
      <4>1. /\ remotes[req] = "none" /\ Opened(req) /\ remotes' = [remotes EXCEPT ![req] = "pending"]
            /\ Admits(t, "exchange", 0)
        BY <2>1, <3>3 DEF KnoraAdmits, MayOpen
      <4>2. PICK call \in Calls :
              /\ serving' = [serving EXCEPT ![t] = call]
              /\ call.stage = "exchange"
              /\ call.op = serving[t].op /\ call.verb = serving[t].verb
        BY <4>1, DriverSame, 0 \in Codes DEF Codes
      <4>3. RowsGoOn
        <5>1. /\ intents' = [intents EXCEPT ![req] = intents[req]] /\ intents[req] \in IntentRows
              /\ "pending" \in RemoteRows
          BY <3>1 DEF DriverInv, DriverTypes, RemoteRows
        <5> QED  BY <3>1, <4>1, <5>1, RowChanges DEF DriverInv
      <4>4. UNCHANGED <<terminal, claims>>
        BY <3>1
      <4> QED  BY <3>1, <4>2, <4>3, <4>4, RequestGoesOn
    <3> QED  BY <3>2, <3>3
  <2>2. CASE KnoraCommits(t)
    <3> DEFINE req == serving[t].op
    <3>1. /\ serving[t].stage = "exchange" /\ serving[t].verb # "abort" /\ req \in DriverOps
          /\ UNCHANGED <<trust, terminal, claims>>
      BY <2>2, DriverKnows DEF KnoraCommits
    <3>2. PICK code \in Codes : Admits(t, "answered", code)
      <4>1. 200 \in Codes /\ 202 \in Codes /\ 409 \in Codes
        BY DEF Codes
      <4> QED  BY <2>2, <4>1 DEF KnoraCommits, Exchanged
    <3>3. RowsGoOn
      <4>1. CASE UNCHANGED <<intents, remotes>>
        BY <3>1, <4>1, RowsStay
      <4>2. CASE ~UNCHANGED <<intents, remotes>>
        <5>1. PICK from, to \in 1..Len(Path) :
                /\ from <= to /\ Path[from] = <<intents[req], remotes[req]>>
                /\ Exchanged(t, req, Path[to])
          BY <2>2, <4>2 DEF KnoraCommits
        <5>2. /\ intents' = [intents EXCEPT ![req] = Path[to][1]]
              /\ remotes' = [remotes EXCEPT ![req] = Path[to][2]]
          BY <5>1 DEF Exchanged
        <5>3. Path[from][1] = intents[req] /\ Path[from][2] = remotes[req]
          BY <5>1
        <5>4. /\ Path[from][1] \in {"pending", "committed", "done"}
              /\ Path[from][2] \in {"pending", "switched", "done"}
              /\ Path[to][1] \in {"pending", "committed", "done"}
              /\ Path[to][2] \in {"pending", "switched", "done"}
              /\ Path[to][2] = "done" => Path[to][1] = "done"
              /\ Path[to][2] = "switched" => Path[to][1] \in {"committed", "done"}
              /\ Path[from][1] = "done" => Path[to][1] = "done"
              /\ Path[from][2] = "done" => Path[to][2] = "done"
          BY <5>1, PathGoesOn
        <5>5. Path[to][1] \in IntentRows /\ Path[to][2] \in RemoteRows
          BY <5>4 DEF IntentRows, RemoteRows
        <5> QED  BY <3>1, <5>2, <5>3, <5>4, <5>5, RowChanges DEF DriverInv
      <4> QED  BY <4>1, <4>2
    <3>4. PICK call \in Calls :
            /\ serving' = [serving EXCEPT ![t] = call] /\ call.stage = "answered"
            /\ call.op = serving[t].op /\ call.verb = serving[t].verb
      BY <3>2, DriverSame
    <3>5. UNCHANGED <<terminal, claims>>
      BY <3>1
    <3> QED  BY <3>1, <3>3, <3>4, <3>5, RequestGoesOn
  <2>3. CASE KnoraAborts(t)
    <3> DEFINE req == serving[t].op
    <3>1. /\ serving[t].stage = "exchange" /\ serving[t].verb = "abort" /\ req \in DriverOps
          /\ UNCHANGED <<trust, terminal, claims>>
      BY <2>3, DriverKnows DEF KnoraAborts
    <3>2. /\ 200 \in Codes /\ 202 \in Codes /\ 409 \in Codes /\ 202 # 200 /\ 409 # 200
          /\ intents[req] \in IntentRows /\ remotes[req] \in RemoteRows
          /\ intents = [intents EXCEPT ![req] = intents[req]]
          /\ remotes = [remotes EXCEPT ![req] = remotes[req]]
          /\ "aborted" \in IntentRows /\ "aborted" \in RemoteRows
      BY <3>1 DEF Codes, IntentRows, RemoteRows, DriverInv, DriverTypes
    <3>3. CASE /\ intents[req] \in {"committed", "done"}
               /\ Admits(t, "answered", 409) /\ UNCHANGED <<intents, remotes>>
      <4>1. /\ intents' = [intents EXCEPT ![req] = intents[req]]
            /\ remotes' = [remotes EXCEPT ![req] = remotes[req]]
        BY <3>2, <3>3
      <4>2. PICK call \in Calls :
              /\ serving' = [serving EXCEPT ![t] = call]
              /\ call.stage = "answered" /\ call.code = 409
              /\ call.op = serving[t].op /\ call.verb = serving[t].verb
        BY <3>2, <3>3, DriverSame
      <4>3. <<intents[req], remotes[req]>> \in IntentRows \X RemoteRows
        BY <3>2
      <4>4. /\ call.stage = "answered" /\ call.op = serving[t].op /\ call.verb = "abort"
            /\ serving' = [serving EXCEPT ![t] = call] /\ call \in Calls /\ t \in Terminals
            /\ call.code # 200
        BY <2>0, <3>1, <3>2, <4>2
      <4>5. /\ intents' = [intents EXCEPT ![serving[t].op] = intents[req]]
            /\ remotes' = [remotes EXCEPT ![serving[t].op] = remotes[req]]
        BY <4>1
      <4> HIDE DEF req
      <4>6. req = serving[t].op
        BY DEF req
      <4> QED  BY <3>1, <4>3, <4>4, <4>5, <4>6, AbortMoves
    <3>4. ASSUME NEW intent \in IntentRows, intents' = [intents EXCEPT ![req] = intent],
                 intent = intents[req] \/ (intents[req] = "pending" /\ intent = "aborted"),
                 \/ Admits(t, "answered", 202) /\ UNCHANGED remotes
                 \/ /\ intents'[req] = "aborted" /\ remotes[req] = "pending"
                    /\ remotes' = [remotes EXCEPT ![req] = "aborted"]
                    /\ Admits(t, "answered", 200)
          PROVE  DriverInv'
      <4>1. intents'[req] = intent
        BY <3>1, <3>4 DEF DriverInv, DriverTypes
      <4>2. CASE Admits(t, "answered", 202) /\ UNCHANGED remotes
        <5>1. remotes' = [remotes EXCEPT ![req] = remotes[req]]
          BY <3>2, <4>2
        <5>2. PICK call \in Calls :
                /\ serving' = [serving EXCEPT ![t] = call]
                /\ call.stage = "answered" /\ call.code = 202
                /\ call.op = serving[t].op /\ call.verb = serving[t].verb
          BY <3>2, <4>2, DriverSame
        <5>3. <<intent, remotes[req]>> \in IntentRows \X RemoteRows
          BY <3>2, <3>4
        <5>4. /\ call.stage = "answered" /\ call.op = serving[t].op /\ call.verb = "abort"
              /\ serving' = [serving EXCEPT ![t] = call] /\ call \in Calls /\ t \in Terminals
              /\ call.code # 200
          BY <2>0, <3>1, <3>2, <5>2
        <5>5. /\ intents' = [intents EXCEPT ![serving[t].op] = intent]
              /\ remotes' = [remotes EXCEPT ![serving[t].op] = remotes[req]]
          BY <3>4, <5>1
        <5>6. intent = intents[req] \/ (intents[req] = "pending" /\ intent = "aborted")
          BY <3>4
        <5> HIDE DEF req
        <5>7. req = serving[t].op
          BY DEF req
        <5> QED  BY <3>1, <5>3, <5>4, <5>5, <5>6, <5>7, AbortMoves
      <4>3. CASE /\ intent = "aborted" /\ remotes[req] = "pending"
                 /\ remotes' = [remotes EXCEPT ![req] = "aborted"]
                 /\ Admits(t, "answered", 200)
        <5>2. PICK call \in Calls :
                /\ serving' = [serving EXCEPT ![t] = call]
                /\ call.stage = "answered" /\ call.code = 200
                /\ call.op = serving[t].op /\ call.verb = serving[t].verb
          BY <3>2, <4>3, DriverSame
        <5>3. <<intent, "aborted">> \in IntentRows \X RemoteRows
          BY <3>2, <3>4
        <5>4. /\ call.stage = "answered" /\ call.op = serving[t].op /\ call.verb = "abort"
              /\ serving' = [serving EXCEPT ![t] = call] /\ call \in Calls /\ t \in Terminals
          BY <2>0, <3>1, <3>2, <5>2
        <5>5. /\ intents' = [intents EXCEPT ![serving[t].op] = intent]
              /\ remotes' = [remotes EXCEPT ![serving[t].op] = "aborted"]
          BY <3>4, <4>3
        <5>6. intent = intents[req] \/ (intents[req] = "pending" /\ intent = "aborted")
          BY <3>4
        <5> HIDE DEF req
        <5>7. req = serving[t].op
          BY DEF req
        <5> QED  BY <3>1, <4>3, <5>3, <5>4, <5>5, <5>6, <5>7, AbortMoves
      <4> QED  BY <3>4, <4>1, <4>2, <4>3
    <3>5. intents[req] = "aborted" => intents = [intents EXCEPT ![req] = "aborted"]
      BY <3>2
    <3> QED  BY <2>3, <3>2, <3>3, <3>4, <3>5 DEF KnoraAborts
  <2>4. CASE Forgotten(t)
    BY <2>0, <2>4, DriverKnows, DriverSteps DEF Forgotten, DriverAt
  <2>5. CASE GiveCommand(t)
    <3>1. PICK q \in DriverOps, a \in {"open", "retry", "abort", "status"} :
            terminal' = [terminal EXCEPT ![t] =
              [NoDriver EXCEPT !.op = q, !.action = a,
                 !.pc = CASE a = "open" -> "prepare" [] a = "status" -> "cloud" [] OTHER -> a]]
      BY <2>5 DEF GiveCommand
    <3>2. UNCHANGED <<trust, intents, remotes, serving, claims>>
      BY <2>5 DEF GiveCommand
    <3> DEFINE place == CASE a = "open" -> "prepare" [] a = "status" -> "cloud" [] OTHER -> a
               driver == [NoDriver EXCEPT !.op = q, !.action = a, !.pc = place]
    <3>3. /\ place \in {"prepare", "cloud", "retry", "abort"}
          /\ a = "abort" => place = "abort"
          /\ place = "cloud" => a # "abort"
      OBVIOUS
    <3> HIDE DEF place
    <3>4. /\ driver \in Drivers /\ driver.pc = place /\ driver.op = q /\ driver.action = a
          /\ driver.seen = "none"
      BY <3>3 DEF NoDriver, Drivers, DriverPlaces, IntentRows
    <3>5. terminal' = [terminal EXCEPT ![t] = driver]
      BY <3>1 DEF place
    <3> HIDE DEF driver
    <3>6. serving' = [serving EXCEPT ![t] = serving[t]]
      BY <2>0, <3>2
    <3> QED  BY <2>0, <3>2, <3>3, <3>4, <3>5, <3>6, DriverKnows, DriverSteps
  <2>6. CASE DriverDies(t)
    BY <2>0, <2>6, DriverKnows, DriverSteps DEF DriverDies, Exits
  <2>7. CASE PreparePairing(t) \/ PrepareKeyRotation(t)
    <3>1. /\ terminal[t].pc = "prepare" /\ Prepared(t)
          /\ UNCHANGED <<trust, remotes, serving, claims>>
      BY <2>7 DEF PreparePairing, PrepareKeyRotation, DriverAt
    <3>2. op \in DriverOps /\ terminal[t].action # "abort"
      BY <3>1, DriverKnows
    <3>3. CASE /\ NothingLive(op) /\ intents' = [intents EXCEPT ![op] = "pending"]
               /\ terminal' = [terminal EXCEPT ![t] = [@ EXCEPT !.pc = "start", !.token = TRUE]]
      <4> DEFINE driver == [terminal[t] EXCEPT !.pc = "start", !.token = TRUE]
      <4>1. /\ driver \in Drivers /\ driver.pc = "start" /\ driver.op = op
            /\ driver.action = terminal[t].action /\ driver.seen = terminal[t].seen
        BY <2>0 DEF Drivers, DriverPlaces
      <4>2. terminal' = [terminal EXCEPT ![t] = driver]
        BY <3>3
      <4> HIDE DEF driver
      <4>3. intents[op] = "none" /\ remotes[op] \notin {"switched", "done", "aborted"}
        BY <3>2, <3>3 DEF NothingLive, DriverInv, RowsAgree
      <4>4. /\ remotes' = [remotes EXCEPT ![op] = remotes[op]] /\ remotes[op] \in RemoteRows
            /\ "pending" \in IntentRows
        BY <3>1, <3>2 DEF DriverInv, DriverTypes, IntentRows
      <4>5. DriverTypes /\ RowsAgree /\ UNCHANGED trust
        BY <3>1 DEF DriverInv
      <4>6. RowsGoOn
        <5> HIDE DEF op
        <5> QED  BY <3>2, <3>3, <4>3, <4>4, <4>5, RowChanges
      <4>7. /\ serving' = [serving EXCEPT ![t] = serving[t]] /\ UNCHANGED claims
        BY <2>0, <3>1
      <4>8. /\ serving[t].stage # "none" => serving[t].op \in DriverOps
            /\ serving[t].stage = "answered" /\ serving[t].verb = "abort" /\ serving[t].code = 200 =>
                 remotes'[serving[t].op] = "aborted"
            /\ driver.seen = "aborted" => intents'[driver.op] = "aborted"
        BY <3>1, <4>1, <4>6, DriverKnows DEF RowsGoOn
      <4> QED  BY <2>0, <3>2, <4>1, <4>2, <4>6, <4>7, <4>8, DriverMoves
    <3>4. CASE Moves(t, "retry") /\ UNCHANGED intents
      <4>1. PICK driver \in Drivers :
              /\ terminal' = [terminal EXCEPT ![t] = driver]
              /\ driver.pc = "retry" /\ driver.action = terminal[t].action
              /\ driver.op = terminal[t].op /\ driver.seen = terminal[t].seen
        BY <3>4, DriverSame, "retry" \in DriverPlaces DEF DriverPlaces
      <4>2. driver.seen = "aborted" => intents[driver.op] = "aborted"
        BY <3>1, <4>1, DriverKnows
      <4>3. serving' = [serving EXCEPT ![t] = serving[t]] /\ UNCHANGED <<trust, intents, remotes, claims>>
        BY <2>0, <3>1, <3>4
      <4> QED  BY <2>0, <3>2, <4>1, <4>2, <4>3, DriverKnows, DriverSteps
    <3>5. CASE Exits(t) /\ UNCHANGED intents
      <4>1. serving' = [serving EXCEPT ![t] = serving[t]] /\ UNCHANGED <<trust, intents, remotes, claims>>
        BY <2>0, <3>1, <3>5
      <4> QED  BY <2>0, <3>5, <4>1, DriverKnows, DriverSteps DEF Exits
    <3> QED  BY <3>1, <3>3, <3>4, <3>5 DEF Prepared
  <2>8. CASE SendToken(t)
    <3> DEFINE driver == [terminal[t] EXCEPT !.pc = "opened", !.token = FALSE]
               call == [NoCall EXCEPT !.stage = "sent", !.verb = "start", !.op = op]
    <3>1. /\ terminal[t].pc = "start" /\ UNCHANGED <<trust, intents, remotes, claims>>
          /\ terminal' = [terminal EXCEPT ![t] = driver] /\ serving' = [serving EXCEPT ![t] = call]
      BY <2>8 DEF SendToken, DriverAt, Sends
    <3>2. op \in DriverOps /\ terminal[t].action # "abort"
      BY <3>1, DriverKnows
    <3>3. /\ driver \in Drivers /\ driver.pc = "opened" /\ driver.op = op
          /\ driver.action = terminal[t].action /\ driver.seen = terminal[t].seen
      BY <2>0 DEF Drivers, DriverPlaces
    <3>4. call \in Calls /\ call.stage = "sent" /\ call.verb = "start" /\ call.op = op
      BY <3>2 DEF NoCall, Calls, Codes
    <3> HIDE DEF driver, call
    <3> QED  BY <3>1, <3>2, <3>3, <3>4, DriverKnows, DriverSteps
  <2>9. CASE SendRetry(t)
    <3> DEFINE call == [NoCall EXCEPT !.stage = "sent", !.verb = "retry", !.op = op]
    <3>1. /\ terminal[t].pc = "retry" /\ UNCHANGED <<trust, intents, remotes, claims>>
          /\ Moves(t, "opened") /\ serving' = [serving EXCEPT ![t] = call]
      BY <2>9 DEF SendRetry, DriverAt, Sends
    <3>2. op \in DriverOps /\ terminal[t].action # "abort"
      BY <3>1, DriverKnows
    <3>3. PICK driver \in Drivers :
            /\ terminal' = [terminal EXCEPT ![t] = driver]
            /\ driver.pc = "opened" /\ driver.action = terminal[t].action
            /\ driver.op = terminal[t].op /\ driver.seen = terminal[t].seen
      BY <3>1, DriverSame, "opened" \in DriverPlaces DEF DriverPlaces
    <3>4. call \in Calls /\ call.stage = "sent" /\ call.verb = "retry" /\ call.op = op
      BY <3>2 DEF NoCall, Calls, Codes
    <3> HIDE DEF call
    <3> QED  BY <3>1, <3>2, <3>3, <3>4, DriverKnows, DriverSteps
  <2>10. CASE OpenAnswered(t)
    <3>1. /\ terminal[t].pc = "opened" /\ UNCHANGED <<trust, intents, remotes, claims>>
          /\ Moves(t, "cloud") \/ Exits(t)
          /\ serving' = [serving EXCEPT ![t] = NoCall]
      BY <2>10 DEF OpenAnswered, DriverAt, Receives
    <3>2. op \in DriverOps /\ terminal[t].action # "abort"
      BY <3>1, DriverKnows
    <3>3. CASE Moves(t, "cloud")
      <4>1. PICK driver \in Drivers :
              /\ terminal' = [terminal EXCEPT ![t] = driver]
              /\ driver.pc = "cloud" /\ driver.action = terminal[t].action
              /\ driver.op = terminal[t].op /\ driver.seen = terminal[t].seen
        BY <3>3, DriverSame, "cloud" \in DriverPlaces DEF DriverPlaces
      <4>2. driver.seen = "aborted" => intents[driver.op] = "aborted"
        BY <3>1, <4>1, DriverKnows
      <4>3. serving' = [serving EXCEPT ![t] = NoCall] /\ UNCHANGED <<trust, intents, remotes, claims>>
        BY <3>1
      <4> QED  BY <2>0, <3>2, <4>1, <4>2, <4>3, DriverSteps
    <3>4. CASE Exits(t)
      BY <2>0, <3>1, <3>4, DriverSteps DEF Exits
    <3> QED  BY <3>1, <3>3, <3>4
  <2>11. CASE SendAbort(t)
    <3> DEFINE call == [NoCall EXCEPT !.stage = "sent", !.verb = "abort", !.op = op]
    <3>1. /\ terminal[t].pc = "abort" /\ UNCHANGED <<trust, intents, remotes, claims>>
          /\ Moves(t, "aborted") /\ serving' = [serving EXCEPT ![t] = call]
      BY <2>11 DEF SendAbort, DriverAt, Sends
    <3>2. op \in DriverOps
      BY <3>1, DriverKnows
    <3>3. PICK driver \in Drivers :
            /\ terminal' = [terminal EXCEPT ![t] = driver]
            /\ driver.pc = "aborted" /\ driver.action = terminal[t].action
            /\ driver.op = terminal[t].op /\ driver.seen = terminal[t].seen
      BY <3>1, DriverSame, "aborted" \in DriverPlaces DEF DriverPlaces
    <3>4. call \in Calls /\ call.stage = "sent" /\ call.verb = "abort" /\ call.op = op
      BY <3>2 DEF NoCall, Calls, Codes
    <3> HIDE DEF call
    <3> QED  BY <3>1, <3>2, <3>3, <3>4, DriverKnows, DriverSteps
  <2>12. CASE AbortAnswered(t)
    <3>1. /\ terminal[t].pc = "aborted" /\ UNCHANGED <<trust, intents, remotes, claims>>
          /\ serving' = [serving EXCEPT ![t] = NoCall] /\ serving[t].stage = "answered"
          /\ Moves(t, "cloud_abort") \/ Moves(t, "cloud") \/ Exits(t)
          /\ ~(Moves(t, "cloud_abort") \/ Exits(t)) => serving[t].code = 200
      BY <2>12 DEF AbortAnswered, DriverAt, Receives, Code
    <3>2. op \in DriverOps /\ serving[t].verb = "abort" /\ serving[t].op = op
      BY <3>1, DriverKnows
    <3>3. CASE Moves(t, "cloud_abort")
      <4>1. PICK driver \in Drivers :
              /\ terminal' = [terminal EXCEPT ![t] = driver]
              /\ driver.pc = "cloud_abort" /\ driver.action = terminal[t].action
              /\ driver.op = terminal[t].op /\ driver.seen = terminal[t].seen
        BY <3>3, DriverSame, "cloud_abort" \in DriverPlaces DEF DriverPlaces
      <4> QED  BY <2>0, <3>1, <3>2, <4>1, DriverKnows, DriverSteps
    <3>4. CASE Exits(t)
      BY <2>0, <3>1, <3>4, DriverSteps DEF Exits
    <3>5. CASE Moves(t, "cloud") /\ ~(Moves(t, "cloud_abort") \/ Exits(t))
      <4>1. PICK driver \in Drivers :
              /\ terminal' = [terminal EXCEPT ![t] = driver]
              /\ driver.pc = "cloud" /\ driver.action = terminal[t].action
              /\ driver.op = terminal[t].op /\ driver.seen = terminal[t].seen
        BY <3>5, DriverSame, "cloud" \in DriverPlaces DEF DriverPlaces
      <4>2. remotes[op] = "aborted"
        BY <3>1, <3>2, <3>5, DriverKnows
      <4> QED  BY <2>0, <3>1, <3>2, <4>1, <4>2, DriverKnows, DriverSteps
    <3> QED  BY <3>1, <3>3, <3>4, <3>5
  <2>13. CASE AbortPairingAlone(t)
    <3>1. /\ terminal[t].pc = "cloud_abort" /\ UNCHANGED <<trust, remotes, serving>> /\ op \in DriverOps
          /\ terminal' = [terminal EXCEPT ![t] = NoDriver]
      BY <2>13, DriverKnows DEF AbortPairingAlone, DriverAt, CloudRefuses, Exits
    <3>2. CASE CloudCloses(op) /\ Claims(t, "aborted")
      BY <2>0, <3>1, <3>2, CloseGoesOn, ClaimedAborted
    <3>3. CASE UNCHANGED <<intents, claims>>
      <4>1. serving' = [serving EXCEPT ![t] = serving[t]]
        BY <2>0, <3>1
      <4> QED  BY <2>0, <3>1, <3>3, <4>1, DriverKnows, DriverSteps
    <3> QED  BY <2>13, <3>2, <3>3 DEF AbortPairingAlone, CloudRefuses
  <2>14. CASE AbortRotationAlone(t)
    <3>1. /\ terminal[t].pc = "cloud_abort" /\ UNCHANGED <<trust, remotes, serving, claims>>
          /\ op \in DriverOps /\ ~Pairing
      BY <2>14, DriverKnows DEF AbortRotationAlone, DriverAt, CloudRefuses
    <3>2. CASE CloudCloses(op) /\ Moves(t, "cloud")
      <4>1. PICK driver \in Drivers :
              /\ terminal' = [terminal EXCEPT ![t] = driver]
              /\ driver.pc = "cloud" /\ driver.action = terminal[t].action
              /\ driver.op = terminal[t].op /\ driver.seen = terminal[t].seen
        BY <3>2, DriverSame, "cloud" \in DriverPlaces DEF DriverPlaces
      <4>2. RowsGoOn
        BY <3>1, <3>2, CloseGoesOn
      <4>3. /\ driver.seen = "aborted" => intents'[driver.op] = "aborted"
            /\ serving[t].stage = "answered" /\ serving[t].verb = "abort" /\ serving[t].code = 200 =>
                 remotes'[serving[t].op] = "aborted"
            /\ serving[t].stage # "none" => serving[t].op \in DriverOps
        BY <3>1, <4>1, <4>2, DriverKnows DEF RowsGoOn
      <4>4. serving' = [serving EXCEPT ![t] = serving[t]] /\ UNCHANGED claims
        BY <2>0, <3>1
      <4>5. driver.action = "abort" =>
              driver.pc \in {"abort", "aborted", "cloud_abort", "cloud", "knora"}
        BY <4>1
      <4> QED  BY <2>0, <3>1, <4>1, <4>2, <4>3, <4>4, <4>5, DriverMoves
    <3>3. CASE UNCHANGED intents /\ Exits(t)
      <4>1. serving' = [serving EXCEPT ![t] = serving[t]]
        BY <2>0, <3>1
      <4> QED  BY <2>0, <3>1, <3>3, <4>1, DriverKnows, DriverSteps DEF Exits
    <3> QED  BY <2>14, <3>2, <3>3 DEF AbortRotationAlone, CloudRefuses
  <2>15. CASE PairingAbortShown(t)
    <3>1. /\ terminal[t].pc = "cloud" /\ Pairing /\ terminal[t].action = "abort"
          /\ UNCHANGED <<trust, intents, remotes, serving>> /\ op \in DriverOps
          /\ terminal' = [terminal EXCEPT ![t] = NoDriver]
          /\ Claims(t, "aborted") \/ UNCHANGED claims
      BY <2>15, DriverKnows DEF PairingAbortShown, DriverAt, Exits
    <3>2. remotes[op] = "aborted" /\ intents[op] = "aborted"
      BY <3>1, DriverKnows DEF DriverInv, RowsAgree
    <3>3. RowsGoOn /\ intents'[op] = "aborted"
      BY <3>1, <3>2, RowsStay
    <3> QED  BY <2>0, <3>1, <3>3, ClaimedAborted, ClaimedNothing
  <2>16. CASE CloudShown(t)
    <3>1. /\ terminal[t].pc = "cloud" /\ UNCHANGED <<trust, intents, remotes, serving, claims>>
          /\ op \in DriverOps /\ serving' = [serving EXCEPT ![t] = serving[t]]
      BY <2>0, <2>16, DriverKnows DEF CloudShown, DriverAt
    <3>2. CASE Exits(t)
      BY <2>0, <3>1, <3>2, DriverKnows, DriverSteps DEF Exits
    <3>3. CASE /\ latestOp = op
               /\ terminal' = [terminal EXCEPT ![t] = [@ EXCEPT !.pc = "knora", !.seen = intents[latestOp]]]
      <4> DEFINE driver == [terminal[t] EXCEPT !.pc = "knora", !.seen = intents[op]]
      <4>1. intents[op] \in IntentRows
        BY <3>1 DEF DriverInv, DriverTypes
      <4>2. terminal' = [terminal EXCEPT ![t] = driver]
        BY <3>3
      <4>3. /\ driver \in Drivers /\ driver.pc = "knora" /\ driver.op = op
            /\ driver.action = terminal[t].action /\ driver.seen = intents[op]
        BY <2>0, <4>1 DEF Drivers, DriverPlaces
      <4>4. terminal[t].action = "abort" => driver.pc \in {"abort", "aborted", "cloud_abort", "cloud", "knora"}
        BY <4>3
      <4>5. /\ driver.pc # "cloud" /\ driver.pc \notin {"opened", "aborted"}
            /\ driver.seen = "aborted" => intents[driver.op] = "aborted"
        BY <4>3
      <4>6. /\ serving[t] \in Calls
            /\ serving[t].stage # "none" => serving[t].op \in DriverOps
            /\ serving[t].stage = "answered" /\ serving[t].verb = "abort" /\ serving[t].code = 200 =>
                 remotes[serving[t].op] = "aborted"
        BY <2>0, DriverKnows
      <4> HIDE DEF driver
      <4> QED  BY <3>1, <4>2, <4>3, <4>4, <4>5, <4>6, DriverSteps
    <3> QED  BY <2>16, <3>2, <3>3 DEF CloudShown
  <2>17. CASE PairingShown(t)
    <3>1. /\ terminal[t].pc = "knora" /\ UNCHANGED <<trust, intents, remotes, serving>>
          /\ op \in DriverOps /\ terminal' = [terminal EXCEPT ![t] = NoDriver]
          /\ (Claims(t, "established") /\ remotes[op] = "done") \/ UNCHANGED claims
      BY <2>17, DriverKnows DEF PairingShown, DriverAt, Exits
    <3>2. RowsGoOn /\ (remotes[op] = "done" => remotes'[op] = "done")
      BY <3>1, RowsStay
    <3> QED  BY <2>0, <3>1, <3>2, ClaimedEstablished, ClaimedNothing
  <2>18. CASE RotationShown(t)
    <3>1. /\ terminal[t].pc = "knora" /\ UNCHANGED <<trust, intents, remotes, serving>>
          /\ op \in DriverOps /\ terminal' = [terminal EXCEPT ![t] = NoDriver]
          /\ \/ Claims(t, "established") /\ remotes[op] = "done"
             \/ Claims(t, "aborted") /\ terminal[t].seen = "aborted"
             \/ UNCHANGED claims
      BY <2>18, DriverKnows DEF RotationShown, DriverAt, Exits
    <3>2. /\ RowsGoOn /\ (remotes[op] = "done" => remotes'[op] = "done")
          /\ terminal[t].seen = "aborted" => intents'[op] = "aborted"
      BY <3>1, RowsStay, DriverKnows
    <3> QED  BY <2>0, <3>1, <3>2, ClaimedAborted, ClaimedEstablished, ClaimedNothing
  <2> QED
    BY <1>00, <2>1, <2>2, <2>3, <2>4, <2>5, <2>6, <2>7, <2>8, <2>9, <2>10, <2>11, <2>12, <2>13,
       <2>14, <2>15, <2>16, <2>17, <2>18
<1> QED  BY <1>0, <1>00 DEF DriverStep

-----------------------------------------------------------------------------
(* The abort drill: while an operation is pending at WeKnora, Nextcloud has a row of it, so it
   refuses to remove the binding, and what is owned is removed only after the binding. *)
SmokeParts == {"folder", "binding", "base"}
SmokeFields == {"pc", "owned", "operations", "todo", "tries", "safe", "failed", "passed"}
SmokeRows == {"none", "pending", "active", "aborted"}
SmokeTypes ==
  /\ cloudOps \in [AllSmokeOps -> SmokeRows] /\ knoraOps \in [AllSmokeOps -> SmokeRows]
  /\ DOMAIN smoke = SmokeFields /\ smoke = [field \in SmokeFields |-> smoke[field]]
  /\ smoke.owned \in SUBSET fixtureParts /\ fixtureParts \in SUBSET SmokeParts
OwnedSoFar ==
  /\ smoke.pc \in {"idle", "folder"} => smoke.owned = {}
  /\ smoke.pc = "binding" => smoke.owned = {"folder"}
  /\ smoke.pc = "base" => smoke.owned = {"folder", "binding"}
  /\ smoke.pc \in SmokeOps \cup {"abort_lost", "relay", "pair", "abort", "commit", "refused"} =>
       smoke.owned = SmokeParts
  /\ smoke.pc = "pair" => cloudOps["unfinished"] # "none"
PendingHasRow ==
  /\ \A o \in SmokeOps : knoraOps[o] = "pending" => cloudOps[o] # "none" /\ smoke.owned = SmokeParts
  /\ knoraOps["foreign"] = "pending" => cloudOps["foreign"] # "none" /\ "binding" \in fixtureParts
SmokeInv == SmokeTypes /\ OwnedSoFar /\ PendingHasRow

LEMMA SmokeBegins == SmokeInit => SmokeInv
BY DEF SmokeInit, SmokeInv, SmokeTypes, OwnedSoFar, PendingHasRow, NoSmoke, NothingYet, SmokeFields,
       SmokeRows, AllSmokeOps, SmokeOps, SmokeParts


SmokeRecord(r) == DOMAIN r = SmokeFields /\ r = [field \in SmokeFields |-> r[field]]
(* A row that Nextcloud has stays, no row becomes pending at WeKnora, nothing is made or removed. *)
LEMMA SmokeStays ==
  ASSUME SmokeInv, SmokeRecord(smoke'), smoke'.owned = smoke.owned, UNCHANGED fixtureParts,
         cloudOps' \in [AllSmokeOps -> SmokeRows], knoraOps' \in [AllSmokeOps -> SmokeRows],
         \A o \in AllSmokeOps : cloudOps[o] # "none" => cloudOps'[o] # "none",
         \A o \in AllSmokeOps : knoraOps'[o] = "pending" => knoraOps[o] = "pending",
         \/ smoke'.pc = smoke.pc
         \/ smoke'.pc \in {"cleanup", "close", "close_cloud", "unrelay", "unbind", "rest", "ended"}
         \/ /\ smoke.pc \in SmokeOps \cup {"abort_lost", "relay", "pair", "abort", "commit", "refused"}
            /\ smoke'.pc \in SmokeOps \cup {"abort_lost", "relay", "abort", "commit", "refused"}
  PROVE  SmokeInv'
<1>1. SmokeTypes'
  BY DEF SmokeInv, SmokeTypes, SmokeRecord
<1>2. OwnedSoFar'
  BY DEF SmokeInv, OwnedSoFar, SmokeTypes, SmokeOps, AllSmokeOps
<1>3. PendingHasRow'
  BY DEF SmokeInv, PendingHasRow, SmokeOps, AllSmokeOps
<1> QED  BY <1>1, <1>2, <1>3 DEF SmokeInv

LEMMA SmokeGoesOn == SmokeInv /\ [SmokeStep]_smokeVars => SmokeInv'
<1> SUFFICES ASSUME SmokeInv, [SmokeStep]_smokeVars PROVE SmokeInv'
  OBVIOUS
<1>0. /\ SmokeRecord(smoke) /\ cloudOps \in [AllSmokeOps -> SmokeRows]
      /\ knoraOps \in [AllSmokeOps -> SmokeRows]
      /\ smoke.owned \subseteq fixtureParts /\ fixtureParts \subseteq SmokeParts
  BY DEF SmokeInv, SmokeTypes, SmokeRecord
<1>00. /\ "pending" \in SmokeRows /\ "aborted" \in SmokeRows /\ "active" \in SmokeRows
       /\ "pending" # "none" /\ "aborted" # "none" /\ "active" # "none" /\ "aborted" # "pending"
  BY DEF SmokeRows
<1>000. ASSUME NEW pc, SmokeGoto(pc)
        PROVE  SmokeRecord(smoke') /\ smoke'.pc = pc /\ smoke'.owned = smoke.owned
  BY <1>0, <1>000 DEF SmokeRecord, SmokeFields, SmokeGoto
<1>1. CASE UNCHANGED smokeVars
  BY <1>1 DEF smokeVars, SmokeInv, SmokeTypes, OwnedSoFar, PendingHasRow
<1>2. CASE CheckStacks
  BY <1>0, <1>2, <1>000 DEF CheckStacks, SmokeAt, SmokeInv, SmokeTypes, SmokeRecord, OwnedSoFar, PendingHasRow, SmokeOps
<1>3. ASSUME NEW piece, NEW next, Create(piece, next),
             <<piece, next>> \in {<<"folder", "binding">>, <<"binding", "base">>, <<"base", "lost">>}
      PROVE  SmokeInv'
  <2>1. /\ smoke.pc = piece /\ fixtureParts' = fixtureParts \cup {piece}
        /\ UNCHANGED <<cloudOps, knoraOps>>
    BY <1>3 DEF Create, SmokeAt
  <2>2. CASE smoke' = [smoke EXCEPT !.owned = @ \cup {piece}, !.pc = next]
    <3>1. /\ SmokeRecord(smoke') /\ smoke'.owned = smoke.owned \cup {piece} /\ smoke'.pc = next
      BY <1>0, <2>2 DEF SmokeRecord, SmokeFields
    <3>2. SmokeTypes'
      BY <1>0, <1>3, <2>1, <3>1 DEF SmokeTypes, SmokeRecord, SmokeParts
    <3>3. OwnedSoFar'
      BY <1>3, <2>1, <3>1 DEF SmokeInv, OwnedSoFar, SmokeParts, SmokeOps
    <3>4. PendingHasRow'
      BY <1>3, <2>1, <3>1, <1>0 DEF SmokeInv, PendingHasRow, SmokeParts
    <3> QED  BY <3>2, <3>3, <3>4 DEF SmokeInv
  <2>3. CASE SmokeGoto("cleanup")
    <3>1. /\ SmokeRecord(smoke') /\ smoke'.owned = smoke.owned /\ smoke'.pc = "cleanup"
      BY <1>000, <2>3
    <3>2. SmokeTypes'
      BY <1>0, <1>3, <2>1, <3>1 DEF SmokeTypes, SmokeRecord, SmokeParts
    <3>3. OwnedSoFar'
      BY <3>1 DEF OwnedSoFar, SmokeOps
    <3>4. PendingHasRow'
      BY <2>1, <3>1 DEF SmokeInv, PendingHasRow
    <3> QED  BY <3>2, <3>3, <3>4 DEF SmokeInv
  <2> QED  BY <1>3, <2>2, <2>3 DEF Create
<1>4. ASSUME NEW op \in SmokeOps, NEW next \in {"abort_lost", "pair", "commit"}, PrepareSmoke(op, next),
             next = "pair" => op = "unfinished"
      PROVE  SmokeInv'
  <2>0. smoke.pc = op /\ UNCHANGED <<fixtureParts, knoraOps>>
    BY <1>4 DEF PrepareSmoke, SmokeAt
  <2>1. \/ /\ cloudOps' = [cloudOps EXCEPT ![op] = "pending"]
           /\ smoke' = [smoke EXCEPT !.operations = Append(@, op), !.pc = next]
        \/ /\ cloudOps' = [cloudOps EXCEPT ![op] = "pending"] /\ SmokeGoto("cleanup")
        \/ UNCHANGED cloudOps /\ SmokeGoto("cleanup")
    BY <1>4 DEF PrepareSmoke
  <2>2. /\ cloudOps' \in [AllSmokeOps -> SmokeRows]
        /\ \A o \in AllSmokeOps : cloudOps[o] # "none" => cloudOps'[o] # "none"
    BY <1>0, <1>00, <2>1
  <2>3. CASE SmokeGoto("cleanup")
    BY <1>0, <1>000, <2>0, <2>2, <2>3, SmokeStays
  <2>4. CASE /\ cloudOps' = [cloudOps EXCEPT ![op] = "pending"]
             /\ smoke' = [smoke EXCEPT !.operations = Append(@, op), !.pc = next]
    <3>1. SmokeRecord(smoke') /\ smoke'.owned = smoke.owned /\ smoke'.pc = next
      BY <1>0, <2>4 DEF SmokeRecord, SmokeFields
    <3>2. CASE next # "pair"
      BY <1>0, <1>4, <2>0, <2>2, <3>1, <3>2, SmokeStays
    <3>3. CASE next = "pair"
      <4>1. op = "unfinished" /\ cloudOps'["unfinished"] # "none"
        BY <1>0, <1>00, <1>4, <2>4, <3>3 DEF AllSmokeOps, SmokeOps
      <4>2. SmokeTypes'
        BY <1>0, <2>0, <2>2, <3>1 DEF SmokeTypes, SmokeRecord
      <4>3. OwnedSoFar'
        BY <2>0, <3>1, <3>3, <4>1 DEF SmokeInv, OwnedSoFar, SmokeOps
      <4>4. PendingHasRow'
        BY <2>0, <2>2, <3>1 DEF SmokeInv, PendingHasRow, AllSmokeOps
      <4> QED  BY <4>2, <4>3, <4>4 DEF SmokeInv
    <3> QED  BY <3>2, <3>3
  <2> QED  BY <2>1, <2>3, <2>4
<1>5. CASE AbortLost
  <2>1. /\ smoke.pc = "abort_lost" /\ cloudOps' = [cloudOps EXCEPT !["lost"] = "aborted"]
        /\ SmokeGoto("relay") /\ UNCHANGED <<fixtureParts, knoraOps>>
    BY <1>5 DEF AbortLost, SmokeAt
  <2>2. /\ cloudOps' \in [AllSmokeOps -> SmokeRows]
        /\ \A o \in AllSmokeOps : cloudOps[o] # "none" => cloudOps'[o] # "none"
    BY <1>0, <1>00, <2>1
  <2> QED  BY <1>0, <1>000, <2>1, <2>2, SmokeStays
<1>6. CASE StartRelay
  BY <1>0, <1>000, <1>6, SmokeStays DEF StartRelay, SmokeAt, SmokeOps
<1>7. CASE PairUnfinished
  <2>1. /\ smoke.pc = "pair" /\ knoraOps' = [knoraOps EXCEPT !["unfinished"] = "pending"]
        /\ SmokeGoto("abort") \/ SmokeGoto("cleanup")
        /\ UNCHANGED <<fixtureParts, cloudOps>>
    BY <1>7 DEF PairUnfinished, SmokeAt
  <2>2. /\ SmokeRecord(smoke') /\ smoke'.owned = smoke.owned /\ smoke'.pc \in {"abort", "cleanup"}
    BY <1>000, <2>1
  <2>3. knoraOps' \in [AllSmokeOps -> SmokeRows]
    BY <1>0, <1>00, <2>1
  <2>4. smoke.owned = SmokeParts /\ cloudOps["unfinished"] # "none"
    BY <2>1 DEF SmokeInv, OwnedSoFar
  <2>5. SmokeTypes'
    BY <1>0, <2>1, <2>2, <2>3 DEF SmokeTypes, SmokeRecord
  <2>6. OwnedSoFar'
    BY <2>2, <2>4 DEF OwnedSoFar, SmokeOps
  <2>7. PendingHasRow'
    <3>1. \A o \in AllSmokeOps : o # "unfinished" => knoraOps'[o] = knoraOps[o]
      BY <1>0, <2>1
    <3> QED  BY <2>1, <2>2, <2>4, <3>1 DEF SmokeInv, PendingHasRow, AllSmokeOps, SmokeOps
  <2> QED  BY <2>5, <2>6, <2>7 DEF SmokeInv
<1>8. ASSUME NEW op, KnoraAborted(op)
      PROVE  /\ cloudOps' \in [AllSmokeOps -> SmokeRows] /\ knoraOps' \in [AllSmokeOps -> SmokeRows]
             /\ \A o \in AllSmokeOps : cloudOps[o] # "none" => cloudOps'[o] # "none"
             /\ \A o \in AllSmokeOps : knoraOps'[o] = "pending" => knoraOps[o] = "pending"
  BY <1>0, <1>00, <1>8 DEF KnoraAborted
<1>9. CASE AbortUnfinished
  <2>1. /\ smoke.pc = "abort" /\ UNCHANGED fixtureParts
        /\ \/ KnoraAborted("unfinished") /\ SmokeGoto("activated")
           \/ SmokeGoto("cleanup") /\ UNCHANGED <<cloudOps, knoraOps>>
    BY <1>9 DEF AbortUnfinished, SmokeAt
  <2>2. CASE SmokeGoto("cleanup") /\ UNCHANGED <<cloudOps, knoraOps>>
    BY <1>0, <1>000, <2>1, <2>2, SmokeStays
  <2>3. CASE KnoraAborted("unfinished") /\ SmokeGoto("activated")
    BY <1>0, <1>000, <1>8, <2>1, <2>3, SmokeStays DEF SmokeOps
  <2> QED  BY <2>1, <2>2, <2>3
<1>10. CASE CommitActivated
  <2>1. /\ smoke.pc = "commit" /\ cloudOps' = [cloudOps EXCEPT !["activated"] = "active"]
        /\ SmokeGoto("refused") /\ UNCHANGED <<fixtureParts, knoraOps>>
    BY <1>10 DEF CommitActivated, SmokeAt
  <2>2. /\ cloudOps' \in [AllSmokeOps -> SmokeRows]
        /\ \A o \in AllSmokeOps : cloudOps[o] # "none" => cloudOps'[o] # "none"
    BY <1>0, <1>00, <2>1
  <2> QED  BY <1>0, <1>000, <2>1, <2>2, SmokeStays
<1> DEFINE Late == {"cleanup", "close", "close_cloud", "unrelay", "unbind", "rest", "ended"}
<1>11. CASE AbortsRefused
  <2>1. /\ SmokeRecord(smoke') /\ smoke'.owned = smoke.owned /\ smoke'.pc \in Late
        /\ UNCHANGED <<fixtureParts, cloudOps, knoraOps>>
    BY <1>0, <1>000, <1>11 DEF AbortsRefused, SmokeRecord, SmokeFields
  <2> QED  BY <1>0, <2>1, SmokeStays
<1>12. CASE RequestFails
  <2>1. /\ SmokeRecord(smoke') /\ smoke'.owned = smoke.owned /\ smoke'.pc \in Late
        /\ UNCHANGED <<fixtureParts, cloudOps, knoraOps>>
    BY <1>0, <1>000, <1>12 DEF RequestFails, SmokeRecord, SmokeFields
  <2> QED  BY <1>0, <2>1, SmokeStays
<1>14. CASE BeginCleanup
  <2>1. /\ SmokeRecord(smoke') /\ smoke'.owned = smoke.owned /\ smoke'.pc \in Late
        /\ UNCHANGED <<fixtureParts, cloudOps, knoraOps>>
    BY <1>0, <1>000, <1>14 DEF BeginCleanup, SmokeRecord, SmokeFields
  <2> QED  BY <1>0, <2>1, SmokeStays
<1>17. CASE LookForForeign
  <2>1. /\ SmokeRecord(smoke') /\ smoke'.owned = smoke.owned /\ smoke'.pc \in Late
        /\ UNCHANGED <<fixtureParts, cloudOps, knoraOps>>
    BY <1>0, <1>000, <1>17 DEF LookForForeign, SmokeRecord, SmokeFields, Doubt
  <2> QED  BY <1>0, <2>1, SmokeStays
<1>18. CASE CleanupRequestFails
  <2>1. /\ SmokeRecord(smoke') /\ smoke'.owned = smoke.owned /\ smoke'.pc \in Late
        /\ UNCHANGED <<fixtureParts, cloudOps, knoraOps>>
    BY <1>0, <1>000, <1>18 DEF CleanupRequestFails, SmokeRecord, SmokeFields
  <2> QED  BY <1>0, <2>1, SmokeStays
<1>19. CASE RemoveRelay
  <2>1. /\ SmokeRecord(smoke') /\ smoke'.owned = smoke.owned /\ smoke'.pc \in Late
        /\ UNCHANGED <<fixtureParts, cloudOps, knoraOps>>
    BY <1>0, <1>000, <1>19 DEF RemoveRelay, SmokeRecord, SmokeFields
  <2> QED  BY <1>0, <2>1, SmokeStays
<1>13. CASE RelayDies
  BY <1>0, <1>13, SmokeStays DEF RelayDies
<1>15. CASE CloseKnora
  <2>1. /\ SmokeRecord(smoke') /\ smoke'.owned = smoke.owned /\ smoke'.pc \in Late
        /\ UNCHANGED fixtureParts
    BY <1>0, <1>15 DEF CloseKnora, SmokeRecord, SmokeFields, SmokeAt, Doubt
  <2>2. UNCHANGED <<cloudOps, knoraOps>> \/ \E op : KnoraAborted(op)
    BY <1>15, Zenon DEF CloseKnora
  <2> QED  BY <1>0, <1>8, <2>1, <2>2, SmokeStays
<1>16. CASE CloseCloud
  <2>1. /\ SmokeRecord(smoke') /\ smoke'.owned = smoke.owned /\ smoke'.pc \in Late
        /\ UNCHANGED <<fixtureParts, knoraOps>>
    BY <1>0, <1>16 DEF CloseCloud, SmokeRecord, SmokeFields
  <2>2. UNCHANGED cloudOps \/ \E op : cloudOps' = [cloudOps EXCEPT ![op] = "aborted"]
    BY <1>16, Zenon DEF CloseCloud
  <2>3. /\ cloudOps' \in [AllSmokeOps -> SmokeRows]
        /\ \A o \in AllSmokeOps : cloudOps[o] # "none" => cloudOps'[o] # "none"
    BY <1>0, <1>00, <2>2
  <2> QED  BY <1>0, <2>1, <2>3, SmokeStays
<1>20. CASE ForeignIntent
  <2>1. /\ "binding" \in fixtureParts /\ cloudOps["foreign"] = "none"
        /\ cloudOps' = [cloudOps EXCEPT !["foreign"] = "pending"]
        /\ knoraOps' = knoraOps \/ knoraOps' = [knoraOps EXCEPT !["foreign"] = "pending"]
        /\ UNCHANGED <<fixtureParts, smoke>>
    BY <1>20 DEF ForeignIntent
  <2>2. /\ cloudOps' \in [AllSmokeOps -> SmokeRows] /\ knoraOps' \in [AllSmokeOps -> SmokeRows]
        /\ "foreign" \in AllSmokeOps /\ cloudOps'["foreign"] # "none"
        /\ \A o \in AllSmokeOps : o # "foreign" => cloudOps'[o] = cloudOps[o] /\ knoraOps'[o] = knoraOps[o]
    BY <1>0, <1>00, <2>1 DEF AllSmokeOps
  <2>3. SmokeTypes'
    BY <1>0, <2>1, <2>2 DEF SmokeTypes, SmokeRecord
  <2>4. OwnedSoFar'
    BY <2>1, <2>2 DEF SmokeInv, OwnedSoFar, AllSmokeOps, SmokeOps
  <2>5. PendingHasRow'
    BY <2>1, <2>2 DEF SmokeInv, PendingHasRow, AllSmokeOps, SmokeOps
  <2> QED  BY <2>3, <2>4, <2>5 DEF SmokeInv
<1>21. CASE RemoveBinding
  <2>0. UNCHANGED <<cloudOps, knoraOps>>
    BY <1>21 DEF RemoveBinding
  <2>1. CASE smoke' = [smoke EXCEPT !.failed = TRUE, !.pc = "rest"] /\ UNCHANGED fixtureParts
    <3>1. SmokeRecord(smoke') /\ smoke'.owned = smoke.owned /\ smoke'.pc = "rest"
      BY <1>0, <2>1 DEF SmokeRecord, SmokeFields
    <3> QED  BY <1>0, <2>0, <2>1, <3>1, SmokeStays
  <2>2. CASE SmokeGoto("rest") /\ UNCHANGED fixtureParts
    BY <1>0, <1>000, <2>0, <2>2, SmokeStays
  <2>3. CASE /\ ~EverPaired /\ fixtureParts' = fixtureParts \ {"binding"}
             /\ smoke' = [smoke EXCEPT !.owned = @ \ {"binding"}, !.pc = "rest"]
    <3>1. SmokeRecord(smoke') /\ smoke'.owned = smoke.owned \ {"binding"} /\ smoke'.pc = "rest"
      BY <1>0, <2>3 DEF SmokeRecord, SmokeFields
    <3>2. \A o \in AllSmokeOps : knoraOps[o] # "pending"
      BY <2>3 DEF EverPaired, SmokeInv, PendingHasRow, AllSmokeOps
    <3>3. SmokeTypes'
      BY <1>0, <2>0, <2>3, <3>1 DEF SmokeTypes, SmokeRecord
    <3>4. OwnedSoFar'
      BY <3>1 DEF OwnedSoFar, SmokeOps
    <3>5. PendingHasRow'
      BY <2>0, <3>2 DEF PendingHasRow, AllSmokeOps
    <3> QED  BY <3>3, <3>4, <3>5 DEF SmokeInv
  <2> QED  BY <1>21, <2>1, <2>2, <2>3 DEF RemoveBinding
<1>22. CASE RemoveRest
  <2>1. PICK left \in SUBSET Removable :
          /\ fixtureParts' = fixtureParts \ (Removable \ left)
          /\ smoke' = [smoke EXCEPT !.owned = (@ \ Removable) \cup left, !.pc = "ended",
                                    !.failed = @ \/ left # {}]
    BY <1>22 DEF RemoveRest
  <2>2. UNCHANGED <<cloudOps, knoraOps>>
    BY <1>22 DEF RemoveRest
  <2>3. /\ SmokeRecord(smoke') /\ smoke'.owned = (smoke.owned \ Removable) \cup left
        /\ smoke'.pc = "ended"
    BY <1>0, <2>1 DEF SmokeRecord, SmokeFields
  <2>4. CASE "binding" \in smoke.owned
    <3>1. Removable = {} /\ left = {}
      BY <2>4 DEF Removable
    <3>2. UNCHANGED fixtureParts /\ smoke'.owned = smoke.owned
      BY <2>1, <2>3, <3>1
    <3> QED  BY <1>0, <2>2, <2>3, <3>2, SmokeStays
  <2>5. CASE "binding" \notin smoke.owned
    <3>1. Removable = smoke.owned
      BY <2>5 DEF Removable
    <3>2. /\ smoke'.owned = left /\ fixtureParts' = fixtureParts \ (smoke.owned \ left)
          /\ left \subseteq smoke.owned
      BY <2>1, <2>3, <3>1
    <3>3. \A o \in SmokeOps : knoraOps[o] # "pending"
      BY <2>5 DEF SmokeInv, PendingHasRow, SmokeParts
    <3>4. SmokeTypes'
      BY <1>0, <2>2, <2>3, <3>2 DEF SmokeTypes, SmokeRecord
    <3>5. OwnedSoFar'
      BY <2>3 DEF OwnedSoFar, SmokeOps
    <3>6. PendingHasRow'
      BY <2>2, <2>5, <3>2, <3>3 DEF SmokeInv, PendingHasRow
    <3> QED  BY <3>4, <3>5, <3>6 DEF SmokeInv
  <2> QED  BY <2>4, <2>5
<1>30. SmokeOps = {"lost", "unfinished", "activated"}
  BY DEF SmokeOps
<1>31. CreateFolder \/ SmokeBinding \/ CreateKnowledgeBase => SmokeInv'
  BY <1>3 DEF CreateFolder, SmokeBinding, CreateKnowledgeBase
<1>32. PrepareLost \/ PrepareUnfinished \/ PrepareActivated => SmokeInv'
  BY <1>4, <1>30 DEF PrepareLost, PrepareUnfinished, PrepareActivated
<1> QED
  BY <1>1, <1>2, <1>31, <1>32, <1>5, <1>6, <1>7, <1>9, <1>10, <1>11, <1>12, <1>13, <1>14, <1>15,
     <1>16, <1>17, <1>18, <1>19, <1>20, <1>21, <1>22 DEF SmokeStep

LEMMA PendingKept == SmokeInv => PendingKeepsFixture
BY DEF SmokeInv, SmokeTypes, PendingHasRow, PendingKeepsFixture, SmokeParts

-----------------------------------------------------------------------------
(* The publication recovery ledger: what every record of the journal has witnessed, what a cold
   checkpoint may rely on while it is captured, and what a replay has already withdrawn. *)
Histories == Seq(Events)
PageOK(page) ==
  /\ page.after \in Nat /\ page.next \in Nat /\ page.head \in Histories
  /\ page.after <= page.next /\ page.next <= Len(page.head)
PageFields == {"after", "next", "head"}
JournalTypes ==
  /\ history \in Histories
  /\ Len(journal) \in Nat /\ DOMAIN journal = 1..Len(journal) /\ journal = [n \in 1..Len(journal) |-> journal[n]]
  /\ \A n \in 1..Len(journal) : PageOK(journal[n])
  /\ DOMAIN collecting = Collectors /\ collecting = [c \in Collectors |-> collecting[c]]
  /\ \A c \in Collectors :
       /\ collecting[c].pc \in {"rest", "export", "append"} /\ collecting[c].page.after \in Nat
       /\ collecting[c].pc = "append" => PageOK(collecting[c].page)
SameTo(s, t, n) == \A k \in 1..n : s[k] = t[k]
(* Two records, the i-th not after the n-th *)
Agree(i, n) ==
  /\ journal[i].next <= journal[n].next /\ Len(journal[i].head) <= Len(journal[n].head)
  /\ SameTo(journal[i].head, journal[n].head, journal[i].next)
  /\ Len(journal[i].head) <= journal[n].next =>
       SameTo(journal[i].head, journal[n].head, Len(journal[i].head))
Covers(i, k) == journal[i].after < k /\ k <= journal[i].next
OneChain ==
  /\ \A n \in 1..Len(journal) : journal[n].after = IF n = 1 THEN 0 ELSE journal[n - 1].next
  /\ \A n \in 1..Len(journal) : \A i \in 1..n : Agree(i, n)
  /\ \A n \in 1..Len(journal) : \A k \in 1..journal[n].next : \E i \in 1..n : Covers(i, k)

BindingFields == {"state", "epoch", "withdrawn"}
IndexFields == {"scope", "published", "epoch", "manifest", "replayed"}
CaptureFields == {"pc", "anchor", "epoch", "meddled", "intact", "fingerprint", "archived", "dump", "volumes"}
ReplayFields == {"pc", "through", "receipt", "nextcloud", "weknora", "evidence", "regrants"}
BindingOK(b) ==
  /\ DOMAIN b = BindingFields /\ b = [f \in BindingFields |-> b[f]]
  /\ b.withdrawn \subseteq Files
IndexOK(i) == DOMAIN i = IndexFields /\ i = [f \in IndexFields |-> i[f]]
PairOK(pair) == DOMAIN pair = Stacks /\ pair = [s \in Stacks |-> pair[s]]
SavedOK(saved) ==
  /\ PairOK(saved) /\ IndexOK(saved["weknora"])
  /\ saved["nextcloud"].history \in Histories /\ BindingOK(saved["nextcloud"].binding)
RecoveryTypes ==
  /\ BindingOK(binding) /\ IndexOK(index) /\ inputs \in Nat
  /\ DOMAIN capture = CaptureFields /\ capture = [f \in CaptureFields |-> capture[f]]
  /\ DOMAIN recovery = ReplayFields /\ recovery = [f \in ReplayFields |-> recovery[f]]
  /\ PairOK(capture.dump) /\ SavedOK(capture.volumes)

AtInputs == {"check_inputs"}
WeknoraArchived == {"inputs"} \cup AtInputs
NextcloudArchived == {"archive_weknora"} \cup WeknoraArchived
WeknoraDumped == {"dumped_weknora", "stop_db", "stop_postgres", "all_stopped", "archive_nextcloud"} \cup NextcloudArchived
NextcloudDumped == {"dumped_nextcloud", "dump_weknora"} \cup WeknoraDumped
Started == {"stop_nextcloud", "stop_weknora", "stopped", "dump_nextcloud"} \cup NextcloudDumped
CaptureEnded == {"manifest", "COMPLETE"}
NothingWrites(side) == side \notin up /\ (side = "weknora" => Foreign \notin up)
Coherent(events, withdrawn) == Withdrawn(events) \subseteq withdrawn
CaptureKnown ==
  /\ capture.pc \in {"none", "INCOMPLETE"} \cup Started \cup CaptureEnded
  /\ Live \/ At("COMPLETE")
  /\ At("none") => capture.volumes["weknora"].replayed = 0
  /\ capture.pc \in NextcloudDumped /\ NothingWrites("nextcloud") =>
       capture.dump["nextcloud"] = [history |-> history, binding |-> binding]
  /\ capture.pc \in WeknoraDumped /\ NothingWrites("weknora") => capture.dump["weknora"] = index
  /\ capture.pc \in NextcloudArchived /\ NothingWrites("nextcloud") =>
       capture.volumes["nextcloud"] = [history |-> history, binding |-> binding]
  /\ capture.pc \in WeknoraArchived /\ NothingWrites("weknora") => capture.volumes["weknora"] = index
  /\ capture.pc \in Started => capture.fingerprint \in Nat /\ capture.fingerprint <= inputs
  /\ capture.pc \in AtInputs =>
       capture.archived \in Nat /\ capture.fingerprint <= capture.archived /\ capture.archived <= inputs
  /\ capture.pc \in CaptureEnded =>
       /\ capture.archived = capture.fingerprint /\ capture.archived \in Nat
       /\ \A side \in Stacks : capture.dump[side] = capture.volumes[side]
AnchorKnown ==
  /\ capture.pc \in Started \cup CaptureEnded => capture.anchor \in 1..Len(journal)
  /\ capture.pc \in Started => IsPrefix(journal[capture.anchor].head, history)
  /\ capture.pc \in NextcloudArchived \cup CaptureEnded =>
       IsPrefix(journal[capture.anchor].head, capture.volumes["nextcloud"].history)
  /\ Coherent(capture.volumes["nextcloud"].history, capture.volumes["nextcloud"].binding.withdrawn)
Regranted(f) ==
  \E i \in (journal[recovery.through].next + 1)..Len(history) :
    history[i] = [kind |-> "eligible", file |-> f]
(* What the records up to the n-th retain, and what has to be withdrawn of it after an anchor *)
ReachedBy(n) == [k \in 1..journal[n].next |-> journal[n].head[k]]
PlanOf(events, first) ==
  {f \in Files : \E i \in (first + 1)..Len(events) : events[i] = [kind |-> "withdrawn", file |-> f]}
ToWithdraw == PlanOf(ReachedBy(recovery.through), journal[capture.anchor].next)
Overlooked(f) == f \in Withdrawn(ReachedBy(recovery.through)) /\ ~Regranted(f)
ReplayKnown ==
  /\ recovery.pc \in {"live", "recovering"}
  /\ capture.volumes["weknora"].replayed = 0
  /\ Live => recovery.through = 0 /\ recovery.evidence = "none"
  /\ recovery.through # 0 =>
       /\ recovery.through \in 1..Len(journal) /\ capture.anchor <= recovery.through
       /\ Complete(journal[recovery.through])
  /\ recovery.through = 0 => recovery.receipt = "none"
  /\ recovery.receipt \in {"none", "open", "completed"}
  /\ recovery.receipt = "none" => Coherent(history, binding.withdrawn)
  /\ recovery.receipt = "open" =>
       history = ReachedBy(recovery.through) /\ Coherent(history, binding.withdrawn \cup ToWithdraw)
  /\ recovery.receipt = "completed" =>
       /\ Len(history) >= journal[recovery.through].next
       /\ \A f \in Files : Overlooked(f) => f \in binding.withdrawn
IndexKnown ==
  /\ index.replayed \in {0, recovery.through}
  /\ index.replayed # 0 /\ recovery.receipt # "completed" => index.published = {} /\ index.manifest = {}
  /\ index.replayed # 0 /\ recovery.receipt = "completed" =>
       \A f \in index.published \cup index.manifest : f \in Files /\ ~Overlooked(f)
  /\ recovery.weknora.replayed # 0 =>
       recovery.weknora.replayed = recovery.through /\ index.replayed = recovery.through
  /\ recovery.nextcloud.seen => recovery.receipt = "completed"
  /\ recovery.evidence # "none" => recovery.receipt = "completed" /\ index.replayed = recovery.through
RecoveryInv ==
  /\ JournalTypes /\ OneChain /\ RecoveryTypes /\ CaptureKnown /\ AnchorKnown /\ ReplayKnown /\ IndexKnown

(* What a history of events is made of *)
LEMMA HistoryIs ==
  ASSUME NEW s \in Histories
  PROVE  /\ Len(s) \in Nat /\ DOMAIN s = 1..Len(s)
         /\ \A k \in 1..Len(s) : s[k] \in Events
  BY ElementOfSeq, LenProperties DEF Histories

(* Two prefixes are equal when their elements are. *)
LEMMA PrefixSame ==
  ASSUME NEW s \in Histories, NEW t \in Histories, NEW m \in Nat, m <= Len(s), m <= Len(t)
  PROVE  SubSeq(s, 1, m) = SubSeq(t, 1, m) <=> SameTo(s, t, m)
<1>1. /\ SubSeq(s, 1, m) \in Histories /\ Len(SubSeq(s, 1, m)) = m
      /\ \A k \in 1..m : SubSeq(s, 1, m)[k] = s[k]
  <2>1. \A k \in 1..m : s[k] \in Events
    BY HistoryIs
  <2> QED  BY <2>1, SubSeqProperties, m \in Int, 1 \in Int DEF Histories
<1>2. /\ SubSeq(t, 1, m) \in Histories /\ Len(SubSeq(t, 1, m)) = m
      /\ \A k \in 1..m : SubSeq(t, 1, m)[k] = t[k]
  <2>1. \A k \in 1..m : t[k] \in Events
    BY HistoryIs
  <2> QED  BY <2>1, SubSeqProperties, m \in Int, 1 \in Int DEF Histories
<1>3. ASSUME SameTo(s, t, m)  PROVE SubSeq(s, 1, m) = SubSeq(t, 1, m)
  <2>1. \A k \in 1..m : SubSeq(s, 1, m)[k] = SubSeq(t, 1, m)[k]
    BY <1>1, <1>2, <1>3 DEF SameTo
  <2> QED  BY <1>1, <1>2, <2>1, SeqEqual DEF Histories
<1>4. ASSUME SubSeq(s, 1, m) = SubSeq(t, 1, m)  PROVE SameTo(s, t, m)
  BY <1>1, <1>2, <1>4 DEF SameTo
<1> QED  BY <1>3, <1>4

LEMMA WholePrefix ==
  ASSUME NEW s \in Histories
  PROVE  SubSeq(s, 1, Len(s)) = s
  BY SubSeqFull DEF Histories

LEMMA PrefixIs ==
  ASSUME NEW s \in Histories, NEW t \in Histories
  PROVE  IsPrefix(s, t) <=> Len(s) <= Len(t) /\ SameTo(s, t, Len(s))
<1> USE HistoryIs
<1>1. IsPrefix(s, t) <=> Len(s) <= Len(t) /\ SubSeq(s, 1, Len(s)) = SubSeq(t, 1, Len(s))
  BY DEF IsPrefix
<1>2. Len(s) <= Len(t) => (SubSeq(s, 1, Len(s)) = SubSeq(t, 1, Len(s)) <=> SameTo(s, t, Len(s)))
  BY PrefixSame
<1> QED  BY <1>1, <1>2

(* A page that goes on from the last record keeps the records one chain. *)
LEMMA PageIs ==
  ASSUME NEW page, PageOK(page)
  PROVE  /\ page.after \in Nat /\ page.next \in Nat /\ page.head \in Histories
         /\ page.after <= page.next /\ page.next <= Len(page.head) /\ Len(page.head) \in Nat
  BY HistoryIs DEF PageOK

LEMMA PrefixGives ==
  ASSUME NEW s \in Histories, NEW t \in Histories, NEW m \in Nat, m <= Len(s), m <= Len(t),
         SubSeq(s, 1, m) = SubSeq(t, 1, m)
  PROVE  SameTo(s, t, m)
  BY PrefixSame

LEMMA SameToLess ==
  ASSUME NEW s, NEW t, NEW m \in Nat, NEW n \in Nat, m <= n, SameTo(s, t, n)
  PROVE  SameTo(s, t, m)
  BY DEF SameTo

LEMMA PageAgrees ==
  ASSUME JournalTypes, OneChain, NEW page, PageOK(page), Continues(page), HeadsAgree(page),
         NEW i \in 1..Len(journal)
  PROVE  /\ journal[i].next <= page.next /\ Len(journal[i].head) <= Len(page.head)
         /\ SameTo(journal[i].head, page.head, journal[i].next)
         /\ Len(journal[i].head) <= page.next =>
              SameTo(journal[i].head, page.head, Len(journal[i].head))
<1> DEFINE N == Len(journal)  last == journal[N]  rec == journal[i]
<1>1. /\ N \in Nat /\ N \in 1..N /\ i \in 1..N /\ PageOK(last) /\ PageOK(rec) /\ Agree(i, N)
      /\ journal # <<>>
  BY DEF JournalTypes, OneChain
<1>2. /\ last.after \in Nat /\ last.next \in Nat /\ last.head \in Histories
      /\ last.after <= last.next /\ last.next <= Len(last.head) /\ Len(last.head) \in Nat
  BY <1>1, PageIs
<1>3. /\ rec.after \in Nat /\ rec.next \in Nat /\ rec.head \in Histories
      /\ rec.after <= rec.next /\ rec.next <= Len(rec.head) /\ Len(rec.head) \in Nat
  BY <1>1, PageIs
<1>4. /\ page.after \in Nat /\ page.next \in Nat /\ page.head \in Histories
      /\ page.after <= page.next /\ page.next <= Len(page.head) /\ Len(page.head) \in Nat
  BY PageIs
<1>5. /\ page.after = last.next /\ Len(page.head) >= Len(last.head)
      /\ SubSeq(page.head, 1, page.after) = SubSeq(last.head, 1, page.after)
  BY <1>1 DEF Continues, Last, Prefix
<1>6. SameTo(page.head, last.head, page.after)
  <2>1. page.after <= Len(page.head) /\ page.after <= Len(last.head)
    BY <1>2, <1>4, <1>5
  <2> HIDE DEF last
  <2> QED  BY <1>2, <1>4, <1>5, <2>1, PrefixGives
<1>7. /\ rec.next <= last.next /\ Len(rec.head) <= Len(last.head)
      /\ SameTo(rec.head, last.head, rec.next)
      /\ Len(rec.head) <= last.next => SameTo(rec.head, last.head, Len(rec.head))
  BY <1>1 DEF Agree
<1>8. rec.next <= page.next /\ Len(rec.head) <= Len(page.head)
  BY <1>2, <1>3, <1>4, <1>5, <1>7
<1>9. SameTo(rec.head, page.head, rec.next)
  BY <1>2, <1>3, <1>5, <1>6, <1>7 DEF SameTo
<1>10. ASSUME Len(rec.head) <= page.next
       PROVE  SameTo(rec.head, page.head, Len(rec.head))
  <2>1. CASE Len(rec.head) <= page.after
    BY <2>1, <1>2, <1>3, <1>5, <1>6, <1>7 DEF SameTo
  <2>2. CASE ~(Len(rec.head) <= page.after)
    <3>1. Len(rec.head) \in page.after..page.next
      BY <2>2, <1>10, <1>3, <1>4
    <3>2. i \in DOMAIN journal
      BY <1>1 DEF JournalTypes
    <3>3. SubSeq(page.head, 1, Len(rec.head)) = rec.head
      BY <3>1, <3>2 DEF HeadsAgree, Prefix
    <3>4. SubSeq(rec.head, 1, Len(rec.head)) = SubSeq(page.head, 1, Len(rec.head))
      BY <3>3, <1>3, WholePrefix
    <3> DEFINE m == Len(rec.head)
    <3>5. /\ rec.head \in Histories /\ page.head \in Histories /\ m \in Nat
          /\ m <= Len(rec.head) /\ m <= Len(page.head)
          /\ SubSeq(rec.head, 1, m) = SubSeq(page.head, 1, m)
      BY <3>4, <1>3, <1>4, <1>8
    <3>6. SameTo(rec.head, page.head, m)
      <4> HIDE DEF m, rec
      <4> QED  BY <3>5, PrefixGives
    <3> QED  BY <3>6
  <2> QED  BY <2>1, <2>2
<1> QED  BY <1>8, <1>9, <1>10

LEMMA AgreeReflexive ==
  ASSUME NEW page, PageOK(page)
  PROVE  /\ page.next <= page.next /\ Len(page.head) <= Len(page.head)
         /\ SameTo(page.head, page.head, page.next) /\ SameTo(page.head, page.head, Len(page.head))
  BY PageIs DEF SameTo

LEMMA AppendKeepsChain ==
  ASSUME JournalTypes, OneChain, NEW page, PageOK(page), Continues(page), HeadsAgree(page),
         journal' = Append(journal, page)
  PROVE  /\ OneChain' /\ Len(journal') = Len(journal) + 1
         /\ \A n \in 1..Len(journal) : journal'[n] = journal[n]
         /\ \A n \in 1..Len(journal') : PageOK(journal[n])'
         /\ DOMAIN journal' = 1..Len(journal')
         /\ journal' = [n \in 1..Len(journal') |-> journal'[n]]
<1> DEFINE N == Len(journal)  All == {journal[n] : n \in 1..N} \cup {page}
<1>1. /\ N \in Nat /\ journal \in Seq(All) /\ page \in All
  <2>1. N \in Nat /\ journal = [n \in 1..N |-> journal[n]] /\ \A n \in 1..N : journal[n] \in All
    BY DEF JournalTypes
  <2>2. journal \in [1..N -> All]
    BY <2>1
  <2> QED  BY <2>1, <2>2, SeqDef
<1>2. /\ journal' \in Seq(All) /\ Len(journal') = N + 1
      /\ \A n \in 1..N : journal'[n] = journal[n]
      /\ journal'[N + 1] = page
  BY <1>1, AppendProperties
<1>3. /\ DOMAIN journal' = 1..Len(journal')
      /\ journal' = [n \in 1..Len(journal') |-> journal'[n]]
  <2>1. journal' \in [1..Len(journal') -> All]
    BY <1>2, LenProperties
  <2> QED  BY <2>1
<1>4. \A n \in 1..N : PageOK(journal[n])
  BY DEF JournalTypes
<1>5. \A n \in 1..Len(journal') : PageOK(journal[n])'
  BY <1>1, <1>2, <1>4 DEF PageOK
<1>6. \A n \in 1..Len(journal') : journal'[n].after = IF n = 1 THEN 0 ELSE journal'[n - 1].next
  <2> TAKE n \in 1..Len(journal')
  <2>1. CASE n \in 1..N
    BY <2>1, <1>1, <1>2 DEF OneChain
  <2>2. CASE n = N + 1
    <3>1. CASE N = 0
      <4>1. journal = <<>>
        BY <3>1, <1>1, EmptySeq
      <4> QED  BY <4>1, <3>1, <2>2, <1>2 DEF Continues
    <3>2. CASE N # 0
      <4>1. journal # <<>>
        BY <3>2, EmptySeq
      <4>2. page.after = journal[N].next
        BY <4>1 DEF Continues, Last
      <4> QED  BY <4>2, <3>2, <2>2, <1>1, <1>2
    <3> QED  BY <3>1, <3>2
  <2> QED  BY <2>1, <2>2, <1>1, <1>2
<1>7. \A n \in 1..Len(journal') : \A i \in 1..n : Agree(i, n)'
  <2> TAKE n \in 1..Len(journal')
  <2> TAKE i \in 1..n
  <2>1. CASE n \in 1..N
    <3>1. Agree(i, n) /\ journal'[i] = journal[i] /\ journal'[n] = journal[n]
      BY <2>1, <1>1, <1>2 DEF OneChain
    <3> QED  BY <3>1 DEF Agree
  <2>2. CASE n = N + 1 /\ i \in 1..N
    BY <2>2, <1>1, <1>2, PageAgrees DEF Agree
  <2>3. CASE n = N + 1 /\ i = N + 1
    BY <2>3, <1>1, <1>2, AgreeReflexive DEF Agree
  <2> QED  BY <2>1, <2>2, <2>3, <1>1, <1>2
<1>8. \A n \in 1..Len(journal') : \A k \in 1..journal'[n].next : \E i \in 1..n : Covers(i, k)'
  <2> TAKE n \in 1..Len(journal')
  <2> TAKE k \in 1..journal'[n].next
  <2>1. CASE n \in 1..N
    <3>1. PICK i \in 1..n : Covers(i, k)
      BY <2>1, <1>1, <1>2 DEF OneChain
    <3>2. i \in 1..N
      BY <2>1, <1>1
    <3> QED  BY <3>1, <3>2, <1>2 DEF Covers
  <2>2. CASE n = N + 1
    <3>1. page.after \in Nat /\ page.next \in Nat /\ k \in 1..page.next
      BY <2>2, <1>2, PageIs
    <3>2. CASE k > page.after
      BY <3>1, <3>2, <2>2, <1>1, <1>2 DEF Covers
    <3>3. CASE ~(k > page.after)
      <4>1. journal # <<>> /\ N # 0
        <5>1. journal # <<>>
          BY <3>1, <3>3 DEF Continues
        <5> QED  BY <5>1, <1>1, EmptySeq
      <4>2. page.after = journal[N].next
        BY <4>1 DEF Continues, Last
      <4>3. k \in 1..journal[N].next /\ N \in 1..N
        BY <4>1, <4>2, <3>1, <3>3, <1>1
      <4>4. PICK i \in 1..N : Covers(i, k)
        BY <4>3 DEF OneChain
      <4>5. i \in 1..n /\ journal'[i] = journal[i]
        BY <2>2, <1>1, <1>2
      <4> QED  BY <4>4, <4>5 DEF Covers
    <3> QED  BY <3>2, <3>3
  <2> QED  BY <2>1, <2>2, <1>1, <1>2
<1> QED  BY <1>2, <1>3, <1>5, <1>6, <1>7, <1>8 DEF OneChain

(* What the records up to the n-th retain is what the n-th witnessed up to its end. *)
LEMMA RetainedIs ==
  ASSUME JournalTypes, OneChain, NEW n \in 1..Len(journal)
  PROVE  /\ Retained(n) = [k \in 1..journal[n].next |-> journal[n].head[k]]
         /\ Retained(n) \in Histories /\ Len(Retained(n)) = journal[n].next
         /\ \A k \in 1..journal[n].next : Retained(n)[k] = journal[n].head[k]
         /\ journal[n].next \in Nat
<1>1. PageOK(journal[n])
  BY DEF JournalTypes
<1>2. /\ journal[n].next \in Nat /\ journal[n].head \in Histories
      /\ journal[n].next <= Len(journal[n].head) /\ Len(journal[n].head) \in Nat
  BY <1>1, PageIs
<1>3. ASSUME NEW k \in 1..journal[n].next
      PROVE  journal[RecordOf(n, k)].head[k] = journal[n].head[k]
  <2>1. \E i \in 1..n : journal[i].after < k /\ k <= journal[i].next
    BY <1>3 DEF OneChain, Covers
  <2>2. RecordOf(n, k) \in 1..n /\ k <= journal[RecordOf(n, k)].next
    BY <2>1 DEF RecordOf
  <2> DEFINE i == RecordOf(n, k)
  <2>3. Agree(i, n) /\ i \in 1..Len(journal)
    BY <2>2 DEF OneChain, JournalTypes
  <2>4. PageOK(journal[i])
    BY <2>3 DEF JournalTypes
  <2>5. journal[i].next \in Nat
    BY <2>4 DEF PageOK
  <2> QED  BY <2>2, <2>3, <2>5, <1>2 DEF Agree, SameTo
<1>4. Retained(n) = [k \in 1..journal[n].next |-> journal[n].head[k]]
  BY <1>3 DEF Retained
<1>5. \A k \in 1..journal[n].next : journal[n].head[k] \in Events
  BY <1>2, HistoryIs
<1>6. Retained(n) \in [1..journal[n].next -> Events]
  BY <1>4, <1>5
<1>7. Retained(n) \in Seq(Events)
  BY <1>2, <1>6, SeqDef
<1>8. Len(Retained(n)) = journal[n].next
  <2>1. Len(Retained(n)) \in Nat /\ DOMAIN Retained(n) = 1..Len(Retained(n))
    BY <1>7, LenProperties
  <2>2. DOMAIN Retained(n) = 1..journal[n].next
    BY <1>6
  <2> QED  BY <1>2, <2>1, <2>2
<1> QED  BY <1>2, <1>4, <1>7, <1>8 DEF Histories

(* A finite set in some order *)
LEMMA SetToSeqIs ==
  ASSUME NEW S, IsFiniteSet(S)
  PROVE  SetToSeq(S) \in Seq(S)
<1>1. Cardinality(S) \in Nat /\ ExistsBijection(1..Cardinality(S), S)
  BY FS_CardinalityType
<1>2. \E f \in [1..Cardinality(S) -> S] : IsInjective(f)
  BY <1>1 DEF ExistsBijection, Bijection, Injection, IsInjective
<1>3. SetToSeq(S) \in [1..Cardinality(S) -> S]
  BY <1>2 DEF SetToSeq
<1> QED  BY <1>1, <1>3, SeqDef

Withdrawals(files) == [kind : {"withdrawn"}, file : files]

LEMMA WithdrawalsFinite ==
  ASSUME NEW files \in SUBSET Files
  PROVE  SetToSeq(Withdrawals(files)) \in Seq(Withdrawals(files))
<1>1. IsFiniteSet(files)
  BY RecoveryAssumption, FS_Subset
<1> DEFINE event == [f \in files |-> [kind |-> "withdrawn", file |-> f]]
<1>2. ASSUME NEW r \in Withdrawals(files)
      PROVE  \E f \in files : event[f] = r
  <2>1. r = [kind |-> r.kind, file |-> r.file] /\ r.kind = "withdrawn" /\ r.file \in files
    BY <1>2 DEF Withdrawals
  <2> QED  BY <2>1
<1>3. event \in [files -> Withdrawals(files)]
  BY DEF Withdrawals
<1>4. event \in Surjection(files, Withdrawals(files))
  BY <1>2, <1>3 DEF Surjection
<1>5. IsFiniteSet(Withdrawals(files))
  BY <1>1, <1>4, FS_Surjection
<1> QED  BY <1>5, SetToSeqIs

(* More events, of which every withdrawal is of these files *)
LEMMA MoreWithdrawn ==
  ASSUME NEW s \in Histories, NEW files \in SUBSET Files,
         NEW t \in Seq(Withdrawals(files))
  PROVE  /\ s \o t \in Histories /\ Len(s \o t) >= Len(s) /\ Len(s \o t) \in Nat
         /\ SameTo(s, s \o t, Len(s)) /\ IsPrefix(s, s \o t)
         /\ Withdrawn(s \o t) \subseteq Withdrawn(s) \cup files
<1>1. t \in Histories
  <2>1. Withdrawals(files) \subseteq Events
    BY DEF Withdrawals, Events
  <2> QED  BY <2>1, SeqMonotonic DEF Histories
<1>2. /\ s \o t \in Histories /\ Len(s \o t) = Len(s) + Len(t)
      /\ \A i \in 1..Len(s) + Len(t) : (s \o t)[i] = IF i <= Len(s) THEN s[i] ELSE t[i - Len(s)]
  BY <1>1, ConcatProperties DEF Histories
<1>3. Len(s) \in Nat /\ Len(t) \in Nat /\ DOMAIN s = 1..Len(s) /\ DOMAIN (s \o t) = 1..Len(s \o t)
  BY <1>1, <1>2, HistoryIs
<1>4. /\ Len(s \o t) >= Len(s) /\ Len(s \o t) \in Nat /\ SameTo(s, s \o t, Len(s))
  BY <1>2, <1>3 DEF SameTo
<1>5. IsPrefix(s, s \o t)
  BY <1>2, <1>3, <1>4, PrefixIs
<1>6. ASSUME NEW f \in Withdrawn(s \o t), f \notin files
      PROVE  f \in Withdrawn(s)
  <2>1. PICK i \in 1..Len(s \o t) : /\ (s \o t)[i] = [kind |-> "withdrawn", file |-> f]
                                    /\ \A j \in (i + 1)..Len(s \o t) : (s \o t)[j].file # f
    BY <1>3, <1>6 DEF Withdrawn
  <2>2. i <= Len(s)
    <3> SUFFICES ASSUME i > Len(s) PROVE FALSE
      BY <1>3
    <3>1. i - Len(s) \in 1..Len(t) /\ (s \o t)[i] = t[i - Len(s)]
      BY <1>2, <1>3
    <3>2. t[i - Len(s)] \in Withdrawals(files)
      BY <3>1, ElementOfSeq
    <3>3. (s \o t)[i].file \in files
      BY <3>1, <3>2 DEF Withdrawals
    <3> QED  BY <3>3, <2>1, <1>6
  <2>3. i \in 1..Len(s) /\ s[i] = [kind |-> "withdrawn", file |-> f]
    BY <2>1, <2>2, <1>2, <1>3
  <2>4. \A j \in (i + 1)..Len(s) : s[j].file # f
    BY <2>1, <1>2, <1>3
  <2>5. f \in Files
    BY <1>6 DEF Withdrawn
  <2> QED  BY <2>3, <2>4, <2>5, <1>3 DEF Withdrawn
<1> QED  BY <1>2, <1>4, <1>5, <1>6

(* One more approval *)
LEMMA MoreApproved ==
  ASSUME NEW s \in Histories, NEW f \in Files, NEW e, e = [kind |-> "eligible", file |-> f]
  PROVE  /\ Append(s, e) \in Histories /\ Len(Append(s, e)) = Len(s) + 1
         /\ Append(s, e)[Len(s) + 1] = e
         /\ SameTo(s, Append(s, e), Len(s)) /\ IsPrefix(s, Append(s, e))
         /\ Withdrawn(Append(s, e)) \subseteq Withdrawn(s) \ {f}
<1> DEFINE t == Append(s, e)
<1>1. e \in Events
  BY DEF Events
<1>2. /\ t \in Histories /\ Len(t) = Len(s) + 1 /\ \A i \in 1..Len(s) : t[i] = s[i]
      /\ t[Len(s) + 1] = e
  BY <1>1, AppendProperties DEF Histories
<1>3. Len(s) \in Nat /\ DOMAIN s = 1..Len(s) /\ DOMAIN t = 1..Len(t)
  BY <1>2, HistoryIs
<1>4. SameTo(s, t, Len(s))
  BY <1>2 DEF SameTo
<1>5. IsPrefix(s, t)
  <2>1. Len(s) <= Len(t)
    BY <1>2, <1>3
  <2> HIDE DEF t
  <2> QED  BY <1>2, <1>4, <2>1, PrefixIs
<1>6. ASSUME NEW g \in Withdrawn(t)
      PROVE  g \in Withdrawn(s) \ {f}
  <2>1. PICK i \in 1..Len(t) : /\ t[i] = [kind |-> "withdrawn", file |-> g]
                               /\ \A j \in (i + 1)..Len(t) : t[j].file # g
    BY <1>3, <1>6 DEF Withdrawn
  <2>2. i # Len(s) + 1
    BY <2>1, <1>2
  <2>3. i \in 1..Len(s) /\ s[i] = [kind |-> "withdrawn", file |-> g]
    BY <2>1, <2>2, <1>2, <1>3
  <2>4. \A j \in (i + 1)..Len(s) : s[j].file # g
    BY <2>1, <1>2, <1>3
  <2>5. g # f
    BY <2>1, <2>3, <1>2, <1>3
  <2>6. g \in Files
    BY <1>6 DEF Withdrawn
  <2> QED  BY <2>3, <2>4, <2>5, <2>6, <1>3 DEF Withdrawn
<1> QED  BY <1>2, <1>4, <1>5, <1>6

LEMMA RetainedReached ==
  ASSUME JournalTypes, OneChain, NEW n \in 1..Len(journal)
  PROVE  /\ Retained(n) = ReachedBy(n) /\ ReachedBy(n) \in Histories
         /\ Len(ReachedBy(n)) = journal[n].next /\ journal[n].next \in Nat
  BY RetainedIs DEF ReachedBy

(* The plan of a replay, from the anchor's record to a later one *)
LEMMA PlanIs ==
  ASSUME JournalTypes, OneChain, recovery.through \in 1..Len(journal),
         capture.anchor \in 1..Len(journal), capture.anchor <= recovery.through
  PROVE  Plan = ToWithdraw
<1> DEFINE events == ReachedBy(recovery.through)  first == journal[capture.anchor].next
           last == journal[recovery.through].next  tail == SubSeq(events, first + 1, last)
<1>1. /\ Retained(recovery.through) = events /\ events \in Histories /\ Len(events) = last
      /\ last \in Nat /\ first \in Nat
  BY RetainedReached
<1>2. first <= last
  <2>1. capture.anchor \in 1..recovery.through
    BY DEF JournalTypes
  <2> QED  BY <2>1 DEF OneChain, Agree
<1> HIDE DEF first, last, events
<1>3. /\ tail \in Seq(Events) /\ Len(tail) = last - first
      /\ \A i \in 1..(last - first) : tail[i] = events[first + i]
  <2>1. \A i \in (first + 1)..last : events[i] \in Events
    BY <1>1, HistoryIs
  <2>2. first + 1 \in Int /\ last \in Int
    BY <1>1
  <2>3. /\ tail \in Seq(Events)
        /\ Len(tail) = IF first + 1 <= last THEN last - (first + 1) + 1 ELSE 0
        /\ \A i \in 1..last - (first + 1) + 1 : tail[i] = events[(first + 1) + i - 1]
    BY <2>1, <2>2, SubSeqProperties
  <2> QED  BY <2>3, <1>1, <1>2
<1>4. DOMAIN tail = 1..(last - first)
  BY <1>3, LenProperties
<1> HIDE DEF tail
<1>5. Plan = {e.file : e \in {x \in {tail[i] : i \in 1..(last - first)} : x.kind = "withdrawn"}}
  BY <1>1, <1>4 DEF Plan, WithdrawFiles, ReplayedEvents, ToSet, first, last, tail
<1>6. \A i \in 1..(last - first) : tail[i] \in Events
  BY <1>3, ElementOfSeq
<1>7. ASSUME NEW f \in Plan  PROVE f \in PlanOf(events, first)
  <2>1. PICK i \in 1..(last - first) : tail[i].kind = "withdrawn" /\ tail[i].file = f
    BY <1>5, <1>7
  <2>2. tail[i] = [kind |-> "withdrawn", file |-> f] /\ f \in Files
    BY <2>1, <1>6 DEF Events
  <2>3. first + i \in (first + 1)..Len(events) /\ events[first + i] = tail[i]
    BY <1>1, <1>2, <1>3
  <2> QED  BY <2>2, <2>3 DEF PlanOf
<1>8. ASSUME NEW f \in PlanOf(events, first)  PROVE f \in Plan
  <2>1. PICK k \in (first + 1)..Len(events) : events[k] = [kind |-> "withdrawn", file |-> f]
    BY <1>8 DEF PlanOf
  <2>2. k - first \in 1..(last - first) /\ tail[k - first] = [kind |-> "withdrawn", file |-> f]
    BY <2>1, <1>1, <1>2, <1>3
  <2> QED  BY <1>5, <2>2
<1> QED  BY <1>7, <1>8 DEF ToWithdraw, first, events

(* Soundness: what the invariant is for. *)
LEMMA RecoverySound ==
  ASSUME RecoveryInv
  PROVE  CompleteMeansOneHistory /\ MatchedCheckpoint /\ NoRevocationForgotten
<1> USE DEF RecoveryInv
<1>1. CompleteMeansOneHistory
  <2> SUFFICES ASSUME NEW n \in DOMAIN journal, Complete(journal[n])
               PROVE  /\ OneAfterAnother(n) /\ Retained(n) = journal[n].head
                      /\ \A i \in 1..n : IsPrefix(journal[i].head, Retained(n))
    BY DEF CompleteMeansOneHistory
  <2>1. n \in 1..Len(journal) /\ Len(journal) \in Nat
    BY DEF JournalTypes
  <2>2. OneAfterAnother(n)
    BY <2>1 DEF OneAfterAnother, OneChain
  <2>3. PageOK(journal[n])
    BY <2>1 DEF JournalTypes
  <2>4. journal[n].head \in Histories /\ journal[n].next = Len(journal[n].head)
    BY <2>3 DEF PageOK, Complete
  <2>5. Retained(n) = journal[n].head
    <3>1. /\ Retained(n) \in Histories /\ Len(Retained(n)) = journal[n].next
          /\ \A k \in 1..journal[n].next : Retained(n)[k] = journal[n].head[k]
      BY <2>1, RetainedIs
    <3> QED  BY <3>1, <2>4, SeqEqual DEF Histories
  <2>6. ASSUME NEW i \in 1..n
        PROVE  IsPrefix(journal[i].head, journal[n].head)
    <3>1. Agree(i, n) /\ PageOK(journal[i])
      BY <2>1 DEF OneChain, JournalTypes
    <3>2. journal[i].head \in Histories
      BY <3>1 DEF PageOK
    <3>3. Len(journal[i].head) <= Len(journal[n].head)
          /\ SameTo(journal[i].head, journal[n].head, Len(journal[i].head))
      BY <3>1, <2>4 DEF Agree
    <3> QED  BY <3>2, <3>3, <2>4, PrefixIs
  <2> QED  BY <2>2, <2>5, <2>6
<1>2. MatchedCheckpoint
  BY DEF MatchedCheckpoint, CaptureKnown, AnchorKnown, At, CaptureEnded, NextcloudArchived
<1>3. NoRevocationForgotten
  <2> SUFFICES ASSUME recovery.evidence = "sources",
                      NEW f \in index.published \cap Withdrawn(Retained(recovery.through))
               PROVE  Regranted(f)
    BY DEF NoRevocationForgotten, Regranted
  <2>1. recovery.receipt = "completed" /\ index.replayed = recovery.through
    BY DEF IndexKnown
  <2>2. recovery.through # 0 /\ recovery.through \in 1..Len(journal)
    BY <2>1 DEF ReplayKnown
  <2>3. ~Overlooked(f)
    BY <2>1, <2>2 DEF IndexKnown
  <2> QED  BY <2>2, <2>3, RetainedReached DEF Overlooked
<1> QED  BY <1>1, <1>2, <1>3

LEMMA RecoveryBegins == RecoveryInit => RecoveryInv
<1> SUFFICES ASSUME RecoveryInit PROVE RecoveryInv
  OBVIOUS
<1>0. /\ <<>> \in Histories /\ Len(<<>>) = 0 /\ DOMAIN <<>> = {} /\ Withdrawn(<<>>) = {}
  <2>1. <<>> \in Histories /\ Len(<<>>) = 0
    BY EmptySeq DEF Histories
  <2>2. DOMAIN <<>> = 1..0
    BY <2>1, HistoryIs
  <2> QED  BY <2>1, <2>2 DEF Withdrawn
<1>1. JournalTypes
  BY <1>0, EmptySeq DEF RecoveryInit, JournalInit, JournalTypes, Resting
<1>2. OneChain
  BY <1>0 DEF RecoveryInit, JournalInit, OneChain
<1>3. RecoveryTypes
  <2>1. BindingOK(binding)
    BY DEF RecoveryInit, BindingOK, BindingFields
  <2>2. IndexOK(index)
    BY DEF RecoveryInit, EmptyIndex, IndexOK, IndexFields
  <2>3. DOMAIN capture = CaptureFields /\ capture = [f \in CaptureFields |-> capture[f]]
    BY DEF RecoveryInit, NoCapture, CaptureFields
  <2>4. DOMAIN recovery = ReplayFields /\ recovery = [f \in ReplayFields |-> recovery[f]]
    BY DEF RecoveryInit, NoRecovery, ReplayFields
  <2>5. PairOK(capture.dump) /\ PairOK(capture.volumes)
    BY DEF RecoveryInit, NoCapture, PairOK, Stacks
  <2>6. capture.volumes["nextcloud"] = Nothing /\ capture.volumes["weknora"] = EmptyIndex
    BY DEF RecoveryInit, NoCapture
  <2>7. Nothing.history = <<>> /\ BindingOK(Nothing.binding)
    BY DEF Nothing, BindingOK, BindingFields
  <2>8. IndexOK(EmptyIndex)
    BY DEF EmptyIndex, IndexOK, IndexFields
  <2>9. inputs \in Nat
    BY DEF RecoveryInit
  <2> QED
    BY <1>0, <2>1, <2>2, <2>3, <2>4, <2>5, <2>6, <2>7, <2>8, <2>9 DEF RecoveryTypes, SavedOK
<1>4. CaptureKnown
  BY DEF RecoveryInit, CaptureKnown, NoCapture, NoRecovery, Live, At, EmptyIndex, Started, CaptureEnded,
     NextcloudDumped, WeknoraDumped, NextcloudArchived, WeknoraArchived, AtInputs
<1>5. AnchorKnown
  BY <1>0 DEF RecoveryInit, AnchorKnown, NoCapture, Nothing, Coherent, Started, CaptureEnded,
     NextcloudDumped, WeknoraDumped, NextcloudArchived, WeknoraArchived, AtInputs
<1>6. ReplayKnown
  BY <1>0 DEF RecoveryInit, JournalInit, ReplayKnown, NoRecovery, NoCapture, EmptyIndex, Live, Coherent
<1>7. IndexKnown
  BY DEF RecoveryInit, IndexKnown, NoRecovery, NoObservation, EmptyIndex
<1> QED  BY <1>1, <1>2, <1>3, <1>4, <1>5, <1>6, <1>7 DEF RecoveryInv

LEMMA EmptyJournal ==
  ASSUME JournalTypes, Len(journal) = 0
  PROVE  journal = <<>>
<1>1. DOMAIN journal = {} /\ journal = [n \in 1..0 |-> journal[n]]
  BY DEF JournalTypes
<1>2. journal \in [1..0 -> {}]
  BY <1>1
<1>3. journal \in Seq({})
  BY <1>2, SeqDef
<1> QED  BY <1>3, EmptySeq

(* A collector's step: the journal is left alone or gains a page that goes on from it. *)
LEMMA CollectorSteps ==
  ASSUME JournalTypes, OneChain, NEW c \in Collectors,
         CollectFrom(c) \/ Export(c) \/ AppendPage(c) \/ CollectorDies(c)
  PROVE  /\ JournalTypes' /\ OneChain' /\ history' = history
         /\ Len(journal) <= Len(journal')
         /\ \A n \in 1..Len(journal) : n \in 1..Len(journal') /\ journal'[n] = journal[n]
<1> DEFINE page == collecting[c].page
<1>0. Len(journal) \in Nat /\ Len(history) \in Nat /\ history \in Histories
  BY HistoryIs DEF JournalTypes
<1>1. ASSUME NEW new, collecting' = [collecting EXCEPT ![c] = new],
             new.pc \in {"rest", "export", "append"}, new.page.after \in Nat,
             new.pc = "append" => PageOK(new.page), UNCHANGED <<history, journal>>
      PROVE  JournalTypes' /\ OneChain'
  <2>1. /\ DOMAIN collecting' = Collectors /\ collecting' = [d \in Collectors |-> collecting'[d]]
        /\ \A d \in Collectors : collecting'[d] = IF d = c THEN new ELSE collecting[d]
    BY <1>1 DEF JournalTypes
  <2>2. JournalTypes'
    BY <1>1, <2>1 DEF JournalTypes, PageOK
  <2>3. OneChain'
    BY <1>1 DEF OneChain, Agree, Covers
  <2> QED  BY <2>2, <2>3
<1>2. CASE CollectFrom(c)
  <2>1. Cursor \in Nat
    <3>1. CASE journal = <<>>
      BY <3>1 DEF Cursor
    <3>2. CASE journal # <<>>
      <4>1. Len(journal) \in 1..Len(journal)
        <5>1. Len(journal) # 0
          BY <3>2, EmptyJournal
        <5> QED  BY <5>1, <1>0
      <4>2. PageOK(journal[Len(journal)])
        BY <4>1 DEF JournalTypes
      <4> QED  BY <4>2, <3>2 DEF Cursor, Last, PageOK
    <3> QED  BY <3>1, <3>2
  <2> DEFINE new == [pc |-> "export", page |-> [after |-> Cursor, next |-> Cursor, head |-> <<>>]]
  <2>2. collecting' = [collecting EXCEPT ![c] = new] /\ UNCHANGED <<history, journal>>
    BY <1>2 DEF CollectFrom
  <2>3. new.pc = "export" /\ new.page.after \in Nat
    BY <2>1
  <2> HIDE DEF new
  <2>4. JournalTypes' /\ OneChain'
    BY <1>1, <2>2, <2>3
  <2> QED  BY <2>2, <2>4, <1>0
<1>3. CASE Export(c)
  <2> DEFINE new == IF page.after <= Len(history)
                    THEN [pc |-> "append", page |-> Page(page.after)] ELSE Resting
  <2>1. collecting' = [collecting EXCEPT ![c] = new] /\ UNCHANGED <<history, journal>>
    BY <1>3 DEF Export
  <2>2. page.after \in Nat
    BY DEF JournalTypes
  <2>3. /\ new.pc \in {"rest", "export", "append"} /\ new.page.after \in Nat
        /\ new.pc = "append" => PageOK(new.page)
    <3>1. CASE page.after <= Len(history)
      BY <3>1, <2>2, <1>0, JournalAssumption DEF Page, PageOK, LeastOf
    <3>2. CASE ~(page.after <= Len(history))
      BY <3>2 DEF Resting
    <3> QED  BY <3>1, <3>2
  <2> HIDE DEF new
  <2>4. JournalTypes' /\ OneChain'
    BY <1>1, <2>1, <2>3
  <2> QED  BY <2>1, <2>4, <1>0
<1>4. CASE CollectorDies(c)
  <2>1. collecting' = [collecting EXCEPT ![c] = Resting] /\ UNCHANGED <<history, journal>>
    BY <1>4 DEF CollectorDies
  <2>2. Resting.pc = "rest" /\ Resting.page.after \in Nat
    BY DEF Resting
  <2>3. JournalTypes' /\ OneChain'
    BY <1>1, <2>1, <2>2
  <2> QED  BY <2>1, <2>3, <1>0
<1>5. CASE AppendPage(c)
  <2>1. /\ collecting' = [collecting EXCEPT ![c] = Resting] /\ history' = history
        /\ collecting[c].pc = "append"
    BY <1>5 DEF AppendPage
  <2>2. Resting.pc = "rest" /\ Resting.page.after \in Nat
    BY DEF Resting
  <2>3. PageOK(page)
    BY <2>1 DEF JournalTypes
  <2>4. CASE UNCHANGED journal
    <3>1. JournalTypes' /\ OneChain'
      BY <1>1, <2>1, <2>2, <2>4
    <3> QED  BY <1>0, <2>1, <2>4, <3>1
  <2>5. CASE Continues(page) /\ HeadsAgree(page) /\ journal' = Append(journal, page)
    <3> HIDE DEF page
    <3>1. /\ OneChain' /\ Len(journal') = Len(journal) + 1
          /\ \A n \in 1..Len(journal) : journal'[n] = journal[n]
          /\ \A n \in 1..Len(journal') : PageOK(journal[n])'
          /\ DOMAIN journal' = 1..Len(journal')
          /\ journal' = [n \in 1..Len(journal') |-> journal'[n]]
      BY <2>3, <2>5, AppendKeepsChain
    <3>2. /\ DOMAIN collecting' = Collectors /\ collecting' = [d \in Collectors |-> collecting'[d]]
          /\ \A d \in Collectors : collecting'[d] = IF d = c THEN Resting ELSE collecting[d]
      BY <2>1 DEF JournalTypes
    <3>3. \A d \in Collectors :
            /\ collecting'[d].pc \in {"rest", "export", "append"} /\ collecting'[d].page.after \in Nat
            /\ collecting'[d].pc = "append" => PageOK(collecting'[d].page)
      BY <2>2, <3>2 DEF JournalTypes
    <3>4. \A d \in Collectors :
            collecting'[d].pc = "append" => PageOK(collecting[d].page)'
      BY <3>3 DEF PageOK
    <3>5. JournalTypes'
      BY <1>0, <2>1, <3>1, <3>2, <3>3, <3>4 DEF JournalTypes
    <3> QED  BY <1>0, <2>1, <3>1, <3>5
  <2> QED  BY <1>5, <2>4, <2>5 DEF AppendPage
<1> QED  BY <1>2, <1>3, <1>4, <1>5

(* No record is added: the chain is as it was. *)
LEMMA JournalRests ==
  ASSUME JournalTypes, OneChain, UNCHANGED <<journal, collecting>>, history' \in Histories
  PROVE  JournalTypes' /\ OneChain'
  BY DEF JournalTypes, OneChain, PageOK, Agree, Covers

LEMMA PrefixGoesOn ==
  ASSUME NEW a \in Histories, NEW s \in Histories, NEW t \in Histories,
         IsPrefix(a, s), IsPrefix(s, t)
  PROVE  IsPrefix(a, t)
<1>1. Len(a) \in Nat /\ Len(s) \in Nat /\ Len(t) \in Nat
  BY HistoryIs
<1>2. /\ Len(a) <= Len(s) /\ SameTo(a, s, Len(a))
      /\ Len(s) <= Len(t) /\ SameTo(s, t, Len(s))
  BY PrefixIs
<1>3. Len(a) <= Len(t) /\ SameTo(a, t, Len(a))
  BY <1>1, <1>2 DEF SameTo
<1> QED  BY <1>3, PrefixIs

(* Before the restoration there is no replay to know of. *)
LEMMA LiveKnown ==
  ASSUME RecoveryInv, Live, UNCHANGED recovery,
         capture'.volumes["weknora"].replayed = 0, index'.replayed = 0,
         Coherent(history', binding'.withdrawn)
  PROVE  ReplayKnown' /\ IndexKnown'
<1>1. /\ recovery.through = 0 /\ recovery.evidence = "none" /\ recovery.receipt = "none"
      /\ recovery.pc = "live" /\ recovery.weknora.replayed = 0 /\ ~recovery.nextcloud.seen
  BY DEF RecoveryInv, ReplayKnown, IndexKnown, Live
<1>2. ReplayKnown'
  BY <1>1 DEF ReplayKnown, Live, Coherent
<1>3. IndexKnown'
  BY <1>1 DEF IndexKnown
<1> QED  BY <1>2, <1>3

LEMMA LiveIs ==
  ASSUME RecoveryInv, Live
  PROVE  /\ index.replayed = 0 /\ capture.volumes["weknora"].replayed = 0
         /\ Coherent(history, binding.withdrawn)
  BY DEF RecoveryInv, ReplayKnown, IndexKnown, Live

LEMMA CaptureForms ==
  ASSUME RecoveryTypes, NEW next
  PROVE  LET new == [capture EXCEPT !.pc = next]
         IN  /\ new.pc = next
             /\ new.anchor = capture.anchor /\ new.epoch = capture.epoch
             /\ new.meddled = capture.meddled /\ new.intact = capture.intact
             /\ new.fingerprint = capture.fingerprint /\ new.archived = capture.archived
             /\ new.dump = capture.dump /\ new.volumes = capture.volumes
             /\ DOMAIN new = CaptureFields /\ new = [f \in CaptureFields |-> new[f]]
  BY DEF RecoveryTypes, CaptureFields

(* A step of the checkpoint that records nothing but how far it is *)
StillWritten == \A x \in Stacks \cup {Foreign} : x \in up => x \in up'

LEMMA CaptureMoves ==
  ASSUME RecoveryInv, Live, NEW next, capture' = [capture EXCEPT !.pc = next],
         UNCHANGED <<journalVars, inputs, binding, index, recovery>>,
         next \in {"INCOMPLETE"} \cup Started, next \notin CaptureEnded, next # "none",
         next \in Started => capture.pc \in Started,
         next \in NextcloudDumped => capture.pc \in NextcloudDumped /\ StillWritten,
         next \in WeknoraDumped => capture.pc \in WeknoraDumped /\ StillWritten,
         next \in NextcloudArchived => capture.pc \in NextcloudArchived /\ StillWritten,
         next \in WeknoraArchived => capture.pc \in WeknoraArchived /\ StillWritten,
         next \in AtInputs => capture.pc \in AtInputs
  PROVE  RecoveryInv'
<1> USE DEF RecoveryInv
<1>1. JournalTypes' /\ OneChain'
  BY JournalRests DEF journalVars, JournalTypes
<1>2. /\ capture'.pc = next
      /\ capture'.anchor = capture.anchor /\ capture'.epoch = capture.epoch
      /\ capture'.meddled = capture.meddled /\ capture'.intact = capture.intact
      /\ capture'.fingerprint = capture.fingerprint /\ capture'.archived = capture.archived
      /\ capture'.dump = capture.dump /\ capture'.volumes = capture.volumes
      /\ DOMAIN capture' = CaptureFields /\ capture' = [f \in CaptureFields |-> capture'[f]]
  BY CaptureForms
<1>3. RecoveryTypes'
  BY <1>2 DEF RecoveryTypes, journalVars
<1>4. /\ next \in NextcloudDumped \cup WeknoraDumped \cup NextcloudArchived \cup WeknoraArchived =>
           \A side \in Stacks : NothingWrites(side)' => NothingWrites(side)
      /\ "nextcloud" \in Stacks /\ "weknora" \in Stacks
  BY DEF StillWritten, NothingWrites, Stacks
<1>5. CaptureKnown'
  BY <1>2, <1>4 DEF CaptureKnown, Live, At, journalVars
<1>6. AnchorKnown'
  BY <1>2 DEF AnchorKnown, Coherent, journalVars
<1>7. ReplayKnown' /\ IndexKnown'
  BY <1>2, LiveKnown, LiveIs DEF journalVars, Coherent
<1> QED  BY <1>1, <1>3, <1>5, <1>6, <1>7

(* What an approval and a withdrawal change *)
LEMMA ApproveDoes ==
  ASSUME RecoveryTypes, history \in Histories, NEW f \in Files, Approve(f)
  PROVE  /\ BindingOK(binding') /\ binding'.withdrawn = binding.withdrawn \ {f}
         /\ history' \in Histories /\ Len(history') = Len(history) + 1
         /\ history'[Len(history) + 1] = [kind |-> "eligible", file |-> f]
         /\ SameTo(history, history', Len(history)) /\ IsPrefix(history, history')
         /\ Withdrawn(history') \subseteq Withdrawn(history) \ {f}
<1>1. BindingOK(binding') /\ binding'.withdrawn = binding.withdrawn \ {f}
  BY DEF Approve, RecoveryTypes, BindingOK, BindingFields
<1>2. history' = Append(history, [kind |-> "eligible", file |-> f])
  BY DEF Approve
<1> QED  BY <1>1, <1>2, MoreApproved

LEMMA WithdrawDoes ==
  ASSUME history \in Histories, NEW files \in SUBSET Files,
         history' = history \o SetToSeq([kind : {"withdrawn"}, file : files])
  PROVE  /\ history' \in Histories /\ Len(history') >= Len(history) /\ Len(history') \in Nat
         /\ SameTo(history, history', Len(history)) /\ IsPrefix(history, history')
         /\ Withdrawn(history') \subseteq Withdrawn(history) \cup files
<1>1. SetToSeq(Withdrawals(files)) \in Seq(Withdrawals(files))
  BY WithdrawalsFinite
<1>2. history' = history \o SetToSeq(Withdrawals(files))
  BY DEF Withdrawals
<1> QED  BY <1>1, <1>2, MoreWithdrawn

LEMMA RecoveryGoesOn ==
  ASSUME RecoveryInv, [RecoveryNext]_recoveryVars
  PROVE  RecoveryInv'
<1> USE DEF RecoveryInv
<1>1. ASSUME NEW f \in Files, SourceEvent(f)
      PROVE  RecoveryInv'
  <2>1. /\ Live /\ UNCHANGED <<journal, collecting, up, inputs, index, capture, recovery>>
        /\ "nextcloud" \in up /\ history \in Histories /\ Coherent(history, binding.withdrawn)
    BY <1>1, LiveIs DEF SourceEvent, Running, JournalTypes
  <2>2. /\ history' \in Histories /\ IsPrefix(history, history')
        /\ Coherent(history', binding'.withdrawn) /\ BindingOK(binding')
    <3>1. CASE f \in binding.withdrawn
      <4>1. Approve(f)
        BY <1>1, <3>1 DEF SourceEvent
      <4> QED  BY <1>1, <2>1, <4>1, ApproveDoes DEF Coherent
    <3>2. CASE f \notin binding.withdrawn
      <4>1. /\ history' = history \o SetToSeq([kind : {"withdrawn"}, file : {f}])
            /\ binding' = [binding EXCEPT !.withdrawn = @ \cup {f}] /\ {f} \in SUBSET Files
        BY <1>1, <3>2 DEF SourceEvent, Withdraw
      <4>2. BindingOK(binding') /\ binding'.withdrawn = binding.withdrawn \cup {f}
        BY <4>1 DEF RecoveryTypes, BindingOK, BindingFields
      <4>3. /\ history' \in Histories /\ IsPrefix(history, history')
            /\ Withdrawn(history') \subseteq Withdrawn(history) \cup {f}
        BY <2>1, <4>1, WithdrawDoes
      <4> QED  BY <2>1, <4>2, <4>3 DEF Coherent
    <3> QED  BY <3>1, <3>2
  <2>3. JournalTypes' /\ OneChain'
    BY <2>1, <2>2, JournalRests
  <2>4. RecoveryTypes'
    BY <2>1, <2>2 DEF RecoveryTypes
  <2>5. CaptureKnown'
    BY <2>1 DEF CaptureKnown, Live, At, NothingWrites
  <2>6. AnchorKnown'
    <3>1. ASSUME capture.pc \in Started
          PROVE  IsPrefix(journal[capture.anchor].head, history')
      <4>1. capture.anchor \in 1..Len(journal) /\ IsPrefix(journal[capture.anchor].head, history)
        BY <3>1 DEF AnchorKnown
      <4>2. journal[capture.anchor].head \in Histories
        BY <4>1 DEF JournalTypes, PageOK
      <4> QED  BY <2>1, <2>2, <4>1, <4>2, PrefixGoesOn
    <3> QED  BY <2>1, <3>1 DEF AnchorKnown
  <2>7. ReplayKnown' /\ IndexKnown'
    BY <2>1, <2>2, LiveKnown, LiveIs
  <2> QED  BY <2>3, <2>4, <2>5, <2>6, <2>7
<1>2. ASSUME NEW f \in Files, Regrant(f)
      PROVE  RecoveryInv'
  <2>1. /\ recovery.pc = "recovering" /\ recovery.receipt = "completed" /\ Approve(f)
        /\ UNCHANGED <<journal, collecting, up, inputs, index, capture>> /\ history \in Histories
        /\ recovery' = [recovery EXCEPT !.regrants = @ + 1]
    BY <1>2 DEF Regrant, Recovering, JournalTypes
  <2>2. capture.pc = "COMPLETE" /\ capture.anchor \in 1..Len(journal)
    BY <2>1 DEF CaptureKnown, AnchorKnown, Live, At, NextcloudDumped, WeknoraDumped, NextcloudArchived, WeknoraArchived, AtInputs, Started, CaptureEnded
  <2>3. /\ recovery'.pc = recovery.pc /\ recovery'.through = recovery.through
        /\ recovery'.receipt = recovery.receipt /\ recovery'.evidence = recovery.evidence
        /\ recovery'.nextcloud = recovery.nextcloud /\ recovery'.weknora = recovery.weknora
        /\ DOMAIN recovery' = ReplayFields /\ recovery' = [g \in ReplayFields |-> recovery'[g]]
    BY <2>1 DEF RecoveryTypes, ReplayFields
  <2>4. /\ BindingOK(binding') /\ binding'.withdrawn = binding.withdrawn \ {f}
        /\ history' \in Histories /\ Len(history') = Len(history) + 1 /\ Len(history) \in Nat
        /\ history'[Len(history) + 1] = [kind |-> "eligible", file |-> f]
        /\ SameTo(history, history', Len(history))
    BY <1>2, <2>1, ApproveDoes, HistoryIs
  <2>5. /\ recovery.through \in 1..Len(journal) /\ journal[recovery.through].next \in Nat
        /\ journal[recovery.through].next <= Len(history)
    BY <2>1, RetainedReached DEF ReplayKnown
  <2>6. /\ ~Overlooked(f)' /\ \A g : Overlooked(g)' => Overlooked(g)
    <3>1. Regranted(f)'
      BY <2>1, <2>3, <2>4, <2>5 DEF Regranted
    <3>2. ASSUME NEW g, Regranted(g)  PROVE Regranted(g)'
      BY <2>1, <2>3, <2>4, <2>5, <3>2 DEF Regranted, SameTo
    <3>3. ReachedBy(recovery.through)' = ReachedBy(recovery.through)
      BY <2>1, <2>3 DEF ReachedBy
    <3> QED  BY <3>1, <3>2, <3>3 DEF Overlooked
  <2>7. JournalTypes' /\ OneChain'
    BY <2>1, <2>4, JournalRests
  <2>8. RecoveryTypes'
    BY <2>1, <2>3, <2>4 DEF RecoveryTypes
  <2>9. CaptureKnown' /\ AnchorKnown'
    BY <2>1, <2>2, <2>3 DEF CaptureKnown, AnchorKnown, Live, At, NextcloudDumped, WeknoraDumped, NextcloudArchived, WeknoraArchived, AtInputs, Started, CaptureEnded
  <2>10. ReplayKnown'
    BY <2>1, <2>2, <2>3, <2>4, <2>5, <2>6 DEF ReplayKnown, Live, Complete
  <2>11. IndexKnown'
    BY <2>1, <2>3, <2>6 DEF IndexKnown
  <2> QED  BY <2>7, <2>8, <2>9, <2>10, <2>11
<1>3. CASE IndexFollows
  <2>1. JournalTypes' /\ OneChain'
    BY <1>3, JournalRests DEF IndexFollows, journalVars, JournalTypes
  <2>2. RecoveryTypes'
    BY <1>3 DEF IndexFollows, Live, Running, Database, journalVars, RecoveryTypes, BindingOK, IndexOK, BindingFields, IndexFields, CaptureFields, ReplayFields
  <2>3. CaptureKnown'
    BY <1>3 DEF IndexFollows, Live, Running, Database, journalVars, CaptureKnown, At, NothingWrites, NextcloudDumped, WeknoraDumped, NextcloudArchived, WeknoraArchived, AtInputs, Started, CaptureEnded
  <2>4. AnchorKnown'
    BY <1>3 DEF IndexFollows, Live, Running, Database, journalVars, AnchorKnown, Coherent, NextcloudDumped, WeknoraDumped, NextcloudArchived, WeknoraArchived, AtInputs, Started, CaptureEnded
  <2>5. ReplayKnown'
    BY <1>3 DEF IndexFollows, Live, Running, Database, journalVars, ReplayKnown, Coherent, Overlooked, Regranted, ToWithdraw, ReachedBy, Complete
  <2>6. IndexKnown'
    <3>1. Live /\ index'.replayed = 0 /\ UNCHANGED <<recovery, capture, history, binding>>
      BY <1>3, LiveIs DEF IndexFollows, RecoveryTypes, IndexOK, IndexFields, journalVars
    <3> QED  BY <3>1, LiveKnown, LiveIs DEF Coherent
  <2> QED  BY <2>1, <2>2, <2>3, <2>4, <2>5, <2>6
<1>4. CASE Collect
  <2>1. PICK c \in Collectors : CollectFrom(c) \/ Export(c) \/ AppendPage(c) \/ CollectorDies(c)
    BY <1>4 DEF Collect
  <2>2. UNCHANGED <<up, inputs, binding, index, capture, recovery>>
    BY <1>4 DEF Collect
  <2>3. /\ JournalTypes' /\ OneChain' /\ history' = history
        /\ \A n \in 1..Len(journal) : n \in 1..Len(journal') /\ journal'[n] = journal[n]
    BY <2>1, CollectorSteps
  <2>4. RecoveryTypes'
    BY <2>2 DEF RecoveryTypes
  <2>5. CaptureKnown'
    BY <2>2, <2>3 DEF CaptureKnown, Live, At, NothingWrites
  <2>6. AnchorKnown'
    BY <2>2, <2>3 DEF AnchorKnown, Coherent, NextcloudDumped, WeknoraDumped, NextcloudArchived, WeknoraArchived, AtInputs, Started, CaptureEnded
  <2>7. recovery.through # 0 =>
          /\ recovery.through \in 1..Len(journal) /\ capture.anchor \in 1..Len(journal)
          /\ journal'[recovery.through] = journal[recovery.through]
          /\ journal'[capture.anchor] = journal[capture.anchor]
    <3>1. recovery.through # 0 => recovery.through \in 1..Len(journal) /\ At("COMPLETE")
      BY DEF ReplayKnown, CaptureKnown
    <3>2. At("COMPLETE") => capture.anchor \in 1..Len(journal)
      BY DEF AnchorKnown, At, CaptureEnded
    <3> QED  BY <2>3, <3>1, <3>2
  <2>8. ReplayKnown'
    BY <2>2, <2>3, <2>7 DEF ReplayKnown, Live, Coherent, Overlooked, Regranted, ToWithdraw, ReachedBy, Complete
  <2>9. IndexKnown'
    <3>1. index.replayed # 0 => \A f : Overlooked(f)' <=> Overlooked(f)
      BY <2>2, <2>3, <2>7 DEF IndexKnown, Overlooked, Regranted, ReachedBy
    <3> QED  BY <2>2, <3>1 DEF IndexKnown
  <2> QED  BY <2>3, <2>4, <2>5, <2>6, <2>8, <2>9
<1>5. ASSUME NEW n \in DOMAIN journal, StartCheckpoint(n)
      PROVE  RecoveryInv'
  <2>1. /\ Live /\ capture.pc = "none"
        /\ UNCHANGED <<journalVars, up, inputs, binding, index, recovery>>
        /\ capture' = [capture EXCEPT !.pc = "stop_nextcloud", !.anchor = n, !.epoch = index.epoch,
                                      !.fingerprint = inputs]
        /\ n \in 1..Len(journal) /\ IsPrefix(journal[n].head, history)
    BY <1>5 DEF StartCheckpoint, At, Anchors, SourceFingerprint, JournalTypes
  <2>2. /\ capture'.pc = "stop_nextcloud" /\ capture'.anchor = n
        /\ capture'.fingerprint = inputs /\ capture'.volumes = capture.volumes
        /\ capture'.dump = capture.dump
        /\ DOMAIN capture' = CaptureFields /\ capture' = [f \in CaptureFields |-> capture'[f]]
    BY <2>1 DEF RecoveryTypes, CaptureFields
  <2>3. JournalTypes' /\ OneChain'
    BY <2>1, JournalRests DEF journalVars, JournalTypes
  <2>4. RecoveryTypes'
    <3>1. UNCHANGED <<inputs, binding, index, recovery>>
      BY <2>1
    <3> QED  BY <2>2, <3>1 DEF RecoveryTypes
  <2>5. inputs \in Nat /\ inputs <= inputs
    BY DEF RecoveryTypes
  <2>6. CaptureKnown'
    BY <2>1, <2>2, <2>5 DEF CaptureKnown, Live, At, NothingWrites, journalVars, NextcloudDumped, WeknoraDumped, NextcloudArchived, WeknoraArchived, AtInputs, Started, CaptureEnded
  <2>7. AnchorKnown'
    BY <2>1, <2>2 DEF AnchorKnown, Coherent, journalVars, NextcloudDumped, WeknoraDumped, NextcloudArchived, WeknoraArchived, AtInputs, Started, CaptureEnded
  <2>8. ReplayKnown' /\ IndexKnown'
    BY <2>1, <2>2, LiveKnown, LiveIs DEF journalVars, Coherent
  <2> QED  BY <2>3, <2>4, <2>6, <2>7, <2>8
<1>6. ASSUME NEW n \in DOMAIN journal, SignPlan(n)
      PROVE  RecoveryInv'
  <2>1. JournalTypes' /\ OneChain'
    BY <1>6, JournalRests DEF SignPlan, journalVars, JournalTypes
  <2>2. RecoveryTypes'
    BY <1>6 DEF SignPlan, Recovering, Replayable, Complete, journalVars, RecoveryTypes, BindingOK, IndexOK, BindingFields, IndexFields, CaptureFields, ReplayFields
  <2>3. CaptureKnown'
    BY <1>6 DEF SignPlan, Recovering, Replayable, Complete, journalVars, CaptureKnown, Live, At, NothingWrites, NextcloudDumped, WeknoraDumped, NextcloudArchived, WeknoraArchived, AtInputs, Started, CaptureEnded
  <2>4. AnchorKnown'
    BY <1>6 DEF SignPlan, Recovering, Replayable, Complete, journalVars, AnchorKnown, Coherent, NextcloudDumped, WeknoraDumped, NextcloudArchived, WeknoraArchived, AtInputs, Started, CaptureEnded
  <2>5. ReplayKnown'
    BY <1>6 DEF SignPlan, Recovering, Replayable, Complete, journalVars, ReplayKnown, Live, Coherent, Overlooked, Regranted, ToWithdraw, ReachedBy
  <2>6. IndexKnown'
    <3>1. /\ recovery'.receipt = recovery.receipt /\ recovery'.weknora = recovery.weknora
          /\ recovery'.nextcloud = recovery.nextcloud /\ recovery'.evidence = recovery.evidence
          /\ recovery.through = 0 /\ index' = index
      BY <1>6 DEF SignPlan, RecoveryTypes, ReplayFields
    <3>2. recovery.receipt = "none" /\ index.replayed = 0
      BY <3>1 DEF ReplayKnown, IndexKnown
    <3> QED  BY <3>1, <3>2 DEF IndexKnown
  <2> QED  BY <2>1, <2>2, <2>3, <2>4, <2>5, <2>6
<1>7. CASE StopApplications
  <2>1. CASE At("stop_nextcloud") /\ up' = up \ {"nextcloud"} /\ CaptureGoto("stop_weknora")
    <3>1. /\ Live /\ capture' = [capture EXCEPT !.pc = "stop_weknora"] /\ capture.pc = "stop_nextcloud"
          /\ UNCHANGED <<journalVars, inputs, binding, index, recovery>> /\ up' = up \ {"nextcloud"}
      BY <1>7, <2>1 DEF StopApplications, CaptureKnown, At, CaptureGoto
    <3> QED  BY <3>1, CaptureMoves DEF NextcloudDumped, WeknoraDumped, NextcloudArchived, WeknoraArchived, AtInputs, Started, CaptureEnded
  <2>2. CASE At("stop_weknora") /\ up' = up \ {"weknora"} /\ CaptureGoto("stopped")
    <3>1. /\ Live /\ capture' = [capture EXCEPT !.pc = "stopped"] /\ capture.pc = "stop_weknora"
          /\ UNCHANGED <<journalVars, inputs, binding, index, recovery>> /\ up' = up \ {"weknora"}
      BY <1>7, <2>2 DEF StopApplications, CaptureKnown, At, CaptureGoto
    <3> QED  BY <3>1, CaptureMoves DEF NextcloudDumped, WeknoraDumped, NextcloudArchived, WeknoraArchived, AtInputs, Started, CaptureEnded
  <2> QED  BY <1>7, <2>1, <2>2 DEF StopApplications
<1>8. CASE CheckStopped
  <2>1. PICK next \in {"dump_nextcloud", "INCOMPLETE"} : capture' = [capture EXCEPT !.pc = next]
    BY <1>8 DEF CheckStopped, CaptureGoto
  <2>2. /\ Live /\ capture.pc = "stopped" /\ StillWritten
        /\ UNCHANGED <<journalVars, inputs, binding, index, recovery>>
    BY <1>8 DEF CheckStopped, CaptureKnown, At, StillWritten
  <2> QED  BY <2>1, <2>2, CaptureMoves DEF NextcloudDumped, WeknoraDumped, NextcloudArchived, WeknoraArchived, AtInputs, Started, CaptureEnded
<1>9. CASE DumpDatabase("nextcloud", "dump_nextcloud", "dumped_nextcloud")
  <2>1. /\ Live /\ capture.pc = "dump_nextcloud" /\ StillWritten
        /\ UNCHANGED <<journalVars, up, inputs, binding, index, recovery>>
    BY <1>9 DEF DumpDatabase, CaptureKnown, At, StillWritten
  <2>2. CASE capture' = [capture EXCEPT !.pc = "INCOMPLETE"]
    BY <2>1, <2>2, CaptureMoves DEF NextcloudDumped, WeknoraDumped, NextcloudArchived, WeknoraArchived, AtInputs, Started, CaptureEnded
  <2>3. CASE capture' = [capture EXCEPT !.dump["nextcloud"] = Snapshot("nextcloud"), !.pc = "dumped_nextcloud"]
    <3>1. /\ capture'.pc = "dumped_nextcloud" /\ capture'.anchor = capture.anchor
          /\ capture'.fingerprint = capture.fingerprint /\ capture'.archived = capture.archived
          /\ capture'.dump = [capture.dump EXCEPT !["nextcloud"] = Snapshot("nextcloud")]
          /\ capture'.volumes = capture.volumes
          /\ DOMAIN capture' = CaptureFields /\ capture' = [f \in CaptureFields |-> capture'[f]]
      BY <2>3 DEF RecoveryTypes, CaptureFields
    <3>2. /\ PairOK(capture'.dump)
          /\ capture'.dump["nextcloud"] = [history |-> history, binding |-> binding]
          /\ capture'.dump["weknora"] = capture.dump["weknora"]
      BY <3>1 DEF RecoveryTypes, SavedOK, PairOK, Snapshot, Stacks
    <3>3. JournalTypes' /\ OneChain'
      BY <2>1, JournalRests DEF journalVars, JournalTypes
    <3>4. RecoveryTypes'
      BY <2>1, <3>1, <3>2 DEF RecoveryTypes, journalVars
    <3>5. CaptureKnown'
      BY <2>1, <3>1, <3>2 DEF CaptureKnown, Live, At, NothingWrites, journalVars, NextcloudDumped, WeknoraDumped, NextcloudArchived, WeknoraArchived, AtInputs, Started, CaptureEnded
    <3>6. AnchorKnown'
      BY <2>1, <3>1 DEF AnchorKnown, Coherent, journalVars, NextcloudDumped, WeknoraDumped, NextcloudArchived, WeknoraArchived, AtInputs, Started, CaptureEnded
    <3>7. ReplayKnown' /\ IndexKnown'
      BY <2>1, <3>1, LiveKnown, LiveIs DEF journalVars, Coherent
    <3> QED  BY <3>3, <3>4, <3>5, <3>6, <3>7
  <2> QED  BY <1>9, <2>2, <2>3 DEF DumpDatabase, CaptureGoto
<1>10. CASE CheckClients("nextcloud", "dumped_nextcloud", "dump_weknora")
  <2>1. PICK next \in {"dump_weknora", "INCOMPLETE"} : capture' = [capture EXCEPT !.pc = next]
    BY <1>10 DEF CheckClients, CaptureGoto
  <2>2. /\ Live /\ capture.pc = "dumped_nextcloud" /\ StillWritten
        /\ UNCHANGED <<journalVars, inputs, binding, index, recovery>>
    BY <1>10 DEF CheckClients, CaptureKnown, At, StillWritten
  <2> QED  BY <2>1, <2>2, CaptureMoves DEF NextcloudDumped, WeknoraDumped, NextcloudArchived, WeknoraArchived, AtInputs, Started, CaptureEnded
<1>11. CASE DumpDatabase("weknora", "dump_weknora", "dumped_weknora")
  <2>1. /\ Live /\ capture.pc = "dump_weknora" /\ StillWritten
        /\ UNCHANGED <<journalVars, up, inputs, binding, index, recovery>>
    BY <1>11 DEF DumpDatabase, CaptureKnown, At, StillWritten
  <2>2. CASE capture' = [capture EXCEPT !.pc = "INCOMPLETE"]
    BY <2>1, <2>2, CaptureMoves DEF NextcloudDumped, WeknoraDumped, NextcloudArchived, WeknoraArchived, AtInputs, Started, CaptureEnded
  <2>3. CASE capture' = [capture EXCEPT !.dump["weknora"] = Snapshot("weknora"), !.pc = "dumped_weknora"]
    <3>1. /\ capture'.pc = "dumped_weknora" /\ capture'.anchor = capture.anchor
          /\ capture'.fingerprint = capture.fingerprint /\ capture'.archived = capture.archived
          /\ capture'.dump = [capture.dump EXCEPT !["weknora"] = Snapshot("weknora")]
          /\ capture'.volumes = capture.volumes
          /\ DOMAIN capture' = CaptureFields /\ capture' = [f \in CaptureFields |-> capture'[f]]
      BY <2>3 DEF RecoveryTypes, CaptureFields
    <3>2. /\ PairOK(capture'.dump)
          /\ capture'.dump["weknora"] = index
          /\ capture'.dump["nextcloud"] = capture.dump["nextcloud"]
      BY <3>1 DEF RecoveryTypes, SavedOK, PairOK, Snapshot, Stacks
    <3>3. JournalTypes' /\ OneChain'
      BY <2>1, JournalRests DEF journalVars, JournalTypes
    <3>4. RecoveryTypes'
      BY <2>1, <3>1, <3>2 DEF RecoveryTypes, journalVars
    <3>5. CaptureKnown'
      BY <2>1, <3>1, <3>2 DEF CaptureKnown, Live, At, NothingWrites, journalVars, NextcloudDumped, WeknoraDumped, NextcloudArchived, WeknoraArchived, AtInputs, Started, CaptureEnded
    <3>6. AnchorKnown'
      BY <2>1, <3>1 DEF AnchorKnown, Coherent, journalVars, NextcloudDumped, WeknoraDumped, NextcloudArchived, WeknoraArchived, AtInputs, Started, CaptureEnded
    <3>7. ReplayKnown' /\ IndexKnown'
      BY <2>1, <3>1, LiveKnown, LiveIs DEF journalVars, Coherent
    <3> QED  BY <3>3, <3>4, <3>5, <3>6, <3>7
  <2> QED  BY <1>11, <2>2, <2>3 DEF DumpDatabase, CaptureGoto
<1>12. CASE CheckClients("weknora", "dumped_weknora", "stop_db")
  <2>1. PICK next \in {"stop_db", "INCOMPLETE"} : capture' = [capture EXCEPT !.pc = next]
    BY <1>12 DEF CheckClients, CaptureGoto
  <2>2. /\ Live /\ capture.pc = "dumped_weknora" /\ StillWritten
        /\ UNCHANGED <<journalVars, inputs, binding, index, recovery>>
    BY <1>12 DEF CheckClients, CaptureKnown, At, StillWritten
  <2> QED  BY <2>1, <2>2, CaptureMoves DEF NextcloudDumped, WeknoraDumped, NextcloudArchived, WeknoraArchived, AtInputs, Started, CaptureEnded
<1>13. CASE StopDatabases
  <2>1. CASE At("stop_db") /\ up' = up \ {"db"} /\ CaptureGoto("stop_postgres")
    <3>1. /\ Live /\ capture' = [capture EXCEPT !.pc = "stop_postgres"] /\ capture.pc = "stop_db"
          /\ UNCHANGED <<journalVars, inputs, binding, index, recovery>> /\ up' = up \ {"db"}
      BY <1>13, <2>1 DEF StopDatabases, CaptureKnown, At, CaptureGoto
    <3>2. StillWritten
      BY <3>1 DEF StillWritten, Stacks, Foreign
    <3> QED  BY <3>1, <3>2, CaptureMoves DEF NextcloudDumped, WeknoraDumped, NextcloudArchived, WeknoraArchived, AtInputs, Started, CaptureEnded
  <2>2. CASE At("stop_postgres") /\ up' = up \ {"postgres"} /\ CaptureGoto("all_stopped")
    <3>1. /\ Live /\ capture' = [capture EXCEPT !.pc = "all_stopped"] /\ capture.pc = "stop_postgres"
          /\ UNCHANGED <<journalVars, inputs, binding, index, recovery>> /\ up' = up \ {"postgres"}
      BY <1>13, <2>2 DEF StopDatabases, CaptureKnown, At, CaptureGoto
    <3>2. StillWritten
      BY <3>1 DEF StillWritten, Stacks, Foreign
    <3> QED  BY <3>1, <3>2, CaptureMoves DEF NextcloudDumped, WeknoraDumped, NextcloudArchived, WeknoraArchived, AtInputs, Started, CaptureEnded
  <2> QED  BY <1>13, <2>1, <2>2 DEF StopDatabases
<1>14. CASE CheckAllStopped
  <2>1. PICK next \in {"archive_nextcloud", "INCOMPLETE"} : capture' = [capture EXCEPT !.pc = next]
    BY <1>14 DEF CheckAllStopped, CaptureGoto
  <2>2. /\ Live /\ capture.pc = "all_stopped" /\ StillWritten
        /\ UNCHANGED <<journalVars, inputs, binding, index, recovery>>
    BY <1>14 DEF CheckAllStopped, CaptureKnown, At, StillWritten
  <2> QED  BY <2>1, <2>2, CaptureMoves DEF NextcloudDumped, WeknoraDumped, NextcloudArchived, WeknoraArchived, AtInputs, Started, CaptureEnded
<1>15. CASE ArchiveVolumes("nextcloud", "archive_nextcloud", "archive_weknora")
  <2>1. /\ Live /\ capture.pc = "archive_nextcloud"
        /\ UNCHANGED <<journalVars, up, inputs, binding, index, recovery>>
        /\ capture' = [capture EXCEPT !.volumes["nextcloud"] = Snapshot("nextcloud"), !.pc = "archive_weknora"]
    BY <1>15 DEF ArchiveVolumes, CaptureKnown, At
  <2>2. /\ capture'.pc = "archive_weknora" /\ capture'.anchor = capture.anchor
        /\ capture'.fingerprint = capture.fingerprint /\ capture'.archived = capture.archived
        /\ capture'.volumes = [capture.volumes EXCEPT !["nextcloud"] = Snapshot("nextcloud")]
        /\ capture'.dump = capture.dump
        /\ DOMAIN capture' = CaptureFields /\ capture' = [f \in CaptureFields |-> capture'[f]]
    BY <2>1 DEF RecoveryTypes, CaptureFields
  <2>3. /\ PairOK(capture'.volumes)
        /\ capture'.volumes["nextcloud"] = [history |-> history, binding |-> binding]
        /\ capture'.volumes["weknora"] = capture.volumes["weknora"]
    BY <2>2 DEF RecoveryTypes, SavedOK, PairOK, Snapshot, Stacks
  <2>4. JournalTypes' /\ OneChain'
    BY <2>1, JournalRests DEF journalVars, JournalTypes
  <2>5. RecoveryTypes'
    <3>1. UNCHANGED <<inputs, binding, index, recovery>>
      BY <2>1
    <3>2. SavedOK(capture'.volumes)
      BY <2>3 DEF RecoveryTypes, SavedOK, JournalTypes
    <3> QED  BY <2>2, <3>1, <3>2 DEF RecoveryTypes
  <2>6. CaptureKnown'
    BY <2>1, <2>2, <2>3 DEF CaptureKnown, Live, At, NothingWrites, journalVars, NextcloudDumped, WeknoraDumped, NextcloudArchived, WeknoraArchived, AtInputs, Started, CaptureEnded
  <2>7. AnchorKnown'
    BY <2>1, <2>2, <2>3, LiveIs DEF AnchorKnown, Coherent, journalVars, NextcloudDumped, WeknoraDumped, NextcloudArchived, WeknoraArchived, AtInputs, Started, CaptureEnded
  <2>8. ReplayKnown' /\ IndexKnown'
    BY <2>1, <2>2, <2>3, LiveKnown, LiveIs DEF journalVars, Coherent
  <2> QED  BY <2>4, <2>5, <2>6, <2>7, <2>8
<1>16. CASE ArchiveVolumes("weknora", "archive_weknora", "inputs")
  <2>1. /\ Live /\ capture.pc = "archive_weknora"
        /\ UNCHANGED <<journalVars, up, inputs, binding, index, recovery>>
        /\ capture' = [capture EXCEPT !.volumes["weknora"] = Snapshot("weknora"), !.pc = "inputs"]
    BY <1>16 DEF ArchiveVolumes, CaptureKnown, At
  <2>2. /\ capture'.pc = "inputs" /\ capture'.anchor = capture.anchor
        /\ capture'.fingerprint = capture.fingerprint /\ capture'.archived = capture.archived
        /\ capture'.volumes = [capture.volumes EXCEPT !["weknora"] = Snapshot("weknora")]
        /\ capture'.dump = capture.dump
        /\ DOMAIN capture' = CaptureFields /\ capture' = [f \in CaptureFields |-> capture'[f]]
    BY <2>1 DEF RecoveryTypes, CaptureFields
  <2>3. /\ PairOK(capture'.volumes)
        /\ capture'.volumes["weknora"] = index
        /\ capture'.volumes["nextcloud"] = capture.volumes["nextcloud"]
    BY <2>2 DEF RecoveryTypes, SavedOK, PairOK, Snapshot, Stacks
  <2>4. JournalTypes' /\ OneChain'
    BY <2>1, JournalRests DEF journalVars, JournalTypes
  <2>5. RecoveryTypes'
    <3>1. UNCHANGED <<inputs, binding, index, recovery>>
      BY <2>1
    <3>2. SavedOK(capture'.volumes)
      BY <2>3 DEF RecoveryTypes, SavedOK, JournalTypes
    <3> QED  BY <2>2, <3>1, <3>2 DEF RecoveryTypes
  <2>6. CaptureKnown'
    BY <2>1, <2>2, <2>3 DEF CaptureKnown, Live, At, NothingWrites, journalVars, NextcloudDumped, WeknoraDumped, NextcloudArchived, WeknoraArchived, AtInputs, Started, CaptureEnded
  <2>7. AnchorKnown'
    BY <2>1, <2>2, <2>3, LiveIs DEF AnchorKnown, Coherent, journalVars, NextcloudDumped, WeknoraDumped, NextcloudArchived, WeknoraArchived, AtInputs, Started, CaptureEnded
  <2>8. ReplayKnown' /\ IndexKnown'
    BY <2>1, <2>2, <2>3, LiveKnown, LiveIs DEF journalVars, Coherent
  <2> QED  BY <2>4, <2>5, <2>6, <2>7, <2>8
<1>17. CASE ArchiveInputs
  <2>1. /\ Live /\ capture.pc = "inputs"
        /\ UNCHANGED <<journalVars, up, inputs, binding, index, recovery>>
        /\ capture' = [capture EXCEPT !.archived = inputs, !.pc = "check_inputs"]
    BY <1>17 DEF ArchiveInputs, CaptureKnown, At
  <2>2. /\ capture'.pc = "check_inputs" /\ capture'.anchor = capture.anchor
        /\ capture'.fingerprint = capture.fingerprint /\ capture'.archived = inputs
        /\ capture'.volumes = capture.volumes /\ capture'.dump = capture.dump
        /\ DOMAIN capture' = CaptureFields /\ capture' = [f \in CaptureFields |-> capture'[f]]
    BY <2>1 DEF RecoveryTypes, CaptureFields
  <2>3. JournalTypes' /\ OneChain'
    BY <2>1, JournalRests DEF journalVars, JournalTypes
  <2>4. RecoveryTypes'
    BY <2>1, <2>2 DEF RecoveryTypes, journalVars
  <2>5. capture.fingerprint \in Nat /\ capture.fingerprint <= inputs /\ inputs \in Nat
    BY <2>1 DEF CaptureKnown, RecoveryTypes, NextcloudDumped, WeknoraDumped, NextcloudArchived, WeknoraArchived, AtInputs, Started, CaptureEnded
  <2>6. CaptureKnown'
    BY <2>1, <2>2, <2>5 DEF CaptureKnown, Live, At, NothingWrites, journalVars, NextcloudDumped, WeknoraDumped, NextcloudArchived, WeknoraArchived, AtInputs, Started, CaptureEnded
  <2>7. AnchorKnown'
    BY <2>1, <2>2 DEF AnchorKnown, Coherent, journalVars, NextcloudDumped, WeknoraDumped, NextcloudArchived, WeknoraArchived, AtInputs, Started, CaptureEnded
  <2>8. ReplayKnown' /\ IndexKnown'
    BY <2>1, <2>2, LiveKnown, LiveIs DEF journalVars, Coherent
  <2> QED  BY <2>3, <2>4, <2>6, <2>7, <2>8
<1>18. CASE CheckInputs
  <2>1. /\ Live /\ capture.pc = "check_inputs" /\ StillWritten
        /\ UNCHANGED <<journalVars, up, inputs, binding, index, recovery>>
    BY <1>18 DEF CheckInputs, CaptureKnown, At, StillWritten
  <2>2. CASE capture' = [capture EXCEPT !.pc = "INCOMPLETE"]
    BY <2>1, <2>2, CaptureMoves DEF NextcloudDumped, WeknoraDumped, NextcloudArchived, WeknoraArchived, AtInputs, Started, CaptureEnded
  <2>3. CASE EnsureState({}) /\ RejectForeignUsers /\ inputs = capture.fingerprint
             /\ capture' = [capture EXCEPT !.pc = "manifest"]
    <3>1. /\ capture'.pc = "manifest" /\ capture'.anchor = capture.anchor
          /\ capture'.fingerprint = capture.fingerprint /\ capture'.archived = capture.archived
          /\ capture'.dump = capture.dump /\ capture'.volumes = capture.volumes
          /\ DOMAIN capture' = CaptureFields /\ capture' = [f \in CaptureFields |-> capture'[f]]
      BY <2>3, CaptureForms
    <3>2. JournalTypes' /\ OneChain'
      BY <2>1, JournalRests DEF journalVars, JournalTypes
    <3>3. RecoveryTypes'
      BY <2>1, <3>1 DEF RecoveryTypes, journalVars
    <3>4. \A side \in Stacks : NothingWrites(side)
      BY <2>3 DEF NothingWrites, EnsureState, RejectForeignUsers, Stacks, Foreign
    <3>5. \A side \in Stacks : capture.dump[side] = capture.volumes[side]
      BY <2>1, <3>4 DEF CaptureKnown, Stacks, NextcloudDumped, WeknoraDumped, NextcloudArchived, WeknoraArchived, AtInputs, Started, CaptureEnded
    <3>6. capture.archived = capture.fingerprint /\ capture.archived \in Nat
      BY <2>1, <2>3 DEF CaptureKnown, RecoveryTypes, NextcloudDumped, WeknoraDumped, NextcloudArchived, WeknoraArchived, AtInputs, Started, CaptureEnded
    <3>7. CaptureKnown'
      BY <2>1, <3>1, <3>5, <3>6 DEF CaptureKnown, Live, At, NextcloudDumped, WeknoraDumped, NextcloudArchived, WeknoraArchived, AtInputs, Started, CaptureEnded
    <3>8. AnchorKnown'
      BY <2>1, <3>1 DEF AnchorKnown, Coherent, journalVars, NextcloudDumped, WeknoraDumped, NextcloudArchived, WeknoraArchived, AtInputs, Started, CaptureEnded
    <3>9. ReplayKnown' /\ IndexKnown'
      BY <2>1, <3>1, LiveKnown, LiveIs DEF journalVars, Coherent
    <3> QED  BY <3>2, <3>3, <3>7, <3>8, <3>9
  <2> QED  BY <1>18, <2>2, <2>3 DEF CheckInputs, CaptureGoto, SourceFingerprint
<1>19. CASE WriteManifest
  <2>1. JournalTypes' /\ OneChain'
    BY <1>19, JournalRests DEF WriteManifest, journalVars, JournalTypes
  <2>2. RecoveryTypes'
    BY <1>19 DEF WriteManifest, At, CaptureGoto, journalVars, RecoveryTypes, BindingOK, IndexOK, BindingFields, IndexFields, CaptureFields, ReplayFields
  <2>3. CaptureKnown'
    BY <1>19 DEF WriteManifest, At, CaptureGoto, journalVars, CaptureKnown, Live, NothingWrites, NextcloudDumped, WeknoraDumped, NextcloudArchived, WeknoraArchived, AtInputs, Started, CaptureEnded
  <2>4. AnchorKnown'
    BY <1>19 DEF WriteManifest, At, CaptureGoto, journalVars, AnchorKnown, Coherent, NextcloudDumped, WeknoraDumped, NextcloudArchived, WeknoraArchived, AtInputs, Started, CaptureEnded
  <2>5. ReplayKnown'
    BY <1>19 DEF WriteManifest, At, CaptureGoto, journalVars, ReplayKnown, Live, Coherent, Overlooked, Regranted, ToWithdraw, ReachedBy, Complete
  <2>6. IndexKnown'
    BY <1>19 DEF WriteManifest, At, CaptureGoto, journalVars, IndexKnown, Overlooked, Regranted, ReachedBy
  <2> QED  BY <2>1, <2>2, <2>3, <2>4, <2>5, <2>6
<1>20. CASE CheckpointFails
  <2>1. /\ Live /\ capture' = [capture EXCEPT !.pc = "INCOMPLETE"] /\ StillWritten
        /\ UNCHANGED <<journalVars, inputs, binding, index, recovery>>
    BY <1>20 DEF CheckpointFails, CaptureGoto, Capturing, CaptureKnown, At, StillWritten
  <2> QED  BY <2>1, CaptureMoves DEF NextcloudDumped, WeknoraDumped, NextcloudArchived, WeknoraArchived, AtInputs, Started, CaptureEnded
<1>21. CASE StartStacks
  <2>1. JournalTypes' /\ OneChain'
    BY <1>21, JournalRests DEF StartStacks, journalVars, JournalTypes
  <2>2. RecoveryTypes'
    BY <1>21 DEF StartStacks, Live, Services, journalVars, RecoveryTypes, BindingOK, IndexOK, BindingFields, IndexFields, CaptureFields, ReplayFields
  <2>3. CaptureKnown'
    BY <1>21 DEF StartStacks, Live, Services, journalVars, CaptureKnown, At, NothingWrites, NextcloudDumped, WeknoraDumped, NextcloudArchived, WeknoraArchived, AtInputs, Started, CaptureEnded
  <2>4. AnchorKnown'
    BY <1>21 DEF StartStacks, Live, Services, journalVars, AnchorKnown, Coherent, NextcloudDumped, WeknoraDumped, NextcloudArchived, WeknoraArchived, AtInputs, Started, CaptureEnded
  <2>5. ReplayKnown'
    BY <1>21 DEF StartStacks, Live, Services, journalVars, ReplayKnown, Coherent, Overlooked, Regranted, ToWithdraw, ReachedBy, Complete
  <2>6. IndexKnown'
    BY <1>21 DEF StartStacks, Live, Services, journalVars, IndexKnown, Overlooked, Regranted, ReachedBy
  <2> QED  BY <2>1, <2>2, <2>3, <2>4, <2>5, <2>6
<1>22. CASE StopStacks
  <2>1. JournalTypes' /\ OneChain'
    BY <1>22, JournalRests DEF StopStacks, journalVars, JournalTypes
  <2>2. RecoveryTypes'
    BY <1>22 DEF StopStacks, Live, At, Services, journalVars, RecoveryTypes, BindingOK, IndexOK, BindingFields, IndexFields, CaptureFields, ReplayFields
  <2>3. CaptureKnown'
    BY <1>22 DEF StopStacks, Live, At, Services, journalVars, CaptureKnown, NothingWrites, NextcloudDumped, WeknoraDumped, NextcloudArchived, WeknoraArchived, AtInputs, Started, CaptureEnded
  <2>4. AnchorKnown'
    BY <1>22 DEF StopStacks, Live, At, Services, journalVars, AnchorKnown, Coherent, NextcloudDumped, WeknoraDumped, NextcloudArchived, WeknoraArchived, AtInputs, Started, CaptureEnded
  <2>5. ReplayKnown'
    BY <1>22 DEF StopStacks, Live, At, Services, journalVars, ReplayKnown, Coherent, Overlooked, Regranted, ToWithdraw, ReachedBy, Complete
  <2>6. IndexKnown'
    BY <1>22 DEF StopStacks, Live, At, Services, journalVars, IndexKnown, Overlooked, Regranted, ReachedBy
  <2> QED  BY <2>1, <2>2, <2>3, <2>4, <2>5, <2>6
<1>23. CASE Meddle
  <2>1. /\ Live /\ UNCHANGED <<journalVars, binding, index, recovery>>
        /\ capture' = [capture EXCEPT !.meddled = TRUE]
    BY <1>23 DEF Meddle, Capturing, CaptureKnown, At
  <2>2. /\ inputs' \in Nat /\ inputs <= inputs' /\ inputs \in Nat /\ up \subseteq up'
    BY <1>23 DEF Meddle, RecoveryTypes
  <2>3. /\ capture'.pc = capture.pc /\ capture'.anchor = capture.anchor
        /\ capture'.fingerprint = capture.fingerprint /\ capture'.archived = capture.archived
        /\ capture'.volumes = capture.volumes /\ capture'.dump = capture.dump
        /\ DOMAIN capture' = CaptureFields /\ capture' = [f \in CaptureFields |-> capture'[f]]
    BY <2>1 DEF RecoveryTypes, CaptureFields
  <2>4. JournalTypes' /\ OneChain'
    BY <2>1, JournalRests DEF journalVars, JournalTypes
  <2>5. RecoveryTypes'
    BY <2>1, <2>2, <2>3 DEF RecoveryTypes, journalVars
  <2>6. \A side \in Stacks : NothingWrites(side)' => NothingWrites(side)
    BY <2>2 DEF NothingWrites
  <2>7. CaptureKnown'
    BY <2>1, <2>2, <2>3, <2>6 DEF CaptureKnown, Live, At, Stacks, journalVars
  <2>8. AnchorKnown'
    BY <2>1, <2>3 DEF AnchorKnown, Coherent, journalVars
  <2>9. ReplayKnown' /\ IndexKnown'
    BY <2>1, <2>3, LiveKnown, LiveIs DEF journalVars, Coherent
  <2> QED  BY <2>4, <2>5, <2>7, <2>8, <2>9
<1>24. CASE ForeignWrite
  <2>1. JournalTypes' /\ OneChain'
    BY <1>24, JournalRests DEF ForeignWrite, journalVars, JournalTypes
  <2>2. RecoveryTypes'
    BY <1>24 DEF ForeignWrite, Foreign, journalVars, RecoveryTypes, BindingOK, IndexOK, BindingFields, IndexFields, CaptureFields, ReplayFields
  <2>3. CaptureKnown'
    BY <1>24 DEF ForeignWrite, Foreign, journalVars, CaptureKnown, Live, At, NothingWrites, NextcloudDumped, WeknoraDumped, NextcloudArchived, WeknoraArchived, AtInputs, Started, CaptureEnded
  <2>4. AnchorKnown'
    BY <1>24 DEF ForeignWrite, Foreign, journalVars, AnchorKnown, Coherent, NextcloudDumped, WeknoraDumped, NextcloudArchived, WeknoraArchived, AtInputs, Started, CaptureEnded
  <2>5. ReplayKnown'
    BY <1>24 DEF ForeignWrite, Foreign, journalVars, ReplayKnown, Live, Coherent, Overlooked, Regranted, ToWithdraw, ReachedBy, Complete
  <2>6. IndexKnown'
    <3>1. /\ index'.published = {} /\ index'.manifest = index.manifest
          /\ index'.replayed = index.replayed /\ UNCHANGED <<recovery, history, journal, binding>>
      BY <1>24 DEF ForeignWrite, RecoveryTypes, IndexOK, IndexFields, journalVars
    <3> QED  BY <3>1 DEF IndexKnown, Overlooked, Regranted, ReachedBy
  <2> QED  BY <2>1, <2>2, <2>3, <2>4, <2>5, <2>6
<1>25. CASE ArtifactDamaged
  <2>0. /\ capture'.pc = capture.pc /\ capture'.anchor = capture.anchor
        /\ capture'.fingerprint = capture.fingerprint /\ capture'.archived = capture.archived
        /\ capture'.volumes = capture.volumes /\ capture'.dump = capture.dump
        /\ DOMAIN capture' = CaptureFields /\ capture' = [f \in CaptureFields |-> capture'[f]]
    BY <1>25 DEF ArtifactDamaged, RecoveryTypes, CaptureFields
  <2>1. JournalTypes' /\ OneChain'
    BY <1>25, <2>0, JournalRests DEF ArtifactDamaged, journalVars, JournalTypes
  <2>2. RecoveryTypes'
    BY <1>25, <2>0 DEF ArtifactDamaged, Live, At, journalVars, RecoveryTypes, BindingOK, IndexOK, BindingFields, IndexFields, CaptureFields, ReplayFields
  <2>3. CaptureKnown'
    BY <1>25, <2>0 DEF ArtifactDamaged, Live, At, journalVars, CaptureKnown, NothingWrites, NextcloudDumped, WeknoraDumped, NextcloudArchived, WeknoraArchived, AtInputs, Started, CaptureEnded
  <2>4. AnchorKnown'
    BY <1>25, <2>0 DEF ArtifactDamaged, Live, At, journalVars, AnchorKnown, Coherent, NextcloudDumped, WeknoraDumped, NextcloudArchived, WeknoraArchived, AtInputs, Started, CaptureEnded
  <2>5. ReplayKnown'
    BY <1>25, <2>0 DEF ArtifactDamaged, Live, At, journalVars, ReplayKnown, Coherent, Overlooked, Regranted, ToWithdraw, ReachedBy, Complete
  <2>6. IndexKnown'
    BY <1>25, <2>0 DEF ArtifactDamaged, Live, At, journalVars, IndexKnown, Overlooked, Regranted, ReachedBy
  <2> QED  BY <2>1, <2>2, <2>3, <2>4, <2>5, <2>6
<1>26. CASE RestorePair
  <2>1. /\ history' = capture.volumes["nextcloud"].history
        /\ binding' = capture.volumes["nextcloud"].binding /\ index' = capture.volumes["weknora"]
        /\ inputs' = capture.archived /\ UNCHANGED <<journal, collecting, capture>>
        /\ capture.pc = "COMPLETE"
        /\ recovery' = [NoRecovery EXCEPT !.pc = "recovering", !.regrants = recovery.regrants]
    BY <1>26 DEF RestorePair, VerifyCheckpoint, At
  <2>2. /\ recovery'.pc = "recovering" /\ recovery'.through = 0 /\ recovery'.receipt = "none"
        /\ recovery'.evidence = "none" /\ ~recovery'.nextcloud.seen /\ recovery'.weknora.replayed = 0
        /\ DOMAIN recovery' = ReplayFields /\ recovery' = [g \in ReplayFields |-> recovery'[g]]
    BY <2>1 DEF NoRecovery, NoObservation, EmptyIndex, ReplayFields
  <2>3. /\ history' \in Histories /\ BindingOK(binding') /\ IndexOK(index') /\ inputs' \in Nat
        /\ capture.volumes["weknora"].replayed = 0 /\ Coherent(history', binding'.withdrawn)
    BY <2>1 DEF RecoveryTypes, SavedOK, CaptureKnown, AnchorKnown, ReplayKnown, NextcloudDumped, WeknoraDumped, NextcloudArchived, WeknoraArchived, AtInputs, Started, CaptureEnded
  <2>4. JournalTypes' /\ OneChain'
    BY <2>1, <2>3, JournalRests
  <2>5. RecoveryTypes'
    <3>1. UNCHANGED capture
      BY <2>1
    <3> QED  BY <2>2, <2>3, <3>1 DEF RecoveryTypes
  <2>6. CaptureKnown' /\ AnchorKnown'
    BY <2>1, <2>2 DEF CaptureKnown, AnchorKnown, Coherent, Live, At, NextcloudDumped, WeknoraDumped, NextcloudArchived, WeknoraArchived, AtInputs, Started, CaptureEnded
  <2>7. ReplayKnown'
    BY <2>1, <2>2, <2>3 DEF ReplayKnown, Live, Coherent
  <2>8. IndexKnown'
    BY <2>1, <2>2, <2>3 DEF IndexKnown
  <2> QED  BY <2>4, <2>5, <2>6, <2>7, <2>8
<1>27. CASE ReopenUnreplayed
  <2>1. JournalTypes' /\ OneChain'
    BY <1>27, JournalRests DEF ReopenUnreplayed, journalVars, JournalTypes
  <2>2. RecoveryTypes'
    BY <1>27 DEF ReopenUnreplayed, Recovering, NoRecovery, NoObservation, journalVars, RecoveryTypes, BindingOK, IndexOK, BindingFields, IndexFields, CaptureFields, ReplayFields
  <2>3. CaptureKnown'
    BY <1>27 DEF ReopenUnreplayed, Recovering, NoRecovery, NoObservation, journalVars, CaptureKnown, Live, At, NothingWrites, NextcloudDumped, WeknoraDumped, NextcloudArchived, WeknoraArchived, AtInputs, Started, CaptureEnded
  <2>4. AnchorKnown'
    BY <1>27 DEF ReopenUnreplayed, Recovering, NoRecovery, NoObservation, journalVars, AnchorKnown, Coherent, NextcloudDumped, WeknoraDumped, NextcloudArchived, WeknoraArchived, AtInputs, Started, CaptureEnded
  <2>5. ReplayKnown'
    BY <1>27 DEF ReopenUnreplayed, Recovering, NoRecovery, NoObservation, journalVars, ReplayKnown, Live, Coherent, Overlooked, Regranted, ToWithdraw, ReachedBy, Complete
  <2>6. IndexKnown'
    BY <1>27 DEF ReopenUnreplayed, Recovering, NoRecovery, NoObservation, journalVars, IndexKnown, Overlooked, Regranted, ReachedBy, EmptyIndex
  <2> QED  BY <2>1, <2>2, <2>3, <2>4, <2>5, <2>6
<1>28. CASE RestoreTail
  <2>1. /\ recovery.pc = "recovering" /\ recovery.through # 0 /\ recovery.receipt = "none"
        /\ Len(history) >= journal[capture.anchor].next
        /\ IsPrefix(history, Retained(recovery.through)) /\ history' = Retained(recovery.through)
        /\ recovery' = [recovery EXCEPT !.receipt = "open"] /\ history \in Histories
        /\ UNCHANGED <<journal, collecting, up, inputs, binding, index, capture>>
    BY <1>28 DEF RestoreTail, Recovering, JournalTypes
  <2>2. capture.pc = "COMPLETE" /\ capture.anchor \in 1..Len(journal)
    BY <2>1 DEF CaptureKnown, AnchorKnown, Live, At, NextcloudDumped, WeknoraDumped, NextcloudArchived, WeknoraArchived, AtInputs, Started, CaptureEnded
  <2>3. /\ recovery'.pc = recovery.pc /\ recovery'.through = recovery.through
        /\ recovery'.receipt = "open" /\ recovery'.evidence = recovery.evidence
        /\ recovery'.nextcloud = recovery.nextcloud /\ recovery'.weknora = recovery.weknora
        /\ DOMAIN recovery' = ReplayFields /\ recovery' = [g \in ReplayFields |-> recovery'[g]]
    BY <2>1 DEF RecoveryTypes, ReplayFields
  <2>4. recovery.through \in 1..Len(journal) /\ Coherent(history, binding.withdrawn)
    BY <2>1 DEF ReplayKnown
  <2>5. /\ history' = ReachedBy(recovery.through) /\ history' \in Histories /\ IsPrefix(history, history')
        /\ Len(history) \in Nat /\ Len(history') \in Nat /\ journal[capture.anchor].next \in Nat
    BY <2>1, <2>2, <2>4, RetainedReached, HistoryIs
  <2>6. Coherent(history', binding.withdrawn \cup ToWithdraw)
    <3> SUFFICES ASSUME NEW f \in Withdrawn(history'), f \notin ToWithdraw
                 PROVE  f \in Withdrawn(history)
      BY <2>4 DEF Coherent
    <3>1. /\ DOMAIN history = 1..Len(history) /\ DOMAIN history' = 1..Len(history')
          /\ Len(history) <= Len(history') /\ SameTo(history, history', Len(history))
      BY <2>1, <2>5, HistoryIs, PrefixIs
    <3>2. PICK i \in 1..Len(history') : /\ history'[i] = [kind |-> "withdrawn", file |-> f]
                                         /\ \A j \in (i + 1)..Len(history') : history'[j].file # f
      BY <3>1 DEF Withdrawn
    <3>3. f \in Files
      BY DEF Withdrawn
    <3>4. i <= Len(history)
      <4> SUFFICES ASSUME i > Len(history) PROVE FALSE
        BY <2>5
      <4>1. i \in (journal[capture.anchor].next + 1)..Len(history')
        BY <2>1, <2>5
      <4>2. f \in ToWithdraw
        BY <2>5, <3>2, <3>3, <4>1 DEF ToWithdraw, PlanOf
      <4> QED  BY <4>2
    <3>5. i \in DOMAIN history /\ history[i] = [kind |-> "withdrawn", file |-> f]
      BY <3>1, <3>2, <3>4, <2>5 DEF SameTo
    <3>6. \A j \in (i + 1)..Len(history) : history[j].file # f
      BY <3>1, <3>2, <2>5 DEF SameTo
    <3> QED  BY <3>3, <3>5, <3>6 DEF Withdrawn
  <2>7. JournalTypes' /\ OneChain'
    BY <2>1, <2>5, JournalRests
  <2>8. RecoveryTypes'
    BY <2>1, <2>3 DEF RecoveryTypes
  <2>9. CaptureKnown' /\ AnchorKnown'
    BY <2>1, <2>2, <2>3 DEF CaptureKnown, AnchorKnown, Live, At, NextcloudDumped, WeknoraDumped, NextcloudArchived, WeknoraArchived, AtInputs, Started, CaptureEnded
  <2>10. ReplayKnown'
    <3>1. history' = ReachedBy(recovery.through)' /\ ToWithdraw' = ToWithdraw
      BY <2>1, <2>3, <2>5 DEF ReachedBy, ToWithdraw
    <3>2. Coherent(history', binding'.withdrawn \cup ToWithdraw')
      BY <2>1, <2>6, <3>1
    <3> QED  BY <2>1, <2>3, <2>4, <3>1, <3>2 DEF ReplayKnown, Live, Complete, Coherent
  <2>11. IndexKnown'
    BY <2>1, <2>3 DEF IndexKnown
  <2> QED  BY <2>7, <2>8, <2>9, <2>10, <2>11
<1>29. CASE CloseBindings
  <2>1. /\ recovery.pc = "recovering" /\ recovery.receipt = "open" /\ history \in Histories
        /\ binding' = [binding EXCEPT !.state = "stopped", !.withdrawn = @ \cup Plan]
        /\ history' = history \o SetToSeq([kind : {"withdrawn"}, file : Plan \ binding.withdrawn])
        /\ recovery' = [recovery EXCEPT !.receipt = "completed"]
        /\ UNCHANGED <<journal, collecting, up, inputs, index, capture>>
    BY <1>29 DEF CloseBindings, Recovering, JournalTypes
  <2>2. capture.pc = "COMPLETE" /\ capture.anchor \in 1..Len(journal)
    BY <2>1 DEF CaptureKnown, AnchorKnown, Live, At, NextcloudDumped, WeknoraDumped, NextcloudArchived, WeknoraArchived, AtInputs, Started, CaptureEnded
  <2>3. /\ recovery'.pc = recovery.pc /\ recovery'.through = recovery.through
        /\ recovery'.receipt = "completed" /\ recovery'.evidence = recovery.evidence
        /\ recovery'.nextcloud = recovery.nextcloud /\ recovery'.weknora = recovery.weknora
        /\ DOMAIN recovery' = ReplayFields /\ recovery' = [g \in ReplayFields |-> recovery'[g]]
    BY <2>1 DEF RecoveryTypes, ReplayFields
  <2>4. /\ recovery.through # 0 /\ recovery.through \in 1..Len(journal)
        /\ capture.anchor <= recovery.through
        /\ history = ReachedBy(recovery.through) /\ Coherent(history, binding.withdrawn \cup ToWithdraw)
    BY <2>1 DEF ReplayKnown
  <2>5. Plan = ToWithdraw /\ Plan \in SUBSET Files
    <3>1. Plan = ToWithdraw
      BY <2>2, <2>4, PlanIs
    <3> QED  BY <3>1 DEF ToWithdraw, PlanOf
  <2> DEFINE new == Plan \ binding.withdrawn
  <2>6. BindingOK(binding') /\ binding'.withdrawn = binding.withdrawn \cup Plan
    BY <2>1, <2>5 DEF RecoveryTypes, BindingOK, BindingFields
  <2>7. history' \in Histories /\ Len(history') >= Len(history) /\ Len(history') \in Nat
    BY <2>1, <2>5, WithdrawDoes
  <2>8. /\ Len(history) = journal[recovery.through].next /\ Len(history) \in Nat
    BY <2>4, RetainedReached
  <2>9. \A f \in Files : Overlooked(f)' => f \in binding'.withdrawn
    <3>1. ReachedBy(recovery.through)' = history
      BY <2>1, <2>3, <2>4 DEF ReachedBy
    <3> QED  BY <2>4, <2>5, <2>6, <3>1 DEF Overlooked, Coherent
  <2>10. JournalTypes' /\ OneChain'
    BY <2>1, <2>7, JournalRests
  <2>11. RecoveryTypes'
    BY <2>1, <2>3, <2>6 DEF RecoveryTypes
  <2>12. CaptureKnown' /\ AnchorKnown'
    BY <2>1, <2>2, <2>3 DEF CaptureKnown, AnchorKnown, Live, At, NextcloudDumped, WeknoraDumped, NextcloudArchived, WeknoraArchived, AtInputs, Started, CaptureEnded
  <2>13. ReplayKnown'
    BY <2>1, <2>3, <2>4, <2>7, <2>8, <2>9 DEF ReplayKnown, Live, Complete
  <2>14. IndexKnown'
    <3>1. index.replayed # 0 => index.published = {} /\ index.manifest = {}
      BY <2>1 DEF IndexKnown
    <3>2. recovery.evidence = "none" /\ ~recovery.nextcloud.seen
      BY <2>1 DEF IndexKnown
    <3> QED  BY <2>1, <2>3, <3>1, <3>2 DEF IndexKnown
  <2> QED  BY <2>10, <2>11, <2>12, <2>13, <2>14
<1>30. CASE CloseIndex
  <2>1. JournalTypes' /\ OneChain'
    BY <1>30, JournalRests DEF CloseIndex, journalVars, JournalTypes
  <2>2. RecoveryTypes'
    BY <1>30 DEF CloseIndex, Recovering, journalVars, RecoveryTypes, BindingOK, IndexOK, BindingFields, IndexFields, CaptureFields, ReplayFields
  <2>3. CaptureKnown'
    BY <1>30 DEF CloseIndex, Recovering, journalVars, CaptureKnown, Live, At, NothingWrites, NextcloudDumped, WeknoraDumped, NextcloudArchived, WeknoraArchived, AtInputs, Started, CaptureEnded
  <2>4. AnchorKnown'
    BY <1>30 DEF CloseIndex, Recovering, journalVars, AnchorKnown, Coherent, NextcloudDumped, WeknoraDumped, NextcloudArchived, WeknoraArchived, AtInputs, Started, CaptureEnded
  <2>5. ReplayKnown'
    BY <1>30 DEF CloseIndex, Recovering, journalVars, ReplayKnown, Live, Coherent, Overlooked, Regranted, ToWithdraw, ReachedBy, Complete
  <2>6. IndexKnown'
    BY <1>30 DEF CloseIndex, Recovering, journalVars, IndexKnown, Overlooked, Regranted, ReachedBy
  <2> QED  BY <2>1, <2>2, <2>3, <2>4, <2>5, <2>6
<1>31. CASE ObserveNextcloud
  <2>1. JournalTypes' /\ OneChain'
    BY <1>31, JournalRests DEF ObserveNextcloud, journalVars, JournalTypes
  <2>2. RecoveryTypes'
    BY <1>31 DEF ObserveNextcloud, Recovering, journalVars, RecoveryTypes, BindingOK, IndexOK, BindingFields, IndexFields, CaptureFields, ReplayFields
  <2>3. CaptureKnown'
    BY <1>31 DEF ObserveNextcloud, Recovering, journalVars, CaptureKnown, Live, At, NothingWrites, NextcloudDumped, WeknoraDumped, NextcloudArchived, WeknoraArchived, AtInputs, Started, CaptureEnded
  <2>4. AnchorKnown'
    BY <1>31 DEF ObserveNextcloud, Recovering, journalVars, AnchorKnown, Coherent, NextcloudDumped, WeknoraDumped, NextcloudArchived, WeknoraArchived, AtInputs, Started, CaptureEnded
  <2>5. ReplayKnown'
    BY <1>31 DEF ObserveNextcloud, Recovering, journalVars, ReplayKnown, Live, Coherent, Overlooked, Regranted, ToWithdraw, ReachedBy, Complete
  <2>6. IndexKnown'
    BY <1>31 DEF ObserveNextcloud, Recovering, journalVars, IndexKnown, Overlooked, Regranted, ReachedBy
  <2> QED  BY <2>1, <2>2, <2>3, <2>4, <2>5, <2>6
<1>32. CASE ObserveIndex
  <2>1. JournalTypes' /\ OneChain'
    BY <1>32, JournalRests DEF ObserveIndex, journalVars, JournalTypes
  <2>2. RecoveryTypes'
    BY <1>32 DEF ObserveIndex, Recovering, journalVars, RecoveryTypes, BindingOK, IndexOK, BindingFields, IndexFields, CaptureFields, ReplayFields
  <2>3. CaptureKnown'
    BY <1>32 DEF ObserveIndex, Recovering, journalVars, CaptureKnown, Live, At, NothingWrites, NextcloudDumped, WeknoraDumped, NextcloudArchived, WeknoraArchived, AtInputs, Started, CaptureEnded
  <2>4. AnchorKnown'
    BY <1>32 DEF ObserveIndex, Recovering, journalVars, AnchorKnown, Coherent, NextcloudDumped, WeknoraDumped, NextcloudArchived, WeknoraArchived, AtInputs, Started, CaptureEnded
  <2>5. ReplayKnown'
    BY <1>32 DEF ObserveIndex, Recovering, journalVars, ReplayKnown, Live, Coherent, Overlooked, Regranted, ToWithdraw, ReachedBy, Complete
  <2>6. IndexKnown'
    BY <1>32 DEF ObserveIndex, Recovering, journalVars, IndexKnown, Overlooked, Regranted, ReachedBy
  <2> QED  BY <2>1, <2>2, <2>3, <2>4, <2>5, <2>6
<1>33. CASE GateClosed
  <2>1. JournalTypes' /\ OneChain'
    BY <1>33, JournalRests DEF GateClosed, journalVars, JournalTypes
  <2>2. RecoveryTypes'
    BY <1>33 DEF GateClosed, Recovering, SamePlan, journalVars, RecoveryTypes, BindingOK, IndexOK, BindingFields, IndexFields, CaptureFields, ReplayFields
  <2>3. CaptureKnown'
    BY <1>33 DEF GateClosed, Recovering, SamePlan, journalVars, CaptureKnown, Live, At, NothingWrites, NextcloudDumped, WeknoraDumped, NextcloudArchived, WeknoraArchived, AtInputs, Started, CaptureEnded
  <2>4. AnchorKnown'
    BY <1>33 DEF GateClosed, Recovering, SamePlan, journalVars, AnchorKnown, Coherent, NextcloudDumped, WeknoraDumped, NextcloudArchived, WeknoraArchived, AtInputs, Started, CaptureEnded
  <2>5. ReplayKnown'
    BY <1>33 DEF GateClosed, Recovering, SamePlan, journalVars, ReplayKnown, Live, Coherent, Overlooked, Regranted, ToWithdraw, ReachedBy, Complete
  <2>6. IndexKnown'
    BY <1>33 DEF GateClosed, Recovering, SamePlan, journalVars, IndexKnown, Overlooked, Regranted, ReachedBy
  <2> QED  BY <2>1, <2>2, <2>3, <2>4, <2>5, <2>6
<1>34. CASE GateSources
  <2>1. JournalTypes' /\ OneChain'
    BY <1>34, JournalRests DEF GateSources, journalVars, JournalTypes
  <2>2. RecoveryTypes'
    BY <1>34 DEF GateSources, Recovering, SamePlan, journalVars, RecoveryTypes, BindingOK, IndexOK, BindingFields, IndexFields, CaptureFields, ReplayFields
  <2>3. CaptureKnown'
    BY <1>34 DEF GateSources, Recovering, SamePlan, journalVars, CaptureKnown, Live, At, NothingWrites, NextcloudDumped, WeknoraDumped, NextcloudArchived, WeknoraArchived, AtInputs, Started, CaptureEnded
  <2>4. AnchorKnown'
    BY <1>34 DEF GateSources, Recovering, SamePlan, journalVars, AnchorKnown, Coherent, NextcloudDumped, WeknoraDumped, NextcloudArchived, WeknoraArchived, AtInputs, Started, CaptureEnded
  <2>5. ReplayKnown'
    BY <1>34 DEF GateSources, Recovering, SamePlan, journalVars, ReplayKnown, Live, Coherent, Overlooked, Regranted, ToWithdraw, ReachedBy, Complete
  <2>6. IndexKnown'
    BY <1>34 DEF GateSources, Recovering, SamePlan, journalVars, IndexKnown, Overlooked, Regranted, ReachedBy
  <2> QED  BY <2>1, <2>2, <2>3, <2>4, <2>5, <2>6
<1>35. CASE ResumeSource
  <2>1. JournalTypes' /\ OneChain'
    BY <1>35, JournalRests DEF ResumeSource, journalVars, JournalTypes
  <2>2. RecoveryTypes'
    BY <1>35 DEF ResumeSource, Recovering, journalVars, RecoveryTypes, BindingOK, IndexOK, BindingFields, IndexFields, CaptureFields, ReplayFields
  <2>3. CaptureKnown'
    BY <1>35 DEF ResumeSource, Recovering, journalVars, CaptureKnown, Live, At, NothingWrites, NextcloudDumped, WeknoraDumped, NextcloudArchived, WeknoraArchived, AtInputs, Started, CaptureEnded
  <2>4. AnchorKnown'
    BY <1>35 DEF ResumeSource, Recovering, journalVars, AnchorKnown, Coherent, NextcloudDumped, WeknoraDumped, NextcloudArchived, WeknoraArchived, AtInputs, Started, CaptureEnded
  <2>5. ReplayKnown'
    BY <1>35 DEF ResumeSource, Recovering, journalVars, ReplayKnown, Live, Coherent, Overlooked, Regranted, ToWithdraw, ReachedBy, Complete
  <2>6. IndexKnown'
    BY <1>35 DEF ResumeSource, Recovering, journalVars, IndexKnown, Overlooked, Regranted, ReachedBy
  <2> QED  BY <2>1, <2>2, <2>3, <2>4, <2>5, <2>6
<1>36. CASE ReconcileIndex
  <2>1. JournalTypes' /\ OneChain'
    BY <1>36, JournalRests DEF ReconcileIndex, journalVars, JournalTypes
  <2>2. RecoveryTypes'
    BY <1>36 DEF ReconcileIndex, Recovering, journalVars, RecoveryTypes, BindingOK, IndexOK, BindingFields, IndexFields, CaptureFields, ReplayFields
  <2>3. CaptureKnown'
    BY <1>36 DEF ReconcileIndex, Recovering, journalVars, CaptureKnown, Live, At, NothingWrites, NextcloudDumped, WeknoraDumped, NextcloudArchived, WeknoraArchived, AtInputs, Started, CaptureEnded
  <2>4. AnchorKnown'
    BY <1>36 DEF ReconcileIndex, Recovering, journalVars, AnchorKnown, Coherent, NextcloudDumped, WeknoraDumped, NextcloudArchived, WeknoraArchived, AtInputs, Started, CaptureEnded
  <2>5. ReplayKnown'
    BY <1>36 DEF ReconcileIndex, Recovering, journalVars, ReplayKnown, Live, Coherent, Overlooked, Regranted, ToWithdraw, ReachedBy, Complete
  <2>6. IndexKnown'
    <3>1. /\ recovery.receipt = "completed" /\ recovery.through # 0
          /\ index.replayed = recovery.through /\ UNCHANGED <<recovery, history, journal, binding>>
      BY <1>36 DEF ReconcileIndex, IndexKnown, ReplayKnown, journalVars
    <3>2. /\ index'.replayed = index.replayed
          /\ \A f \in index'.published \cup index'.manifest :
               f \in index.published \cup index.manifest \cup (Files \ binding.withdrawn)
      BY <1>36 DEF ReconcileIndex, RecoveryTypes, IndexOK, IndexFields
    <3>3. \A f \in index'.published \cup index'.manifest : f \in Files /\ ~Overlooked(f)
      BY <3>1, <3>2 DEF IndexKnown, ReplayKnown
    <3> QED  BY <3>1, <3>2, <3>3 DEF IndexKnown, Overlooked, Regranted, ReachedBy
  <2> QED  BY <2>1, <2>2, <2>3, <2>4, <2>5, <2>6
<1>37. CASE UNCHANGED recoveryVars
  <2>1. JournalTypes' /\ OneChain'
    BY <1>37, JournalRests DEF recoveryVars, journalVars, JournalTypes
  <2>2. RecoveryTypes'
    BY <1>37 DEF recoveryVars, journalVars, RecoveryTypes, BindingOK, IndexOK, BindingFields, IndexFields, CaptureFields, ReplayFields
  <2>3. CaptureKnown'
    BY <1>37 DEF recoveryVars, journalVars, CaptureKnown, Live, At, NothingWrites, NextcloudDumped, WeknoraDumped, NextcloudArchived, WeknoraArchived, AtInputs, Started, CaptureEnded
  <2>4. AnchorKnown'
    BY <1>37 DEF recoveryVars, journalVars, AnchorKnown, Coherent, NextcloudDumped, WeknoraDumped, NextcloudArchived, WeknoraArchived, AtInputs, Started, CaptureEnded
  <2>5. ReplayKnown'
    BY <1>37 DEF recoveryVars, journalVars, ReplayKnown, Live, Coherent, Overlooked, Regranted, ToWithdraw, ReachedBy, Complete
  <2>6. IndexKnown'
    BY <1>37 DEF recoveryVars, journalVars, IndexKnown, Overlooked, Regranted, ReachedBy
  <2> QED  BY <2>1, <2>2, <2>3, <2>4, <2>5, <2>6
<1> QED  BY <1>1, <1>2, <1>3, <1>4, <1>5, <1>6, <1>7, <1>8, <1>9, <1>10, <1>11, <1>12, <1>13, <1>14, <1>15, <1>16, <1>17, <1>18, <1>19, <1>20, <1>21, <1>22, <1>23, <1>24, <1>25, <1>26, <1>27, <1>28, <1>29, <1>30, <1>31, <1>32, <1>33, <1>34, <1>35, <1>36, <1>37, Zenon DEF RecoveryNext, CheckpointStep, ReplayStep
=============================================================================
