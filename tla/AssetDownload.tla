---------------------------- MODULE AssetDownload ----------------------------
(* One large release asset per tag: download_parallel (parallel_download.py) as
   Updater.download (release.py) calls it. The asset is a sequence of blocks, a
   block is "good" or "bad" (the right size, the wrong bytes: all that the
   download checks of a block is its size). What is on disk survives a crash;
   the download in progress does not. *)
EXTENDS Integers, FiniteSets, Sequences

CONSTANTS
  NTags,        \* release tags are 1..NTags, in the order they are published
  NChunks,      \* blocks of an asset
  PoolSize,     \* threads of the download
  MaxUpdaterKills \* bound: killed updaters

ASSUME DownloadAssumption ==
  NTags \in Nat \ {0} /\ NChunks \in Nat \ {0} /\ PoolSize \in Nat \ {0}
  /\ MaxUpdaterKills \in Nat

Tags == 1..NTags
Chunks == 1..NChunks
Blocks == {"good", "bad"}

VARIABLES
  part,         \* per tag, the block cache <name>.chunks
  asset,        \* per tag, the destination in the cache directory
  download,     \* the download in progress: its step, its tag, its running fetches
  outcome,      \* per tag: what release-state.json says of it, and its failed attempts
  updaterKills

downloadVars == <<part, asset, download, outcome, updaterKills>>

NoPart == [c \in Chunks |-> "none"]
NoDownload == [pc |-> "idle", tag |-> 0, running |-> {}]

(* An older updater may have left a contiguous partial asset of the first release. *)
DownloadInit ==
  /\ part = [t \in Tags |-> NoPart]
  /\ \E first \in {<<>>} \cup (IF NChunks > 1 THEN {<<b>> : b \in Blocks} ELSE {}) :
       asset = [t \in Tags |-> IF t = 1 THEN first ELSE <<>>]
  /\ download = NoDownload
  /\ outcome = [t \in Tags |-> [status |-> "unseen", attempts |-> 0]]
  /\ updaterKills = 0

----------------------------------------------------------------------------
WholeAsset(file) == Len(file) = NChunks        \* by size only
Verified(file) == file = [c \in Chunks |-> "good"]   \* by SHA-256
Missing(t) == {c \in Chunks : part[t][c] = "none"}
Idle == download.pc = "idle"

(* Select the newest tag without an outcome, on any timer (check, apply). *)
StartDownload(t) ==
  /\ Idle
  /\ outcome[t].status = "unseen" /\ \A s \in Tags : outcome[s].status = "unseen" => s <= t
  /\ download' = [pc |-> "open", tag |-> t, running |-> {}]
  /\ UNCHANGED <<part, asset, outcome, updaterKills>>

(* A finished file with the wrong SHA never seeds another attempt; then
   download_parallel returns at once when a file of the right size is there. *)
OpenCache ==
  /\ download.pc = "open"
  /\ LET t == download.tag
     IN  IF WholeAsset(asset[t]) /\ ~Verified(asset[t])
         THEN /\ part' = [part EXCEPT ![t] = NoPart]
              /\ asset' = [asset EXCEPT ![t] = <<>>]
              /\ download' = [download EXCEPT !.pc = "import"]
         ELSE /\ download' = [download EXCEPT !.pc =
                                IF WholeAsset(asset[t]) THEN "verify" ELSE "import"]
              /\ UNCHANGED <<part, asset>>
  /\ UNCHANGED <<outcome, updaterKills>>

(* Whole blocks of the contiguous prefix enter the cache where it has none. *)
ImportPrefix ==
  /\ download.pc = "import"
  /\ LET t == download.tag
     IN  part' = [part EXCEPT ![t] = [c \in Chunks |->
           IF part[t][c] = "none" /\ c <= Len(asset[t]) THEN asset[t][c] ELSE part[t][c]]]
  /\ download' = [download EXCEPT !.pc = "fetch"]
  /\ UNCHANGED <<asset, outcome, updaterKills>>

(* schedule: a missing block that no thread has, while a thread is free *)
Schedule(c) ==
  /\ download.pc = "fetch"
  /\ c \in Missing(download.tag) \ download.running
  /\ Cardinality(download.running) < PoolSize
  /\ \A d \in Missing(download.tag) \ download.running : c <= d
  /\ download' = [download EXCEPT !.running = @ \cup {c}]
  /\ UNCHANGED <<part, asset, outcome, updaterKills>>

(* _fetch_chunk: an answer of the right range and size is written, atomically. *)
FetchChunk(c, block) ==
  /\ download.pc \in {"fetch", "drain"}
  /\ c \in download.running
  /\ part' = [part EXCEPT ![download.tag][c] = block]
  /\ download' = [download EXCEPT !.running = @ \ {c}]
  /\ UNCHANGED <<asset, outcome, updaterKills>>

(* Three attempts failed: no block is scheduled any more, the pool is joined. *)
ChunkFails(c) ==
  /\ download.pc \in {"fetch", "drain"}
  /\ c \in download.running
  /\ download' = [download EXCEPT !.pc = "drain", !.running = @ \ {c}]
  /\ UNCHANGED <<part, asset, outcome, updaterKills>>

PoolJoined ==
  /\ download.pc = "drain"
  /\ download.running = {}
  /\ download' = [download EXCEPT !.pc = "unreachable"]
  /\ UNCHANGED <<part, asset, outcome, updaterKills>>

(* os.replace of the assembled file *)
Assemble ==
  /\ download.pc = "fetch"
  /\ download.running = {} /\ Missing(download.tag) = {}
  /\ asset' = [asset EXCEPT ![download.tag] = [c \in Chunks |-> part[download.tag][c]]]
  /\ download' = [download EXCEPT !.pc = "clear"]
  /\ UNCHANGED <<part, outcome, updaterKills>>

ClearChunks ==
  /\ download.pc = "clear"
  /\ part' = [part EXCEPT ![download.tag] = NoPart]
  /\ download' = [download EXCEPT !.pc = "verify"]
  /\ UNCHANGED <<asset, outcome, updaterKills>>

(* The caller's digest: a mismatch removes the whole cache directory. *)
VerifyAsset ==
  /\ download.pc = "verify"
  /\ LET t == download.tag
     IN  IF Verified(asset[t])
         THEN /\ download' = [download EXCEPT !.pc = "delivered"]
              /\ UNCHANGED <<part, asset>>
         ELSE /\ part' = [part EXCEPT ![t] = NoPart]
              /\ asset' = [asset EXCEPT ![t] = <<>>]
              /\ download' = [download EXCEPT !.pc = "corrupt"]
  /\ UNCHANGED <<outcome, updaterKills>>

(* check: the wrong bytes reject the tag; the third transient failure does, too. *)
DownloadFails ==
  /\ download.pc \in {"corrupt", "unreachable"}
  /\ LET t == download.tag
         failed == outcome[t].attempts + 1
     IN  outcome' = [outcome EXCEPT ![t] =
           IF download.pc = "unreachable"
           THEN [status |-> IF failed < 3 THEN "unseen" ELSE "rejected", attempts |-> failed]
           ELSE [@ EXCEPT !.status = "rejected"]]
  /\ download' = NoDownload
  /\ UNCHANGED <<part, asset, updaterKills>>

(* The release was installed: asset-cache/<tag> is removed last. *)
ReleaseInstalled ==
  /\ download.pc = "delivered"
  /\ outcome' = [outcome EXCEPT ![download.tag].status = "success"]
  /\ download' = [download EXCEPT !.pc = "drop"]
  /\ UNCHANGED <<part, asset, updaterKills>>
DropCache ==
  /\ download.pc = "drop"
  /\ part' = [part EXCEPT ![download.tag] = NoPart]
  /\ asset' = [asset EXCEPT ![download.tag] = <<>>]
  /\ download' = NoDownload
  /\ UNCHANGED <<outcome, updaterKills>>

UpdaterKilled ==
  /\ ~Idle /\ updaterKills < MaxUpdaterKills
  /\ download' = NoDownload
  /\ updaterKills' = updaterKills + 1
  /\ UNCHANGED <<part, asset, outcome>>

DownloadStep ==
  \/ OpenCache \/ ImportPrefix \/ PoolJoined \/ Assemble \/ ClearChunks \/ VerifyAsset
  \/ DownloadFails \/ ReleaseInstalled \/ DropCache \/ UpdaterKilled
  \/ \E t \in Tags : StartDownload(t)
  \/ \E c \in Chunks : \/ Schedule(c) \/ ChunkFails(c)
                       \/ \E block \in Blocks : FetchChunk(c, block)

DownloadTypeOK ==
  /\ part \in [Tags -> [Chunks -> Blocks \cup {"none"}]]
  /\ \A t \in Tags : asset[t] = <<>> \/ asset[t] \in [1..Len(asset[t]) -> Blocks]
  /\ download \in [pc : {"idle", "open", "import", "fetch", "drain", "clear", "verify",
                         "unreachable", "delivered", "corrupt", "drop"},
                   tag : 0..NTags, running : SUBSET Chunks]
  /\ outcome \in [Tags -> [status : {"unseen", "success", "rejected"}, attempts : 0..3]]
  /\ updaterKills \in 0..MaxUpdaterKills

(* A block that arrived is never fetched again: through failed attempts, kills and the
   assembly it stays in the cache or in the asset, unchanged, until the complete asset was
   found corrupt or its release was installed ("complete chunks survive failed attempts"). *)
Holds(t, c) == part[t][c] # "none" \/ c <= Len(asset[t])
BlockOf(t, c) == IF part[t][c] # "none" THEN part[t][c] ELSE asset[t][c]
FetchedBlocksKept ==
  \A t \in Tags, c \in Chunks :
    Holds(t, c) /\ (~Holds(t, c)' \/ BlockOf(t, c)' # BlockOf(t, c)) =>
      \/ WholeAsset(asset[t]) /\ ~Verified(asset[t])
      \/ outcome[t].status = "success"
=============================================================================
