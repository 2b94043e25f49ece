-------------------------- MODULE PublicationDrills --------------------------
(***************************************************************************)
(* The two isolated publication drills against the index: the one that     *)
(* fails a candidate and expects its automatic retry, and the one that     *)
(* renames, moves, trashes and restores the file, in one source or across  *)
(* two.  "trial" is the drill: the step it is at, the hints it waits for   *)
(* and the candidates it has seen.  Without a drill, users work on the     *)
(* file as they like.                                                      *)
(***************************************************************************)
EXTENDS Publication

CONSTANTS HomeSource, OtherSource   \* the first and the second paired folder

ASSUME DrillsAssumption == HomeSource \in Sources /\ OtherSource \in Sources

VARIABLE trial
drillVars == <<indexVars, trial>>

NoTrial == [what |-> "free", at |-> "free", waits |-> [s \in Sources |-> 0], seen |-> {}, last |-> 0]

\* Users on their own; in the last two the embedding service is down at first.
Free == {"free", "outage", "overtaken"}

DrillsInit ==
    /\ PublicationInit
    /\ trial \in {[NoTrial EXCEPT !.what = w, !.at = IF w \in Free THEN "free" ELSE "create"] :
                      w \in Free \cup {"retry", "move", "cross"}}
    /\ file = IF trial.what \in Free THEN [at |-> "outside", etag |-> 1, path |-> 1]
              ELSE [at |-> "nowhere", etag |-> 0, path |-> 1]
    /\ embedding = (trial.what \notin {"outage", "overtaken"})
    /\ trouble = IF trial.what \in {"free", "outage"} THEN MaxTrouble ELSE 0

TrialAt(w, pc) == trial.what \in w /\ trial.at = pc
Goes(pc) == trial' = [trial EXCEPT !.at = pc]
Fails == Goes("failed")

-----------------------------------------------------------------------------
(* What the drills read from the databases.                                *)

\* wait_applied: every hint the step caused is applied.
AppliedAll == \A s \in Sources : disp[s].applied >= trial.waits[s]

ShownRows(s) == {k \in DOMAIN rows : rows[k].source = s /\ ~rows[k].gone /\ rows[k].shown}

IsPublished(s) ==
    /\ version[s].state = "published" /\ rows[version[s].cand].parse = "completed"
    /\ rows[version[s].cand].shown /\ rows[version[s].cand].etag = version[s].etag
    /\ Cardinality(ShownRows(s)) = 1

IsTombstone(s) ==
    version[s].state = "tombstone" /\ version[s].cand = 0 /\ ShownRows(s) = {}

\* A change, and the hints it leaves to be waited for.  The steps of a drill lie
\* minutes apart: no question to Nextcloud is still open when the next one starts.
Quiet == \A p \in Publishers : publishing[p] = NotPublishing
Acts(change, pc) ==
    /\ Quiet /\ change
    /\ trial' = [trial EXCEPT !.at = pc, !.waits = [s \in Sources |->
                     IF outbox'[s] = outbox[s] THEN trial.waits[s] ELSE Len(outbox'[s])]]

\* The step that ends once "s" publishes: "ok" is what the drill requires of it.
Published(s, ok, pc) ==
    /\ AppliedAll /\ IsPublished(s) /\ Quiet
    /\ \/ ok /\ trial' = [trial EXCEPT !.at = pc, !.last = version[s].cand,
                                       !.seen = @ \cup {version[s].cand}]
       \/ ~ok /\ Fails
    /\ UNCHANGED indexVars

Withdrawn(s, pc) ==
    /\ AppliedAll
    /\ (IsTombstone(s) /\ Goes(pc)) \/ (~IsTombstone(s) /\ Fails)
    /\ UNCHANGED indexVars

Candidate == version[HomeSource].cand
PathCurrent(s) == rows[version[s].cand].path = file.path

-----------------------------------------------------------------------------
(* isolated-failed-candidate-retry-smoke.py                                *)

RetryBaseline ==
    \/ TrialAt({"retry"}, "create") /\ Acts(Upload(HomeSource), "baseline")
    \/ TrialAt({"retry"}, "baseline") /\ Published(HomeSource, TRUE, "stop")

StopEmbedding == TrialAt({"retry"}, "stop") /\ Embedding(FALSE) /\ Goes("overwrite")
OverwriteV2 == TrialAt({"retry"}, "overwrite") /\ Acts(Upload(HomeSource), "candidate")

\* The new version failed to parse, and the copy of the first one is still there.
WaitFailedCandidate ==
    /\ TrialAt({"retry"}, "candidate")
    /\ received[HomeSource] >= trial.waits[HomeSource]
    /\ Failed(HomeSource) /\ version[HomeSource].etag = file.etag /\ ~rows[Candidate].shown
    /\ \/ /\ ~rows[trial.last].gone /\ rows[trial.last].parse = "completed"
          /\ trial' = [trial EXCEPT !.at = "start", !.last = Candidate]
       \/ ~(~rows[trial.last].gone /\ rows[trial.last].parse = "completed") /\ Fails
    /\ UNCHANGED indexVars

\* With the service back, the inject-only phase is over.
StartEmbedding ==
    TrialAt({"retry"}, "start") /\ Embedding(TRUE) /\ trial' \in
        {[trial EXCEPT !.at = "status"], [trial EXCEPT !.at = "done"]}

\* The first automatic retry may be faster than the drill's look at the failure.
RetryStatus ==
    /\ TrialAt({"retry"}, "status")
    /\ \/ Failed(HomeSource) /\ Candidate = trial.last /\ Goes("denied")
       \/ ~(Failed(HomeSource) /\ Candidate = trial.last) /\ Goes("missed")
    /\ UNCHANGED indexVars

StrictLatestDenial ==
    /\ TrialAt({"retry"}, "denied")
    /\ \/ ShownRows(HomeSource) = {} /\ Goes("recover")
       \/ ShownRows(HomeSource) # {} /\ Goes("missed")
    /\ UNCHANGED indexVars

\* A replacement made before the service was back fails in turn: the drill loses
\* sight of the candidate it knows.
ReplacementFailed ==
    \E k \in DOMAIN rows \ (trial.seen \cup {trial.last}) : rows[k].parse = "failed"

\* A new candidate is readable, and the job still names the one that failed.
RetryClaimed == job[HomeSource].cand = trial.last /\ job[HomeSource].attempts >= 1
WaitRecovered ==
    /\ TrialAt({"retry"}, "recover")
    /\ \/ /\ IsPublished(HomeSource) /\ Candidate \notin trial.seen \cup {trial.last}
          /\ \/ RetryClaimed /\ Goes("applied")
             \/ ~RetryClaimed /\ IF ReplacementFailed THEN Goes("missed") ELSE Fails
       \/ Failed(HomeSource) /\ Candidate # trial.last /\ Goes("missed")
    /\ UNCHANGED indexVars

RetryApplied == TrialAt({"retry"}, "applied") /\ AppliedAll /\ Goes("done") /\ UNCHANGED indexVars

-----------------------------------------------------------------------------
(* isolated-move-trash-restore-smoke.py                                    *)

CreateFile == TrialAt({"move", "cross"}, "create") /\ Acts(Upload(HomeSource), "created")
CreatedPublished ==
    TrialAt({"move", "cross"}, "created")
        /\ Published(HomeSource, PathCurrent(HomeSource),
                     IF trial.what = "move" THEN "rename" ELSE "to other")

RenameStep == TrialAt({"move"}, "rename") /\ Acts(RenameFile(HomeSource), "renamed")
RenamedPublished ==
    TrialAt({"move"}, "renamed")
        /\ Published(HomeSource, Candidate = trial.last /\ PathCurrent(HomeSource), "out")

MoveOut == TrialAt({"move"}, "out") /\ Acts(MoveFolder(HomeSource, "outside"), "moved out")
MovedOut == TrialAt({"move"}, "moved out") /\ Withdrawn(HomeSource, "back")

MoveBack == TrialAt({"move"}, "back") /\ Acts(MoveFolder("outside", HomeSource), "moved back")
MovedBack ==
    TrialAt({"move"}, "moved back") /\ Published(HomeSource, Candidate # trial.last, "flap out")

RapidPair ==
    \/ TrialAt({"move"}, "flap out") /\ Acts(MoveFolder(HomeSource, "outside"), "flap in")
    \/ TrialAt({"move"}, "flap in") /\ Acts(MoveFolder("outside", HomeSource), "flapped")
PairPublished == TrialAt({"move"}, "flapped") /\ AppliedAll /\ IsPublished(HomeSource)
                     /\ Goes("trash") /\ UNCHANGED indexVars

TrashStep == TrialAt({"move"}, "trash") /\ Acts(Trash(HomeSource), "trashed")
Trashed == TrialAt({"move"}, "trashed") /\ Withdrawn(HomeSource, "restore")
RestoreStep == TrialAt({"move"}, "restore") /\ Acts(Untrash(HomeSource), "restored")
RestoredPublished ==
    TrialAt({"move"}, "restored") /\ Published(HomeSource, Candidate # trial.last, "done")

\* Across two paired folders: withdrawn in one, ingested in the other.
FirstToSecond ==
    \/ TrialAt({"cross"}, "to other") /\ Acts(MoveFolder(HomeSource, OtherSource), "left home")
    \/ TrialAt({"cross"}, "left home") /\ Withdrawn(HomeSource, "at other")
    \/ TrialAt({"cross"}, "at other") /\ Published(OtherSource,
           version[OtherSource].cand \notin trial.seen /\ PathCurrent(OtherSource), "to home")
SecondToFirst ==
    \/ TrialAt({"cross"}, "to home") /\ Acts(MoveFolder(OtherSource, HomeSource), "left other")
    \/ TrialAt({"cross"}, "left other") /\ Withdrawn(OtherSource, "at home")
    \/ TrialAt({"cross"}, "at home") /\ Published(HomeSource,
           Candidate \notin trial.seen /\ PathCurrent(HomeSource), "done")

-----------------------------------------------------------------------------
(* Someone works on the file, and the embedding service may be down at     *)
(* first.                                                                  *)

UserStep ==
    /\ trial.what \in Free /\ Len(outbox[HomeSource]) < MaxHints
    /\ outbox[HomeSource] # <<>> =>
           \/ trial.what = "free"
           \/ trial.what = "overtaken" /\ \E r \in RunIds : runs[r].kind = "retry"
    /\ \/ Upload(HomeSource) \/ RenameFolder(HomeSource)
       \/ MoveFolder(HomeSource, "outside") \/ MoveFolder("outside", HomeSource)
    /\ UNCHANGED trial

EmbeddingReturns == trial.what \in {"outage", "overtaken"} /\ Embedding(TRUE) /\ UNCHANGED trial

RetryDrill ==
    \/ RetryBaseline \/ StopEmbedding \/ OverwriteV2 \/ WaitFailedCandidate \/ StartEmbedding
    \/ RetryStatus \/ StrictLatestDenial \/ WaitRecovered \/ RetryApplied

MoveDrill ==
    \/ CreateFile \/ CreatedPublished \/ RenameStep \/ RenamedPublished \/ MoveOut \/ MovedOut
    \/ MoveBack \/ MovedBack \/ RapidPair \/ PairPublished \/ TrashStep \/ Trashed
    \/ RestoreStep \/ RestoredPublished \/ FirstToSecond \/ SecondToFirst

DrillsStep ==
    \/ WeKnoraStep /\ UNCHANGED trial
    \/ UserStep \/ EmbeddingReturns \/ RetryDrill \/ MoveDrill

DrillsSpec == DrillsInit /\ [][DrillsStep]_drillVars

-----------------------------------------------------------------------------
(* What the index promises.                                                *)

(* A row that employees can read is the published candidate of its source's
   version row, under the wanted ETag, parsed and unfenced, whatever runs,
   parsers and publishers were overtaken on the way.                        *)
ReadableIsCurrent ==
    \A k \in DOMAIN rows : rows[k].shown =>
        LET v == version[rows[k].source] IN
        /\ v.state = "published" /\ v.cand = k /\ v.etag = rows[k].etag
        /\ rows[k].parse = "completed" /\ rows[k].open /\ ~rows[k].gone

(* Once a hint is applied, what is readable is a state of the folder at that
   hint or later: an applied change is never answered with what it replaced. *)
AppliedNeverStale ==
    \A k \in DOMAIN rows : rows[k].shown =>
        LET s == rows[k].source IN
        disp[s].applied > 0 =>
            \E i \in disp[s].applied..Len(outbox[s]) :
                outbox[s][i].view = [etag |-> rows[k].etag, path |-> rows[k].path]

(* One event run of a source at a time works on the index, also when an
   answer of the queue was lost or the dispatcher died.                     *)
OneEventRun ==
    \A s \in Sources :
        Cardinality({r \in RunIds : /\ runs[r].src = s /\ runs[r].kind = "event"
                                    /\ runs[r].pc \in Running \ {"opened"}}) <= 1

(* No requirement of the drills that does not race with the system fails.   *)
DrillChecksHold == trial.at # "failed"

(* A failed candidate is replaced under its own ETag only by the holder of
   its retry lease and within its window.                                   *)
FailedReplacedUnderLease ==
    [][\A s \in Sources :
          (/\ Failed(s) /\ version'[s].state = "staging" /\ version'[s].etag = version[s].etag
           /\ version'[s].cand # version[s].cand)
          => job[s].state = "leased" /\ job[s].cand = version[s].cand /\ ~version[s].old
      ]_drillVars

(* The watermark moves over a range with a folder change only after two
   complete scans were made for exactly that target.                        *)
BroadConfirmedTwice ==
    [][\A s \in Sources :
          disp'[s].applied # disp[s].applied /\ NeedsTwoScans(s) => scanned[s] = 2
      ]_drillVars
=============================================================================
