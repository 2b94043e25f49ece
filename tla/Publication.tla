----------------------------- MODULE Publication -----------------------------
(***************************************************************************)
(* How a change of the file reaches the index: the hints of its folder,    *)
(* the dispatcher that turns a received range of hints into one sync run,  *)
(* the run that compares a complete manifest with its cursor and stages    *)
(* what differs, and the applied watermark, which moves only over a range  *)
(* whose publication is proved.  Each source has one connection, and the   *)
(* file is the only one of its folder.                                     *)
(***************************************************************************)
EXTENDS SourceVersions

CONSTANTS
    MaxHints,      \* hints that users' changes of a folder ever record
    RunIds,        \* runs that are known at one time
    MaxTrouble     \* deaths, lost answers and elapsed limits

ASSUME PublicationAssumption ==
    /\ MaxHints \in Nat /\ MaxTrouble \in Nat
    /\ RunIds \subseteq Nat \ {0}
    /\ Sources \cap {"nowhere", "outside", "trash"} = {}

VARIABLES
    outbox,      \* per source, the hints of its folder
    received,    \* per source, how many of them WeKnora has
    cursor,      \* per source, the cursor its last complete scan stored
    disp,        \* per source, its row of nextcloud_event_dispatch and its worker
    outcome,     \* per source, the state of the sync log that row names
    runs,        \* the runs that are queued or running, by log
    scanned,     \* per source, complete scans made for the current target
    trouble      \* mishaps that may still happen

publicationVars == <<outbox, received, cursor, disp, outcome, runs, scanned, trouble>>
indexVars == <<file, embedding, versionVars, publicationVars>>

FileKinds == {"upsert", "metadata", "delete"}
NoRun == [kind |-> "none", src |-> "none", pc |-> "none", upto |-> 0, audit |-> FALSE,
          view |-> Absent, cand |-> 0, claim |-> NoClaim]
Running == {"opened", "listed", "seen", "made", "publishing", "store"}

HasRunning(s) == \E r \in RunIds : runs[r].src = s /\ runs[r].pc \in Running
Unused(r) == runs[r] = NoRun /\ \A s \in Sources : disp[s].log # r
FreshLog == CHOOSE r \in RunIds : Unused(r)
LogLeft == \E r \in RunIds : Unused(r)

-----------------------------------------------------------------------------
(* The file changes in Nextcloud, and each folder concerned records a hint *)
(* with what it shows afterwards.                                          *)

Changes(f, kinds) ==
    /\ file' = f
    /\ outbox' = [s \in Sources |->
           IF s \notin DOMAIN kinds THEN outbox[s]
           ELSE Append(outbox[s], [kind |-> kinds[s], view |->
                    IF f.at = s THEN [etag |-> f.etag, path |-> f.path] ELSE Absent])]
    /\ UNCHANGED <<embedding, versionVars, received, cursor, disp, outcome, runs,
                   scanned, trouble>>

Only(s, kind) == [x \in {s} |-> kind]

\* An upload that creates the file or overwrites it.
Upload(s) ==
    file.at \in {s, "nowhere"}
        /\ Changes([file EXCEPT !.at = s, !.etag = @ + 1], Only(s, "upsert"))
RenameFile(s) ==
    file.at = s /\ Changes([file EXCEPT !.path = 3 - @], Only(s, "metadata"))
RenameFolder(s) ==
    file.at = s /\ Changes([file EXCEPT !.path = 3 - @], Only(s, "subtree_moved"))
\* The folder around the file goes from s to t; "outside" is no source.
MoveFolder(s, t) ==
    /\ file.at = s /\ s # t
    /\ Changes([file EXCEPT !.at = t],
               [x \in {s, t} \cap Sources |->
                   IF x = s THEN "subtree_deleted" ELSE "subtree_scan"])
Trash(s) == file.at = s /\ Changes([file EXCEPT !.at = "trash"], Only(s, "delete"))
Untrash(s) == file.at = "trash" /\ Changes([file EXCEPT !.at = s], Only(s, "upsert"))

Receive(s) ==
    /\ received[s] < Len(outbox[s])
    /\ received' = [received EXCEPT ![s] = @ + 1]
    /\ UNCHANGED <<file, embedding, versionVars, outbox, cursor, disp, outcome, runs,
                   scanned, trouble>>

-----------------------------------------------------------------------------
(* The proof that the index shows what the hints of a range announced.     *)

HintsIn(s, lo, hi, kinds) == {i \in (lo + 1)..hi : outbox[s][i].kind \in kinds}

\* The last hint of the file itself in the range has to match the manifest.
BarrierHolds(s) ==
    LET own == HintsIn(s, disp[s].applied, disp[s].target, FileKinds) IN
    own # {} =>
        LET last == outbox[s][CHOOSE i \in own : \A j \in own : j <= i]
            withdrawn == version[s].state \in {"none", "tombstone"} IN
        IF last.kind = "delete" THEN cursor[s].file = Absent /\ withdrawn
        ELSE IF cursor[s].file = Absent THEN withdrawn ELSE cursor[s].file = last.view

NeedsTwoScans(s) ==
    LET own == HintsIn(s, disp[s].applied, disp[s].target, FileKinds) IN
    \/ HintsIn(s, disp[s].applied, disp[s].target,
               {"subtree_scan", "subtree_moved", "subtree_deleted"}) # {}
    \/ /\ own # {} /\ cursor[s].file = Absent
       /\ outbox[s][CHOOSE i \in own : \A j \in own : j <= i].kind # "delete"

\* The version row and every row of the source agree with the cursor.
IndexAgrees(s) ==
    LET v == version[s] IN
    /\ cursor[s].changes >= disp[s].target
    /\ IF cursor[s].file = Absent
       THEN IF cursor[s].tomb THEN v.state = "tombstone" ELSE v.state = "none"
       ELSE v.state \in {"staging", "published"} /\ v.etag = cursor[s].file.etag
    /\ \A k \in DOMAIN rows : rows[k].source = s =>
           /\ v.state # "none" /\ (v.state = "tombstone" => rows[k].gone)
           /\ rows[k].shown => ~rows[k].gone /\ v.state = "published" /\ v.cand = k

StillParsing(s) ==
    /\ version[s].state = "staging" /\ rows[version[s].cand].parse = "pending"
    /\ ~rows[version[s].cand].gone

Readable(s) ==
    LET k == version[s].cand IN
    /\ version[s].state = "published" /\ rows[k].shown /\ ~rows[k].gone
    /\ rows[k].parse = "completed"
    /\ [etag |-> rows[k].etag, path |-> rows[k].path] = cursor[s].file

Proof(s) ==
    IF ~IndexAgrees(s) THEN "retry"
    ELSE IF cursor[s].file # Absent /\ StillParsing(s) THEN "waiting"
    ELSE IF (cursor[s].file # Absent => Readable(s)) /\ BarrierHolds(s)
         THEN "complete" ELSE "retry"

\* Newer hints may replace a scan that cannot be proved.
CanCoalesce(s) ==
    /\ received[s] > disp[s].target /\ cursor[s].changes >= disp[s].target
    /\ \A i \in (disp[s].target + 1)..received[s] :
           \/ outbox[s][i].kind = "upsert"
           \/ outbox[s][i].kind = "delete" /\ cursor[s].file # Absent

CanSupersede(s) ==
    /\ CanCoalesce(s) /\ StillParsing(s)
    /\ \A i \in (disp[s].target + 1)..received[s] : outbox[s][i].kind = "upsert"
    /\ outbox[s][received[s]].view.etag # version[s].etag
    /\ Cardinality({k \in DOMAIN rows : rows[k].source = s /\ rows[k].parse = "pending"}) = 1

-----------------------------------------------------------------------------
(* The dispatcher.  ClaimDispatch is one transaction; a claim is prepared, *)
(* submitted and recorded, and its worker may die between any two.         *)

Turns(s, d) == disp' = [disp EXCEPT ![s] = d]
DispatcherKeeps == UNCHANGED <<file, embedding, versionVars, outbox, received, cursor>>
\* One goroutine claims, prepares, submits and records, one connection after the other.
DispatcherFree == \A s \in Sources : disp[s].phase \notin {"claimed", "prepared", "sent"}

Claimed(d, s) ==
    [d EXCEPT !.state = "leased", !.phase = "claimed", !.target = received[s], !.log = 0]

Claims(s, d) ==
    /\ Turns(s, Claimed(d, s))
    /\ outcome' = [outcome EXCEPT ![s] = "missing"]
    /\ scanned' = [scanned EXCEPT ![s] = IF received[s] = disp[s].target THEN @ ELSE 0]

Retries(s, marker) ==
    /\ Turns(s, [disp[s] EXCEPT !.state = "retry", !.confirm = marker])
    /\ UNCHANGED <<outcome, scanned>>

ClaimDue(s) ==
    /\ DispatcherFree
    /\ \/ disp[s].state = "idle" /\ received[s] > disp[s].dispatched
       \/ disp[s].state = "retry"
    /\ Claims(s, disp[s])
    /\ DispatcherKeeps /\ UNCHANGED <<runs, trouble>>

\* The run of the claimed range failed or has not seen a deletion twice; or its
\* task is still in the queue when the dispatcher looks for its log.
RunUnproven(s) ==
    /\ DispatcherFree /\ disp[s].state = "queued"
    /\ \/ outcome[s] = "failed" /\ UNCHANGED trouble
       \/ outcome[s] = "success" /\ cursor[s].missing /\ UNCHANGED trouble
       \/ outcome[s] = "missing" /\ trouble > 0 /\ trouble' = trouble - 1
    /\ Retries(s, 0)
    /\ DispatcherKeeps /\ UNCHANGED runs

ProofDue(s) ==
    DispatcherFree /\ disp[s].state = "queued" /\ outcome[s] = "success" /\ ~cursor[s].missing

PublicationUnproven(s) ==
    /\ ProofDue(s)
    /\ \/ Proof(s) = "waiting" /\ CanSupersede(s) /\ Claims(s, disp[s])
       \/ Proof(s) = "retry" /\ CanCoalesce(s) /\ Claims(s, disp[s])
       \/ Proof(s) = "retry" /\ ~CanCoalesce(s) /\ Retries(s, 0)
    /\ DispatcherKeeps /\ UNCHANGED <<runs, trouble>>

\* A broad range is confirmed by a second scan for exactly the same target.
ConfirmBroad(s) ==
    /\ ProofDue(s) /\ Proof(s) = "complete"
    /\ NeedsTwoScans(s) /\ disp[s].confirm # disp[s].target
    /\ Retries(s, disp[s].target)
    /\ DispatcherKeeps /\ UNCHANGED <<runs, trouble>>

\* Mutant: a first scan of some earlier target counts as the first of this one.
ApplyOnAnyMarker(s) ==
    /\ ProofDue(s) /\ Proof(s) = "complete"
    /\ NeedsTwoScans(s) => disp[s].confirm # 0
    /\ LET done == [disp[s] EXCEPT !.state = "idle", !.applied = disp[s].target, !.confirm = 0] IN
       \/ received[s] > disp[s].dispatched /\ Claims(s, done)
       \/ received[s] = disp[s].dispatched /\ Turns(s, done) /\ UNCHANGED <<outcome, scanned>>
    /\ DispatcherKeeps /\ UNCHANGED <<runs, trouble>>

Apply(s) ==
    /\ ProofDue(s) /\ Proof(s) = "complete"
    /\ NeedsTwoScans(s) => disp[s].confirm = disp[s].target
    /\ LET done == [disp[s] EXCEPT !.state = "idle", !.applied = disp[s].target, !.confirm = 0] IN
       \/ received[s] > disp[s].dispatched /\ Claims(s, done)
       \/ received[s] = disp[s].dispatched /\ Turns(s, done) /\ UNCHANGED <<outcome, scanned>>
    /\ DispatcherKeeps /\ UNCHANGED <<runs, trouble>>

\* PrepareDispatch, or FailDispatch while a run of the source is going on.
Prepare(s) ==
    /\ disp[s].phase = "claimed"
    /\ \/ HasRunning(s) /\ Turns(s, [disp[s] EXCEPT !.state = "retry", !.phase = "none",
                                                    !.confirm = 0])
       \/ ~HasRunning(s) /\ LogLeft
          /\ Turns(s, [disp[s] EXCEPT !.phase = "prepared", !.log = FreshLog])
    /\ DispatcherKeeps /\ UNCHANGED <<outcome, scanned, runs, trouble>>

EventRun(s) == [NoRun EXCEPT !.kind = "event", !.src = s, !.pc = "queued"]

\* The queue may take the task and lose its answer, or lose the task.
Enqueue(s) ==
    /\ disp[s].phase = "prepared"
    /\ \/ /\ runs' = [runs EXCEPT ![disp[s].log] = EventRun(s)]
          /\ Turns(s, [disp[s] EXCEPT !.phase = "sent"]) /\ UNCHANGED trouble
       \/ /\ trouble > 0 /\ trouble' = trouble - 1
          /\ runs' \in {runs, [runs EXCEPT ![disp[s].log] = EventRun(s)]}
          /\ Turns(s, [disp[s] EXCEPT !.phase = "lost", !.confirm = 0])
    /\ DispatcherKeeps /\ UNCHANGED <<outcome, scanned>>

FinishDispatch(s) ==
    /\ disp[s].phase = "sent"
    /\ Turns(s, [disp[s] EXCEPT !.state = "queued", !.phase = "none", !.dispatched = disp[s].target])
    /\ DispatcherKeeps /\ UNCHANGED <<outcome, scanned, runs, trouble>>

DispatcherDies(s) ==
    /\ disp[s].phase \in {"claimed", "prepared", "sent"} /\ trouble > 0
    /\ trouble' = trouble - 1
    /\ Turns(s, [disp[s] EXCEPT !.phase = "lost"])
    /\ DispatcherKeeps /\ UNCHANGED <<outcome, scanned, runs>>

\* The lease of a lost worker is over: its log decides.
RecoverLease(s) ==
    /\ DispatcherFree /\ disp[s].phase = "lost" /\ outcome[s] # "running"
    /\ \/ /\ outcome[s] = "success"
          /\ Turns(s, [disp[s] EXCEPT !.state = "queued", !.phase = "none",
                                      !.dispatched = disp[s].target, !.confirm = 0])
          /\ UNCHANGED <<outcome, scanned>>
       \/ outcome[s] # "success" /\ Claims(s, disp[s])
    /\ DispatcherKeeps /\ UNCHANGED <<runs, trouble>>

\* A failed candidate is given to one run of its own.
DispatchRetry(s) ==
    /\ DispatcherFree /\ Claimable(s) /\ ~HasRunning(s) /\ LogLeft
    /\ TakeLease(s)
    /\ runs' = [runs EXCEPT ![FreshLog] =
           [NoRun EXCEPT !.kind = "retry", !.src = s, !.pc = "queued",
            !.claim = [ClaimOf(s) EXCEPT !.lease = job[s].lease + 1]]]
    /\ UNCHANGED <<file, embedding, version, rows, publishing, outbox, received, cursor,
                   disp, outcome, scanned, trouble>>

-----------------------------------------------------------------------------
(* A run.  It starts while its claim still names it, and asks again before *)
(* it opens, before each item and before it stores its cursor.             *)

RunGoes(r, rec) == runs' = [runs EXCEPT ![r] = rec]
LogSays(r, what) ==
    outcome' = [s \in Sources |-> IF disp[s].log = r THEN what ELSE outcome[s]]
RunKeeps == UNCHANGED <<file, embedding, outbox, received, disp, trouble>>

\* Mutant: any run of a source whose range is claimed goes on.
EventCurrentByState(r) == disp[runs[r].src].state \in {"leased", "queued"}

EventCurrent(r) ==
    disp[runs[r].src].state \in {"leased", "queued"} /\ disp[runs[r].src].log = r
RetryCurrent(r, failed) ==
    /\ LeaseValid(runs[r].src, runs[r].claim)
    /\ failed => StillFailed(runs[r].src, runs[r].claim)
Current(r, failed) ==
    IF runs[r].kind = "event" THEN EventCurrent(r) ELSE RetryCurrent(r, failed)

Stops(r) == RunGoes(r, NoRun) /\ LogSays(r, "failed")
RunStays == UNCHANGED <<versionVars, cursor, scanned>>

StartRun(r) ==
    /\ runs[r].pc = "queued"
    /\ \/ Current(r, TRUE) /\ RunGoes(r, [runs[r] EXCEPT !.pc = "opening"])
       \/ ~Current(r, TRUE) /\ RunGoes(r, NoRun)
    /\ RunKeeps /\ RunStays /\ UNCHANGED outcome

\* The log is created as running, and the claim is checked a second time.
CreateLog(r) ==
    /\ runs[r].pc = "opening"
    /\ RunGoes(r, [runs[r] EXCEPT !.pc = "opened"]) /\ LogSays(r, "running")
    /\ RunKeeps /\ RunStays

\* Still current, the run reads the hints; the manifest is read after them.
ReadChanges(r) ==
    /\ runs[r].pc = "opened"
    /\ \/ /\ Current(r, TRUE) /\ UNCHANGED <<outcome, trouble>>
          /\ RunGoes(r, [runs[r] EXCEPT !.pc = "listed", !.upto = Len(outbox[runs[r].src])])
       \/ /\ Current(r, TRUE) /\ trouble > 0 /\ trouble' = trouble - 1 /\ UNCHANGED outcome
          /\ RunGoes(r, [runs[r] EXCEPT !.pc = "listed", !.upto = Len(outbox[runs[r].src]),
                                        !.audit = TRUE])
       \/ ~Current(r, TRUE) /\ Stops(r) /\ UNCHANGED trouble
    /\ UNCHANGED <<file, embedding, outbox, received, disp>> /\ RunStays

ReadManifest(r) ==
    /\ runs[r].pc = "listed"
    /\ RunGoes(r, [runs[r] EXCEPT !.pc = "seen", !.view = View(runs[r].src)])
    /\ RunKeeps /\ RunStays /\ UNCHANGED outcome

Fetches(r) ==
    LET c == cursor[runs[r].src] IN
    /\ runs[r].view # Absent
    /\ \/ runs[r].audit \/ runs[r].kind = "retry" \/ runs[r].upto > c.changes
       \/ c.file # runs[r].view \/ c.missing \/ c.tomb

Withdraws(r) ==
    runs[r].view = Absent /\ (cursor[runs[r].src].missing \/ cursor[runs[r].src].tomb)

WithdrawItem(r) ==
    /\ runs[r].pc = "seen" /\ Withdraws(r)
    /\ \/ /\ Current(r, FALSE) /\ Tombstone(runs[r].src)
          /\ RunGoes(r, [runs[r] EXCEPT !.pc = "store"]) /\ UNCHANGED outcome
       \/ ~Current(r, FALSE) /\ Stops(r) /\ UNCHANGED <<version, rows>>
    /\ RunKeeps /\ UNCHANGED <<job, publishing, cursor, scanned>>

\* The content of exactly the listed version becomes a row, new or used again.
IngestItem(r) ==
    LET s == runs[r].src
        v == runs[r].view IN
    /\ runs[r].pc = "seen" /\ Fetches(r)
    /\ \/ (View(s) # v \/ ~Current(r, FALSE)) /\ Stops(r) /\ UNCHANGED rows
       \/ /\ View(s) = v /\ Current(r, FALSE) /\ ~Admitted(s, v.etag, runs[r].claim)
          /\ RunGoes(r, [runs[r] EXCEPT !.pc = "store"]) /\ UNCHANGED <<rows, outcome>>
       \/ /\ View(s) = v /\ Current(r, FALSE) /\ Admitted(s, v.etag, runs[r].claim)
          /\ \/ /\ Reusable(s, v.etag) /\ UNCHANGED rows
                /\ RunGoes(r, [runs[r] EXCEPT !.pc = "made", !.cand = version[s].cand])
             \/ /\ ~Reusable(s, v.etag) /\ Len(rows) < MaxCandidates
                /\ rows' = Append(rows, NewRow(s, v))
                /\ RunGoes(r, [runs[r] EXCEPT !.pc = "made", !.cand = Len(rows) + 1])
          /\ UNCHANGED outcome
    /\ RunKeeps /\ UNCHANGED <<version, job, publishing, cursor, scanned>>

StageItem(r) ==
    LET s == runs[r].src
        k == runs[r].cand
        p == <<s, runs[r].kind>> IN
    /\ runs[r].pc = "made"
    /\ \/ ~rows[k].open /\ Stops(r) /\ UNCHANGED <<version, rows, publishing>>
       \/ /\ rows[k].open /\ ~Stageable(s, runs[r].view, k, runs[r].claim)
          /\ RunGoes(r, [runs[r] EXCEPT !.pc = "store"])
          /\ UNCHANGED <<version, rows, publishing, outcome>>
       \/ /\ rows[k].open /\ Stageable(s, runs[r].view, k, runs[r].claim)
          /\ Stage(s, runs[r].view, k)
          /\ publishing' = [publishing EXCEPT ![p] =
                 IF rows[k].parse = "completed" THEN Opened(p, k, TRUE) ELSE @]
          /\ RunGoes(r, [runs[r] EXCEPT !.pc =
                 IF rows[k].parse = "completed" THEN "publishing" ELSE "store"])
          /\ UNCHANGED outcome
    /\ RunKeeps /\ UNCHANGED <<job, cursor, scanned>>

\* Whether the publication succeeded is the proof's business; an error ends the run.
ItemPublished(r) ==
    LET p == <<runs[r].src, runs[r].kind>> IN
    /\ runs[r].pc = "publishing" /\ PublisherEnded(p)
    /\ publishing' = [publishing EXCEPT ![p] = NotPublishing]
    /\ \/ publishing[p].pc = "error" /\ Stops(r)
       \/ /\ publishing[p].pc # "error" /\ UNCHANGED outcome
          /\ RunGoes(r, [runs[r] EXCEPT !.pc = "store"])
    /\ RunKeeps /\ UNCHANGED <<version, rows, job, cursor, scanned>>

\* A file is missing after one complete scan without it and withdrawn by a second.
NextCursor(prev, upto, view) ==
    [changes |-> upto,
     file |-> IF view = Absent /\ ~prev.missing THEN prev.file ELSE view,
     missing |-> view = Absent /\ prev.file # Absent /\ ~prev.missing,
     tomb |-> view = Absent /\ (prev.missing \/ prev.tomb)]

\* A retry run keeps the cursor: the next scan still sees all that changed.
StoreCursor(r) ==
    LET s == runs[r].src IN
    /\ \/ runs[r].pc = "store"
       \/ runs[r].pc = "seen" /\ ~Fetches(r) /\ ~Withdraws(r)
    /\ \/ ~Current(r, FALSE) /\ Stops(r) /\ UNCHANGED <<cursor, scanned>>
       \/ /\ Current(r, FALSE) /\ RunGoes(r, NoRun) /\ LogSays(r, "success")
          /\ \/ runs[r].kind = "retry" /\ UNCHANGED <<cursor, scanned>>
             \/ /\ runs[r].kind = "event"
                /\ cursor' = [cursor EXCEPT ![s] = NextCursor(@, runs[r].upto, runs[r].view)]
                /\ scanned' = [scanned EXCEPT ![s] = IF @ < 2 THEN @ + 1 ELSE @]
    /\ RunKeeps /\ UNCHANGED versionVars

-----------------------------------------------------------------------------
(* The whole, for a file that someone works on and for mishaps.            *)

FreshDispatch ==
    [state |-> "idle", phase |-> "none", target |-> 0, dispatched |-> 0, applied |-> 0,
     confirm |-> 0, log |-> 0]

\* Paired sources with an empty folder, imported once.
PublicationInit ==
    /\ version = [s \in Sources |-> NoVersion] /\ rows = <<>>
    /\ job = [s \in Sources |-> NoJob] /\ publishing = [p \in Publishers |-> NotPublishing]
    /\ outbox = [s \in Sources |-> <<>>] /\ received = [s \in Sources |-> 0]
    /\ cursor = [s \in Sources |-> [changes |-> 0, file |-> Absent, missing |-> FALSE, tomb |-> FALSE]]
    /\ disp = [s \in Sources |-> FreshDispatch] /\ outcome = [s \in Sources |-> "missing"]
    /\ runs = [r \in RunIds |-> NoRun] /\ scanned = [s \in Sources |-> 0]

Embedding(on) ==
    /\ embedding = ~on /\ embedding' = on
    /\ UNCHANGED <<file, versionVars, publicationVars>>

Versions(A) == A /\ UNCHANGED <<file, embedding, publicationVars>>

\* The lease of a retry ends with its run, or by a mishap before that.
RetryLeaseEnds(s) ==
    /\ LeaseExpires(s)
    /\ LET working == \E r \in RunIds : runs[r].src = s /\ runs[r].kind = "retry" IN
       trouble >= (IF working THEN 1 ELSE 0) /\ trouble' = trouble - (IF working THEN 1 ELSE 0)
    /\ UNCHANGED <<file, embedding, outbox, received, cursor, disp, outcome, runs, scanned>>

RetryWindowEnds(s) ==
    /\ trouble > 0 /\ trouble' = trouble - 1 /\ WindowCloses(s)
    /\ UNCHANGED <<file, embedding, outbox, received, cursor, disp, outcome, runs, scanned>>

RunSteps(r) ==
    \/ StartRun(r) \/ CreateLog(r) \/ ReadChanges(r) \/ ReadManifest(r)
    \/ WithdrawItem(r) \/ IngestItem(r) \/ StageItem(r)
    \/ ItemPublished(r) \/ StoreCursor(r)

DispatchSteps(s) ==
    \/ Receive(s) \/ ClaimDue(s) \/ RunUnproven(s) \/ PublicationUnproven(s)
    \/ ConfirmBroad(s) \/ Apply(s) \/ Prepare(s) \/ Enqueue(s) \/ FinishDispatch(s)
    \/ DispatcherDies(s) \/ RecoverLease(s) \/ DispatchRetry(s)
    \/ RetryLeaseEnds(s) \/ RetryWindowEnds(s)

VersionSteps(s) ==
    \/ Versions(NoteFailure(s)) \/ Versions(GiveUpRetrying(s))
    \/ ~HasRunning(s) /\ Versions(RetryFailedCandidate(s))
    \/ \E k \in DOMAIN rows : rows[k].source = s /\ Versions(ParseEnds(k))

PublisherSteps(p) ==
    \/ Versions(PublishAsk(p, TRUE)) \/ Versions(PublishCommit(p))
    \/ Versions(PublishConfirm(p, TRUE)) \/ Versions(PublishHide(p))
    \/ /\ trouble > 0 /\ trouble' = trouble - 1
       /\ PublishAsk(p, FALSE) \/ PublishConfirm(p, FALSE)
       /\ UNCHANGED <<file, embedding, outbox, received, cursor, disp, outcome, runs, scanned>>

WeKnoraStep ==
    \/ \E r \in RunIds : RunSteps(r)
    \/ \E s \in Sources : DispatchSteps(s) \/ VersionSteps(s)
    \/ \E p \in Publishers : PublisherSteps(p)

=============================================================================
