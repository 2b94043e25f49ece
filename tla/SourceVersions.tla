--------------------------- MODULE SourceVersions ---------------------------
(***************************************************************************)
(* What WeKnora holds of one Nextcloud file, in each of the data sources   *)
(* whose folder the file may be in: the version row that names the wanted  *)
(* ETag and its candidate, the knowledge rows the candidates are, the      *)
(* publisher that makes a parsed candidate readable after it asked         *)
(* Nextcloud, and the retry job of a candidate whose parsing failed.       *)
(* Tenants, credentials, chunks and build leases are left out; the content *)
(* fence of a row is its "open" field, and a lease or a waiting time ends  *)
(* by an action of its own.                                                *)
(***************************************************************************)
EXTENDS Integers, FiniteSets, Sequences

CONSTANTS
    Sources,         \* data sources, each of one bound Nextcloud folder
    MaxCandidates,   \* knowledge rows that are ever made
    MaxLeases        \* leases a retry job is ever given

ASSUME VersionsAssumption == MaxCandidates \in Nat /\ MaxLeases \in Nat

VARIABLES
    file,        \* the Nextcloud file: where it is, its ETag and its path there
    version,     \* per source, the row of nextcloud_source_versions
    rows,        \* the knowledge rows, by ID
    job,         \* per source, the row of nextcloud_candidate_retry_jobs
    publishing,  \* per publisher, the run of PublishNextcloudVersion it is in
    embedding    \* whether the embedding service answers

versionVars == <<version, rows, job, publishing>>

Publishers == Sources \X {"event", "retry", "parser"}
Absent == [etag |-> 0, path |-> 0]
NoVersion == [state |-> "none", etag |-> 0, cand |-> 0, old |-> FALSE]
NoJob == [state |-> "none", etag |-> 0, cand |-> 0, attempts |-> 0, lease |-> 0]
NoClaim == [etag |-> 0, cand |-> 0, lease |-> 0]
NotPublishing == [pc |-> "none", cand |-> 0, etag |-> 0, path |-> 0]

\* What the folder of a source shows of the file.
View(s) == IF file.at = s THEN [etag |-> file.etag, path |-> file.path] ELSE Absent

NewRow(s, v) ==
    [source |-> s, etag |-> v.etag, path |-> v.path, parse |-> "pending",
     shown |-> FALSE, open |-> TRUE, gone |-> FALSE]

\* Every row of the source is hidden; all but "keep" lose their fence for good.
KeepOnly(s, keep) ==
    [k \in DOMAIN rows |->
        IF rows[k].source # s THEN rows[k]
        ELSE [rows[k] EXCEPT !.shown = FALSE, !.open = @ /\ k = keep]]

Hidden(s) ==
    [k \in DOMAIN rows |->
        IF rows[k].source # s THEN rows[k] ELSE [rows[k] EXCEPT !.shown = FALSE]]

-----------------------------------------------------------------------------
(* A candidate that failed to parse is replaced under its ETag by the      *)
(* holder of its job's lease only.                                         *)

Failed(s) == version[s].state = "staging" /\ rows[version[s].cand].parse = "failed"

ClaimOf(s) == [etag |-> version[s].etag, cand |-> version[s].cand, lease |-> job[s].lease]

LeaseHeld(s, c) ==
    /\ job[s].state = "leased"
    /\ job[s].etag = version[s].etag /\ job[s].cand = version[s].cand
    /\ c = ClaimOf(s)

\* Mutant: a failed candidate is replaced by whoever comes with its ETag.
AdmittedWithoutLease(s, etag, c) ==
    c # NoClaim => Failed(s) /\ version[s].etag = c.etag /\ version[s].cand = c.cand

Admitted(s, etag, c) ==
    /\ c # NoClaim => Failed(s) /\ version[s].etag = c.etag /\ version[s].cand = c.cand
    /\ Failed(s) /\ (c # NoClaim \/ version[s].etag = etag)
          => ~version[s].old /\ LeaseHeld(s, c)

\* A task's lease still names the failed candidate it was given for; it is renewed.
LeaseValid(s, c) ==
    /\ job[s].state = "leased" /\ job[s].lease = c.lease
    /\ job[s].etag = c.etag /\ job[s].cand = c.cand /\ ~version[s].old

StillFailed(s, c) == Failed(s) /\ version[s].etag = c.etag /\ version[s].cand = c.cand

\* Mutant: only an unfinished candidate is used again.
ReusableUnfinished(s, etag) ==
    /\ version[s].state = "staging" /\ version[s].etag = etag
    /\ rows[version[s].cand].parse # "failed" /\ ~rows[version[s].cand].gone

\* An unfinished or finished candidate of the wanted ETag is used again.
Reusable(s, etag) ==
    /\ version[s].state \in {"staging", "published"} /\ version[s].etag = etag
    /\ rows[version[s].cand].parse # "failed" /\ ~rows[version[s].cand].gone

-----------------------------------------------------------------------------
(* Staging and tombstones: what a run does with one item of its scan.      *)

Stageable(s, v, k, c) ==
    /\ Admitted(s, v.etag, c)
    /\ ~(Failed(s) /\ version[s].cand = k /\ (c # NoClaim \/ version[s].etag = v.etag))

Stage(s, v, k) ==
    /\ version' = [version EXCEPT ![s] =
           [state |-> "staging", etag |-> v.etag, cand |-> k,
            old |-> @.state = "staging" /\ @.etag = v.etag /\ @.old]]
    /\ rows' = [KeepOnly(s, k) EXCEPT ![k].etag = v.etag, ![k].path = v.path]

Tombstone(s) ==
    /\ version' = [version EXCEPT ![s] = [NoVersion EXCEPT !.state = "tombstone"]]
    /\ rows' = [k \in DOMAIN rows |->
           IF rows[k].source = s
           THEN [KeepOnly(s, 0)[k] EXCEPT !.gone = TRUE] ELSE rows[k]]

-----------------------------------------------------------------------------
(* PublishNextcloudVersion: read, ask the source, commit, ask again.       *)

Staged(k) ==
    LET s == rows[k].source IN
    /\ version[s].cand = k /\ version[s].state \in {"staging", "published"}
    /\ version[s].etag = rows[k].etag /\ ~rows[k].gone
Ready(k) == Staged(k) /\ rows[k].parse = "completed"

Same(p) ==
    LET k == publishing[p].cand IN
    rows[k].etag = publishing[p].etag /\ rows[k].path = publishing[p].path

Shows(k, etag, path) == View(rows[k].source) = [etag |-> etag, path |-> path]

PublishingAt(p, pc) == publishing[p].pc = pc
PublisherGoes(p, pc) == publishing' = [publishing EXCEPT ![p].pc = pc]
PublisherEnds(p, result) ==
    publishing' = [publishing EXCEPT ![p] =
        [NotPublishing EXCEPT !.pc = IF p[2] = "parser" THEN "none" ELSE result]]

\* The publisher has read the row of a candidate that is ready, or ends at once.
Opened(p, k, ready) ==
    IF ready THEN [pc |-> "ask", cand |-> k, etag |-> rows'[k].etag, path |-> rows'[k].path]
    ELSE [NotPublishing EXCEPT !.pc = IF p[2] = "parser" THEN "none" ELSE "unready"]

\* Nextcloud answers for what it holds now, unless its answer does not come in time.
PublishAsk(p, answers) ==
    /\ PublishingAt(p, "ask")
    /\ LET agrees == answers /\ Shows(publishing[p].cand, publishing[p].etag, publishing[p].path) IN
       \/ agrees /\ PublisherGoes(p, "commit")
       \/ ~agrees /\ PublisherGoes(p, "hide")
    /\ UNCHANGED <<version, rows, job>>

MakeReadable(k) ==
    /\ rows' = [KeepOnly(rows[k].source, k) EXCEPT ![k].shown = TRUE]
    /\ version' = [version EXCEPT ![rows[k].source].state = "published"]

\* Mutant: what was read before the question is committed after it.
PublishCommitUnread(p) ==
    /\ PublishingAt(p, "commit")
    /\ MakeReadable(publishing[p].cand) /\ PublisherGoes(p, "confirm")
    /\ UNCHANGED job

PublishCommit(p) ==
    /\ PublishingAt(p, "commit")
    /\ LET k == publishing[p].cand
           unchanged == Ready(k) /\ Same(p) /\ rows[k].open IN
       \/ unchanged /\ MakeReadable(k) /\ PublisherGoes(p, "confirm")
       \/ ~unchanged /\ PublisherEnds(p, "unready") /\ UNCHANGED <<version, rows>>
    /\ UNCHANGED job

\* The second question and the last reading of the row are one step.
PublishConfirm(p, answers) ==
    /\ PublishingAt(p, "confirm")
    /\ LET k == publishing[p].cand
           agrees == answers /\ Shows(k, publishing[p].etag, publishing[p].path)
           final == Ready(k) /\ Same(p) /\ version[rows[k].source].state = "published" IN
       \/ agrees /\ final /\ PublisherEnds(p, "ok")
       \/ agrees /\ ~final /\ PublisherGoes(p, "withdraw")
       \/ ~agrees /\ PublisherGoes(p, "hide")
    /\ UNCHANGED <<version, rows, job>>

\* unpublishIfCurrent: close this publication, never one that was staged after it.
PublishHide(p) ==
    /\ publishing[p].pc \in {"hide", "withdraw"}
    /\ PublisherEnds(p, IF PublishingAt(p, "hide") THEN "error" ELSE "unready")
    /\ LET k == publishing[p].cand
           s == rows[k].source
           current == /\ version[s].state = "published" /\ version[s].cand = k
                      /\ version[s].etag = publishing[p].etag /\ Same(p) IN
       \/ /\ current
          /\ rows' = Hidden(s) /\ version' = [version EXCEPT ![s].state = "staging"]
       \/ ~current /\ UNCHANGED <<version, rows>>
    /\ UNCHANGED job

PublisherEnded(p) == publishing[p].pc \in {"ok", "unready", "error"}

-----------------------------------------------------------------------------
(* Parsing.  The row is saved only while its fence is open, and the source *)
(* fields of the row win over the ones the parser had loaded.              *)

ParserFree(s) == publishing[<<s, "parser">>].pc = "none"

ParseEnds(k) ==
    /\ rows[k].parse = "pending" /\ rows[k].open /\ ~rows[k].gone
    /\ LET p == <<rows[k].source, "parser">> IN
       \/ /\ embedding /\ ParserFree(rows[k].source)
          /\ rows' = [rows EXCEPT ![k].parse = "completed"]
          /\ publishing' = [publishing EXCEPT ![p] = Opened(p, k, Staged(k))]
       \/ /\ ~embedding
          /\ rows' = [rows EXCEPT ![k].parse = "failed"] /\ UNCHANGED publishing
    /\ UNCHANGED <<version, job>>

-----------------------------------------------------------------------------
(* The retry job of the failed candidate.                                  *)

JobCurrent(s) == job[s].state # "none" /\ job[s].etag = version[s].etag /\ job[s].cand = version[s].cand

\* The dispatcher first meets this failure: the job waits for its first attempt.
NoteFailure(s) ==
    /\ Failed(s) /\ ~JobCurrent(s)
    /\ job' = [job EXCEPT ![s] =
           [state |-> IF version[s].old THEN "manual" ELSE "retry",
            etag |-> version[s].etag, cand |-> version[s].cand, lease |-> @.lease,
            attempts |-> IF @.etag = version[s].etag THEN @.attempts ELSE 0]]
    /\ UNCHANGED <<version, rows, publishing>>

\* The automatic window of 24 hours is over.
GiveUpRetrying(s) ==
    /\ Failed(s) /\ JobCurrent(s) /\ version[s].old /\ job[s].state # "manual"
    /\ job' = [job EXCEPT ![s].state = "manual"]
    /\ UNCHANGED <<version, rows, publishing>>

Claimable(s) ==
    /\ Failed(s) /\ JobCurrent(s) /\ ~version[s].old
    /\ job[s].state \in {"retry", "expired"} /\ job[s].lease < MaxLeases

TakeLease(s) ==
    job' = [job EXCEPT ![s].state = "leased", ![s].lease = @ + 1, ![s].attempts = @ + 1]

LeaseExpires(s) ==
    /\ job[s].state = "leased" /\ job' = [job EXCEPT ![s].state = "expired"]
    /\ UNCHANGED <<version, rows, publishing>>

WindowCloses(s) ==
    /\ Failed(s) /\ ~version[s].old
    /\ version' = [version EXCEPT ![s].old = TRUE] /\ UNCHANGED <<rows, job, publishing>>

\* An administrator restarts the budget of exactly this failed candidate.
RetryFailedCandidate(s) ==
    /\ Failed(s) /\ job[s].state # "leased"
    /\ version' = [version EXCEPT ![s].old = FALSE]
    /\ job' = [job EXCEPT ![s] = [state |-> "retry", etag |-> version[s].etag,
                                  cand |-> version[s].cand, attempts |-> 0, lease |-> @.lease]]
    /\ UNCHANGED <<rows, publishing>>

VersionsTypeOK ==
    /\ \A s \in Sources : version[s].state \in {"none", "staging", "published", "tombstone"}
    /\ \A s \in Sources : version[s].cand \in 0..Len(rows)
    /\ Len(rows) <= MaxCandidates
    /\ \A k \in DOMAIN rows : rows[k].parse \in {"pending", "completed", "failed"}
    /\ \A s \in Sources : job[s].lease \in 0..MaxLeases
    /\ DOMAIN publishing = Publishers
=============================================================================
