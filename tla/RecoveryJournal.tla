--------------------------- MODULE RecoveryJournal ---------------------------
(* publication-recovery-journal.py: a signed file, kept outside the checkpoints,
   that retains the pages of the source database's event history. A chain hash is
   modelled by what it commits to: the hash of sequence n is the prefix of length n
   of the history it was computed from. *)
EXTENDS Integers, Sequences, SequencesExt

CONSTANTS
  Files,        \* the source files an event can be about
  Collectors,   \* processes that collect at the same time (`watch` and `collect`)
  PageLimit,    \* events of a page (200)
  MaxEvents,    \* bound on the source's own events
  MaxRecords    \* bound on the retained records

ASSUME JournalAssumption ==
  PageLimit \in Nat \ {0} /\ MaxEvents \in Nat /\ MaxRecords \in Nat

Events == [kind : {"withdrawn", "eligible"}, file : Files]

VARIABLES
  history,      \* oc_weknora_recovery_log of the source database
  journal,      \* the records of the retained file
  collecting    \* per collector: its step and the page it exported

journalVars == <<history, journal, collecting>>

Resting == [pc |-> "rest", page |-> [after |-> 0, next |-> 0, head |-> <<>>]]

JournalInit ==
  /\ history = <<>>
  /\ journal = <<>>
  /\ collecting = [c \in Collectors |-> Resting]

----------------------------------------------------------------------------
Prefix(events, n) == SubSeq(events, 1, n)
LeastOf(m, n) == IF m <= n THEN m ELSE n

(* The ledger's export: `after`, at most PageLimit events, and the head it saw. *)
Page(after) ==
  [after |-> after, next |-> LeastOf(after + PageLimit, Len(history)), head |-> history]

Items(page) == SubSeq(page.head, page.after + 1, page.next)
Complete(page) == page.next = Len(page.head)          \* not has_more
Cursor == IF journal = <<>> THEN 0 ELSE Last(journal).next

(* read_records: every record goes on where the one before it ended. *)
OneAfterAnother(n) ==
  \A i \in 1..n : journal[i].after = IF i = 1 THEN 0 ELSE journal[i - 1].next

(* What the records up to the n-th retain: every event carries its sequence k. *)
RecordOf(n, k) == CHOOSE i \in 1..n : journal[i].after < k /\ k <= journal[i].next
Retained(n) == [k \in 1..journal[n].next |-> journal[RecordOf(n, k)].head[k]]

(* validate_head_commitments: a head witnessed before is the history's prefix, where
   the page's head, its cursor or one of its events reaches the same sequence. *)
HeadsAgree(page) ==
  \A n \in DOMAIN journal :
    LET witnessed == journal[n].head
    IN  Len(witnessed) \in (page.after..page.next) \cup {Len(page.head)}
          => Prefix(page.head, Len(witnessed)) = witnessed

(* The same page again, or an empty page at the same head, adds no record. *)
AlreadyRetained(page) ==
  /\ journal # <<>>
  /\ \/ page = Last(journal)
     \/ Items(page) = <<>> /\ page.after = Last(journal).next /\ page.head = Last(journal).head

Continues(page) ==
  IF journal = <<>> THEN page.after = 0
  ELSE LET last == Last(journal)
       IN  /\ page.after = last.next
           /\ Prefix(page.head, page.after) = Prefix(last.head, last.next)
           /\ Len(page.head) >= Len(last.head)

----------------------------------------------------------------------------
(* collect: the cursor is read under the file's lock, the page is exported from the
   database, and the file is locked again to append. *)
CollectFrom(c) ==
  /\ collecting[c].pc = "rest"
  /\ collecting' = [collecting EXCEPT ![c] =
       [pc |-> "export", page |-> [after |-> Cursor, next |-> Cursor, head |-> <<>>]]]
  /\ UNCHANGED <<history, journal>>

(* A database that no longer reaches the cursor fails the export. *)
Export(c) ==
  /\ collecting[c].pc = "export"
  /\ collecting' = [collecting EXCEPT ![c] =
       IF collecting[c].page.after <= Len(history)
       THEN [pc |-> "append", page |-> Page(collecting[c].page.after)]
       ELSE Resting]
  /\ UNCHANGED <<history, journal>>

AppendPage(c) ==
  /\ collecting[c].pc = "append"
  /\ LET page == collecting[c].page
     IN  IF ~AlreadyRetained(page) /\ Continues(page) /\ HeadsAgree(page)
         THEN Len(journal) < MaxRecords /\ journal' = Append(journal, page)
         ELSE UNCHANGED journal                    \* retained already, or refused
  /\ collecting' = [collecting EXCEPT ![c] = Resting]
  /\ UNCHANGED history

(* The process dies: the retained file is all that is left of its work. *)
CollectorDies(c) ==
  /\ collecting[c].pc # "rest"
  /\ collecting' = [collecting EXCEPT ![c] = Resting]
  /\ UNCHANGED <<history, journal>>

----------------------------------------------------------------------------
(* replay_plan: from the anchor's record to a complete record; nothing in it ever
   reopens a source, so an "eligible" event does not lift an earlier withdrawal. *)
Replayable(anchor, through) ==
  /\ anchor \in DOMAIN journal /\ through \in DOMAIN journal /\ anchor <= through
  /\ Complete(journal[through])

ReplayedPastNext(anchor, through) ==   \* mutant: one event too late
  SubSeq(Retained(through), journal[anchor].next + 2, journal[through].next)

ReplayedEvents(anchor, through) ==
  SubSeq(Retained(through), journal[anchor].next + 1, journal[through].next)

WithdrawFiles(anchor, through) ==
  {e.file : e \in {x \in ToSet(ReplayedEvents(anchor, through)) : x.kind = "withdrawn"}}
=============================================================================
