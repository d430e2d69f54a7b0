----------------------------- MODULE StateStore -----------------------------
(***************************************************************************)
(* The project state on disk (server/project_control.go, loadLocked and    *)
(* saveLocked; workspace_state.go saves the tab layout in the same way): a *)
(* document in a main file, a write-ahead copy that a save writes first, a *)
(* backup nobody reads, and a file of an older release that is read when   *)
(* there is neither. Approvals were part of the document and moved to the  *)
(* tables of SQLite; a store without those keeps them in the document.     *)
(*                                                                         *)
(* One mutex serialises all sessions, so one session is under way at most. *)
(* A file is replaced as a whole (write a temporary file, sync, rename);   *)
(* the server may stop, and every write may fail, between two of them.     *)
(***************************************************************************)
EXTENDS Naturals

CONSTANTS
  Approvals,    \* ids of approvals
  Stamps,       \* what the clock can say: it may be set back
  MaxVersions,  \* bound on versions of the document
  MaxFailures,  \* bound on crashes and failed writes
  None

Document ==
  [version : 0..MaxVersions, stamp : Stamps, approvals : SUBSET Approvals]

ASSUME StoreConstants ==
  /\ Stamps \subseteq Nat /\ MaxVersions \in Nat /\ MaxFailures \in Nat
  /\ None \notin Nat /\ None \notin Document

VARIABLES
  disk,      \* main, wal and old: a document or None
  tables,    \* approvals in SQLite
  plane,     \* whether the store of the running server uses the tables
  session,   \* the session under way
  last,      \* the newest version anyone made
  settled,   \* the version that a load or a save ended well with last
  undecided, \* versions whose saves have failed since
  raised,    \* approvals of sessions that ended well
  failures

vars == <<disk, tables, plane, session, last, settled, undecided, raised, failures>>

Idle == [step |-> "idle"]
Down == [step |-> "down"]

\* A session that has the document on disk has loaded it ("loaded", "migrate")
\* and goes on with it, has moved its approvals ("up"), or is done ("idle").
Then(then, doc) ==
  IF then \in {"loaded", "migrate"} THEN [step |-> then, doc |-> doc] ELSE Idle

Saving(doc, then) ==
  [step |-> "sync", doc |-> doc, then |-> then, raises |-> doc.approvals]

Init ==
  /\ \E seen \in SUBSET Approvals, s \in Stamps :
       LET doc == [version |-> 0, stamp |-> s, approvals |-> seen] IN
       /\ raised = seen
       /\ disk \in {[main |-> doc, wal |-> None, old |-> None],
                    [main |-> None, wal |-> None, old |-> doc]}
  /\ tables = {} /\ plane = FALSE
  /\ session = Down
  /\ last = 0 /\ settled = 0 /\ undecided = {} /\ failures = 0

-----------------------------------------------------------------------------
\* Loading.

At(step) == session.step = step
GoTo(step) == session' = [session EXCEPT !.step = step]

projectControlPreferState(candidate, current) == candidate.stamp >= current.stamp

FromWAL(d) ==
  d.wal # None /\ (d.main = None \/ projectControlPreferState(d.wal, d.main))

\* Faulty variant: the file of the older release is not looked at.
SourceOfRelease(d) == IF FromWAL(d) THEN d.wal ELSE d.main

Source(d) ==
  IF FromWAL(d) THEN d.wal ELSE IF d.main # None THEN d.main ELSE d.old

\* The next version of a document. Only withStateLocked and a recovery set
\* its time stamp anew, and the clock may say what it said before.
NewVersion(doc, s) ==
  [version |-> last + 1, stamp |-> s, approvals |-> doc.approvals]

Settle(doc) == settled' = doc.version /\ undecided' = {}

\* Faulty variant: a document recovered from the write-ahead copy is served,
\* and the copy removed, without a save.
ServeCopy(then) ==
  /\ disk.main # None \/ disk.wal # None
  /\ session' = Then(then, Source(disk)) /\ Settle(Source(disk))
  /\ disk' = [disk EXCEPT !.wal = None]
  /\ UNCHANGED last

\* loadLocked when the main file counts and is in shape. A write-ahead copy
\* that does not count is removed, if that works.
LoadMain(then) ==
  /\ ~FromWAL(disk) /\ disk.main # None
  /\ session' = Then(then, disk.main) /\ Settle(disk.main)
  /\ disk' \in {disk, [disk EXCEPT !.wal = None]}
  /\ UNCHANGED last

\* The document is saved again when it comes from the write-ahead copy or an
\* older release, or has to be brought into shape. The recovery of a tool
\* run that was interrupted makes a new version.
LoadAndSave(then) ==
  /\ \/ session' = Saving(Source(disk), then) /\ UNCHANGED last
     \/ /\ last < MaxVersions /\ last' = last + 1
        /\ \E s \in Stamps : session' = Saving(NewVersion(Source(disk), s), then)
  /\ UNCHANGED <<disk, settled, undecided>>

Load ==
  /\ session = Idle
  /\ LoadMain("loaded") \/ LoadAndSave("loaded")
  /\ UNCHANGED <<tables, plane, raised, failures>>

\* A function that only reads, or ends with an error.
Abandon ==
  /\ At("loaded") /\ session' = Idle
  /\ UNCHANGED <<disk, tables, plane, last, settled, undecided, raised, failures>>

\* hydrateApprovalsLocked: with SQLite the function sees its approvals too.
Hydrated(doc) == doc.approvals \cup (IF plane THEN tables ELSE {})

\* withStateLocked's function, which may raise more.
Mutate ==
  /\ At("loaded")
  /\ last < MaxVersions /\ last' = last + 1
  /\ \E more \in SUBSET Approvals, s \in Stamps :
       session' = Saving([NewVersion(session.doc, s) EXCEPT
                            !.approvals = Hydrated(session.doc) \cup more], "idle")
  /\ UNCHANGED <<disk, tables, plane, settled, undecided, raised, failures>>

-----------------------------------------------------------------------------
\* saveLocked, one write at a time.

\* Faulty variant: the document forgets its approvals, the tables come last.
SyncLater ==
  /\ At("sync")
  /\ session' = [session EXCEPT !.step = "wal", !.doc.approvals = IF plane THEN {} ELSE @]
  /\ UNCHANGED <<disk, tables, plane, last, settled, undecided, raised, failures>>

Sync ==
  /\ At("sync")
  /\ IF plane
     THEN /\ tables' = tables \cup session.doc.approvals
          /\ session' = [session EXCEPT !.step = "wal", !.doc.approvals = {}]
     ELSE GoTo("wal") /\ UNCHANGED tables
  /\ UNCHANGED <<disk, plane, last, settled, undecided, raised, failures>>

WriteWAL ==
  /\ At("wal") /\ GoTo("backup")
  /\ disk' = [disk EXCEPT !.wal = session.doc]
  /\ UNCHANGED <<tables, plane, last, settled, undecided, raised, failures>>

\* Nobody reads the backup; that its write may fail is what matters.
WriteBackup ==
  /\ At("backup") /\ GoTo("main")
  /\ UNCHANGED <<disk, tables, plane, last, settled, undecided, raised, failures>>

WriteMain ==
  /\ At("main") /\ GoTo("remove")
  /\ disk' = [disk EXCEPT !.main = session.doc]
  /\ UNCHANGED <<tables, plane, last, settled, undecided, raised, failures>>

\* A write-ahead copy that cannot be removed stays, without an error.
RemoveWAL ==
  /\ At("remove")
  /\ session' = Then(session.then, session.doc)
  /\ disk' \in {disk, [disk EXCEPT !.wal = None]}
  /\ Settle(session.doc)
  /\ raised' = raised \cup session.raises
  /\ plane' = (plane \/ session.then = "up")
  /\ UNCHANGED <<tables, last, failures>>

\* The version that the session under way is writing.
Writing ==
  IF session.step \in {"sync", "wal", "backup", "main", "remove"}
  THEN session.doc.version ELSE None

LeaveUndecided == undecided' = (undecided \cup {Writing}) \ {None}

WriteFails ==
  /\ session.step \in {"migrate", "sync", "wal", "backup", "main"}
  /\ failures < MaxFailures /\ failures' = failures + 1
  /\ session' = Idle /\ LeaveUndecided
  /\ UNCHANGED <<disk, tables, plane, last, settled, raised>>

-----------------------------------------------------------------------------
\* Starting and stopping.

Crash ==
  /\ session # Down
  /\ failures < MaxFailures /\ failures' = failures + 1
  /\ session' = Down /\ LeaveUndecided
  /\ plane' = FALSE
  /\ UNCHANGED <<disk, tables, last, settled, raised>>

\* The server starts; when SQLite cannot be opened, or what follows fails, the
\* store does without.
Start ==
  /\ session = Down
  /\ \/ LoadMain("migrate") \/ LoadAndSave("migrate")
     \/ session' = Idle /\ UNCHANGED <<disk, last, settled, undecided>>
  /\ UNCHANGED <<tables, plane, raised, failures>>

\* Faulty variant: the tables get the approvals, the document keeps them too.
ImportOnly ==
  /\ At("migrate")
  /\ tables' = tables \cup session.doc.approvals
  /\ session' = Idle /\ plane' = TRUE
  /\ UNCHANGED <<disk, last, settled, undecided, raised, failures>>

\* migrateLegacyApprovals: what the document holds goes to the tables, then
\* out of the document. The store uses the tables once that has succeeded.
Migrate ==
  /\ At("migrate")
  /\ IF session.doc.approvals = {}
     THEN session' = Idle /\ plane' = TRUE /\ UNCHANGED tables
     ELSE /\ tables' = tables \cup session.doc.approvals
          /\ session' = Saving([session.doc EXCEPT !.approvals = {}], "up")
          /\ UNCHANGED plane
  /\ UNCHANGED <<disk, last, settled, undecided, raised, failures>>

-----------------------------------------------------------------------------
Next ==
  \/ Load \/ Abandon \/ Mutate
  \/ Sync \/ WriteWAL \/ WriteBackup \/ WriteMain \/ RemoveWAL \/ WriteFails
  \/ Crash \/ Start \/ Migrate

Spec == Init /\ [][Next]_vars

-----------------------------------------------------------------------------
\* Properties.

OpenSession == [step : {"loaded", "migrate"}, doc : Document]

SavingSession ==
  [step : {"sync", "wal", "backup", "main", "remove"}, doc : Document,
   then : {"loaded", "migrate", "up", "idle"}, raises : SUBSET Approvals]

\* Types; also, that a document can always be read: the main file, its
\* write-ahead copy or the file of the older release is there.
TypeOK ==
  /\ disk \in [main : Document \cup {None}, wal : Document \cup {None},
               old : Document \cup {None}]
  /\ Source(disk) \in Document
  /\ tables \subseteq Approvals /\ plane \in BOOLEAN
  /\ session \in {Idle, Down} \cup OpenSession \cup SavingSession
  /\ last \in 0..MaxVersions /\ settled \in 0..last
  /\ undecided \subseteq 0..last
  /\ raised \subseteq Approvals
  /\ failures \in 0..MaxFailures

\* An approval whose session ended well is in the tables or in the document
\* that a load would return, in every state: while a save or the migration
\* moves it (syncApprovalsLocked before the files, ImportLegacyApprovals
\* before the document is cleaned), and after a crash or a failure of either.
ApprovalsNeverLost == raised \subseteq tables \cup Source(disk).approvals

\* Once the store uses the tables the stored document holds no approvals: a
\* second copy there would go stale with the next settled, undecided, and its old status
\* would come back when the server runs without SQLite.
OneHome == plane => Source(disk).approvals = {}

\* Main file, write-ahead copy and the choice between them make one atomic
\* store: what a load or a save returned is what later ones start from, also
\* when the clock was set back, a copy could not be removed, a write failed
\* or the server stopped. A save that failed may still take effect, but only
\* until the next load has returned: no version comes back after that.
Store == INSTANCE AtomicStore WITH
  made <- 0..last, writing <- Writing, Versions <- 0..MaxVersions
Atomic == Store!Spec
=============================================================================
