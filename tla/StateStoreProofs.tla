-------------------------- MODULE StateStoreProofs --------------------------
(***************************************************************************)
(* Proofs about StateStore, for any approvals, clock and bounds: no         *)
(* approval is lost or kept twice, and the files implement AtomicStore.    *)
(*                                                                         *)
(* The invariant says what each file that a load might choose holds. It is *)
(* not enough to know the chosen one: a save overwrites the write-ahead    *)
(* copy first, and if the clock was set back the choice then falls back to *)
(* the main file.                                                          *)
(***************************************************************************)
EXTENDS StateStore, TLAPS

\* What a document must be like for a load to be allowed to choose it.
Good(doc) ==
  /\ doc.version \in undecided \cup {settled, Writing}
  /\ raised \subseteq tables \cup doc.approvals
  /\ plane => doc.approvals = {}

DiskOK ==
  /\ disk.main # None => Good(disk.main)
  /\ FromWAL(disk) => Good(disk.wal)
  /\ disk.main = None /\ disk.wal = None => disk.old # None /\ Good(disk.old)

\* A session that has loaded works on what the files say.
OpenOK ==
  session.step \in {"loaded", "migrate"} =>
    /\ disk.main = session.doc
    /\ FromWAL(disk) => disk.wal = session.doc
    /\ settled = session.doc.version

\* A session that saves brings every approval along, and the files follow it.
SavingOK ==
  session.step \in {"sync", "wal", "backup", "main", "remove"} =>
    /\ session.doc.version \in 0..last
    /\ raised \cup session.raises \subseteq tables \cup session.doc.approvals
    /\ session.then = "up" \/ (plane /\ session.step # "sync") => session.doc.approvals = {}
    /\ session.step \in {"backup", "main", "remove"} => disk.wal = session.doc
    /\ session.step = "remove" => disk.main = session.doc

Types ==
  /\ disk \in [main : Document \cup {None}, wal : Document \cup {None},
               old : Document \cup {None}]
  /\ tables \subseteq Approvals /\ plane \in BOOLEAN
  /\ session \in {Idle, Down} \cup OpenSession \cup SavingSession
  /\ last \in 0..MaxVersions /\ settled \in 0..last
  /\ undecided \subseteq 0..last
  /\ raised \subseteq Approvals
  /\ failures \in 0..MaxFailures

IInv == Types /\ DiskOK /\ OpenOK /\ SavingOK

SavingSteps == {"sync", "wal", "backup", "main", "remove"}

-----------------------------------------------------------------------------
\* The shape of sessions.

LEMMA OpenForm ==
  ASSUME Types, session.step \in {"loaded", "migrate"}
  PROVE  session \in OpenSession
BY DEF Types, Idle, Down, OpenSession, SavingSession

LEMMA SavingForm ==
  ASSUME Types, session.step \in SavingSteps
  PROVE  session \in SavingSession /\ Writing = session.doc.version
BY DEF Types, Idle, Down, OpenSession, SavingSession, Writing, SavingSteps

LEMMA NotSaving ==
  ASSUME session.step \notin SavingSteps
  PROVE  Writing = None
BY DEF Writing, SavingSteps

\* What a document offers a session that loads it.
LEMMA ChosenIsGood ==
  ASSUME IInv
  PROVE  Source(disk) \in Document /\ Good(Source(disk))
BY DEF IInv, Types, DiskOK, Source, FromWAL

LEMMA VersionsOfDocuments ==
  ASSUME IInv, session.step \notin SavingSteps, NEW doc \in Document, Good(doc)
  PROVE  doc.version \in undecided \cup {settled}
<1>1. Writing = None
  BY NotSaving
<1>2. doc.version \in Nat
  BY StoreConstants DEF Document
<1> QED
  BY <1>1, <1>2, StoreConstants DEF Good

\* A session that starts to save keeps the invariant.
LEMMA StartSaving ==
  ASSUME IInv, session.step \notin SavingSteps,
         NEW doc \in Document, NEW then \in {"loaded", "migrate", "up", "idle"},
         session' = Saving(doc, then),
         UNCHANGED <<disk, plane, settled, undecided, raised, failures>>,
         last \in 0..last', last' \in 0..MaxVersions, doc.version \in 0..last',
         tables \subseteq tables', tables' \subseteq Approvals,
         raised \subseteq tables' \cup doc.approvals,
         then = "up" => doc.approvals = {}
  PROVE  IInv'
<1>1. Types'
  BY StoreConstants DEF IInv, Types, Saving, SavingSession, Document
<1>2. DiskOK'
  <2>1. Writing = None
    BY NotSaving
  <2>2. ASSUME NEW d \in Document, Good(d) PROVE Good(d)'
    BY <2>2, VersionsOfDocuments DEF Good
  <2> QED
    BY <2>2 DEF IInv, Types, DiskOK, FromWAL
<1>3. OpenOK' /\ SavingOK'
  BY DEF OpenOK, SavingOK, Saving
<1> QED
  BY <1>1, <1>2, <1>3 DEF IInv

-----------------------------------------------------------------------------
\* Each step keeps the invariant.

LEMMA InitStep ==
  ASSUME Init
  PROVE  IInv
<1>1. PICK seen \in SUBSET Approvals, s \in Stamps :
        LET doc == [version |-> 0, stamp |-> s, approvals |-> seen] IN
        /\ raised = seen
        /\ disk \in {[main |-> doc, wal |-> None, old |-> None],
                     [main |-> None, wal |-> None, old |-> doc]}
  BY DEF Init
<1> DEFINE doc == [version |-> 0, stamp |-> s, approvals |-> seen]
<1>2. doc \in Document
  BY StoreConstants DEF Document
<1>3. Types
  <2>1. disk \in {[main |-> doc, wal |-> None, old |-> None],
                 [main |-> None, wal |-> None, old |-> doc]} /\ raised \subseteq Approvals
    BY <1>1
  <2> HIDE DEF doc
  <2>2. disk \in [main : Document \cup {None}, wal : Document \cup {None},
                 old : Document \cup {None}]
    BY <2>1, <1>2
  <2>3. last \in 0..MaxVersions /\ settled \in 0..last /\ failures \in 0..MaxFailures
    BY StoreConstants DEF Init
  <2> QED
    BY <2>1, <2>2, <2>3 DEF Init, Types
<1>4. DiskOK
  BY <1>1, <1>2, StoreConstants DEF Init, DiskOK, Good, FromWAL
<1> QED
  BY <1>3, <1>4 DEF Init, IInv, OpenOK, SavingOK, Down

\* Whoever loads the main file finds what was settled, or settles it.
LEMMA LoadMainStep ==
  ASSUME IInv, session.step \notin SavingSteps, NEW then \in {"loaded", "migrate"},
         LoadMain(then), UNCHANGED <<tables, plane, raised, failures>>
  PROVE  IInv'
<1>1. disk.main \in Document /\ Good(disk.main)
  BY DEF IInv, Types, DiskOK, LoadMain
<1>2. session' = [step |-> then, doc |-> disk.main]
  BY DEF LoadMain, Then
<1>3. disk'.main = disk.main /\ disk'.wal \in {disk.wal, None} /\ disk'.old = disk.old
  BY DEF IInv, Types, LoadMain
<1>4. settled' = disk.main.version /\ undecided' = {} /\ last' = last
  BY DEF LoadMain, Settle
<1>5. disk.main.version \in 0..last
  BY <1>1, VersionsOfDocuments DEF IInv, Types
<1>6. Types'
  <2>1. session' \in OpenSession
    BY <1>1, <1>2 DEF OpenSession
  <2>2. disk' \in [main : Document \cup {None}, wal : Document \cup {None},
                   old : Document \cup {None}]
    BY DEF IInv, Types, LoadMain
  <2> QED
    BY <2>1, <2>2, <1>4, <1>5 DEF IInv, Types
<1>7. ~FromWAL(disk')
  BY <1>3 DEF LoadMain, FromWAL
<1>8. DiskOK'
  BY <1>1, <1>3, <1>4, <1>7, StoreConstants DEF DiskOK, Good, LoadMain
<1>9. OpenOK' /\ SavingOK'
  BY <1>2, <1>3, <1>4, <1>7 DEF OpenOK, SavingOK
<1> QED
  BY <1>6, <1>8, <1>9 DEF IInv

LEMMA NewVersionForm ==
  ASSUME NEW doc \in Document, NEW s \in Stamps, last \in Nat, last < MaxVersions
  PROVE  /\ NewVersion(doc, s) \in Document
         /\ NewVersion(doc, s).version = last + 1
         /\ NewVersion(doc, s).approvals = doc.approvals
<1>1. doc.approvals \subseteq Approvals
  BY DEF Document
<1>2. last + 1 \in 0..MaxVersions
  <2>1. MaxVersions \in Nat
    BY StoreConstants, Zenon
  <2> QED
    BY <2>1
<1> QED
  BY <1>1, <1>2 DEF NewVersion, Document

LEMMA LoadAndSaveStep ==
  ASSUME IInv, session.step \notin SavingSteps, NEW then \in {"loaded", "migrate"},
         LoadAndSave(then), UNCHANGED <<tables, plane, raised, failures>>
  PROVE  IInv'
<1>1. Source(disk) \in Document /\ Good(Source(disk))
  BY ChosenIsGood
<1>2. Source(disk).version \in 0..last
  BY <1>1, VersionsOfDocuments DEF IInv, Types
<1>3. last \in Nat /\ tables \subseteq Approvals
  BY DEF IInv, Types
<1>4. CASE session' = Saving(Source(disk), then) /\ last' = last
  BY <1>1, <1>2, <1>3, <1>4, StartSaving DEF LoadAndSave, Good, IInv, Types
<1>5. ASSUME last < MaxVersions, last' = last + 1, NEW s \in Stamps,
             session' = Saving(NewVersion(Source(disk), s), then)
      PROVE  IInv'
  <2> DEFINE doc == NewVersion(Source(disk), s)
  <2>1. doc \in Document /\ doc.version = last' /\ doc.approvals = Source(disk).approvals
    BY <1>1, <1>3, <1>5, NewVersionForm
  <2>2. last \in 0..last' /\ last' \in 0..MaxVersions /\ last' \in 0..last'
    BY <1>3, <1>5, StoreConstants
  <2>3. session' = Saving(doc, then)
    BY <1>5
  <2>4. raised \subseteq tables' \cup doc.approvals
    BY <2>1, <1>1 DEF Good
  <2>5. UNCHANGED <<disk, plane, settled, undecided, raised, failures>> /\ tables' = tables
    BY DEF LoadAndSave
  <2> HIDE DEF doc
  <2> QED
    BY <2>1, <2>2, <2>3, <2>4, <2>5, <1>3, StartSaving
<1> QED
  BY <1>4, <1>5 DEF LoadAndSave

LEMMA LoadStep == ASSUME IInv, Load PROVE IInv'
BY LoadMainStep, LoadAndSaveStep DEF Load, Idle, SavingSteps

\* A session that ends without a save leaves what it might have written
\* undecided.
LEMMA NoneIsNoVersion ==
  ASSUME Types
  PROVE  None \notin undecided /\ None # settled
<1>1. last \in Nat /\ settled \in 0..last /\ undecided \subseteq 0..last
  BY DEF Types
<1>2. None \notin Nat
  BY StoreConstants, Zenon
<1>3. 0..last \subseteq Nat
  BY <1>1
<1> QED
  BY <1>1, <1>2, <1>3, Zenon

LEMMA SessionEnds ==
  ASSUME IInv, session' \in {Idle, Down}, LeaveUndecided,
         UNCHANGED <<disk, tables, last, settled, raised>>,
         plane' \in BOOLEAN, plane' => plane, failures' \in 0..MaxFailures
  PROVE  IInv'
<1>1. Writing' = None
  BY NotSaving DEF Writing, Idle, Down
<1>2. undecided' = undecided \cup ({Writing} \ {None})
  <2>1. None \notin undecided
    BY NoneIsNoVersion DEF IInv
  <2> QED
    BY <2>1 DEF LeaveUndecided
<1>3. Writing \in (0..last) \cup {None}
  BY SavingForm, NotSaving DEF IInv, SavingOK, SavingSteps
<1>4. Types'
  BY <1>2, <1>3 DEF IInv, Types
<1>5. ASSUME NEW d \in Document, Good(d) PROVE Good(d)'
  <2>1. d.version \in Nat
    BY StoreConstants DEF Document
  <2> QED
    BY <1>1, <1>2, <1>5, <2>1, StoreConstants DEF Good
<1>6. DiskOK'
  BY <1>5 DEF IInv, Types, DiskOK, FromWAL
<1>7. OpenOK' /\ SavingOK'
  BY DEF OpenOK, SavingOK, Idle, Down
<1> QED
  BY <1>4, <1>6, <1>7 DEF IInv

LEMMA AbandonStep == ASSUME IInv, Abandon PROVE IInv'
<1>1. LeaveUndecided
  <2>1. Writing = None /\ None \notin undecided
    BY NotSaving, NoneIsNoVersion DEF Abandon, At, SavingSteps, IInv
  <2> QED
    BY <2>1 DEF LeaveUndecided, Abandon
<1> QED
  BY <1>1, SessionEnds DEF Abandon, IInv, Types

LEMMA WriteFailsStep == ASSUME IInv, WriteFails PROVE IInv'
BY SessionEnds, StoreConstants DEF WriteFails, IInv, Types

LEMMA CrashStep == ASSUME IInv, Crash PROVE IInv'
<1>1. failures' \in 0..MaxFailures
  BY StoreConstants DEF Crash, IInv, Types
<1> QED
  BY <1>1, SessionEnds DEF Crash

LEMMA StartStep == ASSUME IInv, Start PROVE IInv'
<1>1. session.step \notin SavingSteps
  BY DEF Start, Down, SavingSteps
<1>2. CASE session' = Idle /\ UNCHANGED <<disk, last, settled, undecided>>
  <2>1. LeaveUndecided
    BY <1>1, <1>2, NotSaving, NoneIsNoVersion DEF IInv, LeaveUndecided
  <2> QED
    BY <1>2, <2>1, SessionEnds DEF Start, IInv, Types
<1> QED
  BY <1>1, <1>2, LoadMainStep, LoadAndSaveStep DEF Start

\* The document that an open session has loaded is the stored one.
LEMMA OpenDocument ==
  ASSUME IInv, session.step \in {"loaded", "migrate"}
  PROVE  /\ session.doc \in Document /\ Good(session.doc)
         /\ Source(disk) = session.doc
         /\ session.doc.version = settled /\ session.step \notin SavingSteps
BY OpenForm, StoreConstants
DEF IInv, DiskOK, OpenOK, OpenSession, Source, SavingSteps

LEMMA MutateStep == ASSUME IInv, Mutate PROVE IInv'
<1>1. PICK more \in SUBSET Approvals, s \in Stamps :
        session' = Saving([NewVersion(session.doc, s) EXCEPT
                             !.approvals = Hydrated(session.doc) \cup more], "idle")
  BY DEF Mutate
<1> DEFINE doc == [NewVersion(session.doc, s) EXCEPT
                     !.approvals = Hydrated(session.doc) \cup more]
<1>2. session.doc \in Document /\ Good(session.doc) /\ session.step \notin SavingSteps
  BY OpenDocument DEF Mutate, At
<1>3. last \in Nat /\ tables \subseteq Approvals /\ last < MaxVersions /\ last' = last + 1
  BY DEF Mutate, IInv, Types
<1>4. Hydrated(session.doc) \cup more \in SUBSET Approvals
  BY <1>2, <1>3 DEF Hydrated, Document
<1>5. /\ doc \in Document /\ doc.version = last'
      /\ doc.approvals = Hydrated(session.doc) \cup more
  BY <1>2, <1>3, <1>4, NewVersionForm DEF Document
<1>6. raised \subseteq tables \cup doc.approvals
  BY <1>2, <1>5 DEF Good, Hydrated
<1>7. last \in 0..last' /\ last' \in 0..MaxVersions /\ last' \in 0..last'
  BY <1>3, StoreConstants
<1>8. session' = Saving(doc, "idle")
  BY <1>1
<1> HIDE DEF doc
<1> QED
  BY <1>2, <1>3, <1>5, <1>6, <1>7, <1>8, StartSaving DEF Mutate

LEMMA MigrateStep == ASSUME IInv, Migrate PROVE IInv'
<1>1. /\ session.doc \in Document /\ Good(session.doc)
      /\ session.doc.version = settled /\ session.step \notin SavingSteps
  BY OpenDocument DEF Migrate, At
<1>2. Writing = None
  BY <1>1, NotSaving
<1>3. CASE session.doc.approvals = {}
  <2>1. session' = Idle /\ plane' = TRUE /\ UNCHANGED <<disk, tables, last, settled, undecided, raised, failures>>
    BY <1>3 DEF Migrate
  <2>2. Writing' = None
    BY <2>1 DEF Writing, Idle
  <2>3. DiskOK'
    <3>1. ASSUME NEW d, d = session.doc PROVE Good(d)'
      BY <1>1, <1>2, <1>3, <2>1, <2>2, <3>1 DEF Good
    <3>2. disk.main = session.doc /\ (FromWAL(disk) => disk.wal = session.doc)
      BY DEF IInv, Migrate, At, OpenOK
    <3>3. disk.main # None
      BY <1>1, <3>2, StoreConstants
    <3> QED
      BY <2>1, <3>1, <3>2, <3>3 DEF DiskOK, FromWAL
  <2> QED
    BY <2>1, <2>3 DEF IInv, Types, OpenOK, SavingOK, Idle
<1>4. CASE session.doc.approvals # {}
  <2> DEFINE doc == [session.doc EXCEPT !.approvals = {}]
  <2>1. doc \in Document /\ doc.version = settled /\ doc.approvals = {}
    BY <1>1 DEF Document
  <2>2. /\ session' = Saving(doc, "up") /\ tables' = tables \cup session.doc.approvals
        /\ UNCHANGED <<disk, plane, last, settled, undecided, raised, failures>>
    BY <1>4 DEF Migrate
  <2>3. raised \subseteq tables' \cup doc.approvals /\ tables' \subseteq Approvals
    BY <1>1, <2>2 DEF Good, Document, IInv, Types
  <2>4. last \in 0..last' /\ last' \in 0..MaxVersions /\ settled \in 0..last'
    BY <2>2 DEF IInv, Types
  <2> HIDE DEF doc
  <2> QED
    BY <1>1, <2>1, <2>2, <2>3, <2>4, StartSaving
<1> QED
  BY <1>3, <1>4

\* A save that goes on from one write to the next.
LEMMA SyncStep == ASSUME IInv, Sync PROVE IInv'
<1>1. session \in SavingSession /\ Writing = session.doc.version
  BY SavingForm DEF Sync, At, SavingSteps, IInv
<1>2. /\ session' \in SavingSession /\ session'.step = "wal"
      /\ session'.doc.version = session.doc.version
      /\ session'.then = session.then /\ session'.raises = session.raises
      /\ session'.doc.approvals = IF plane THEN {} ELSE session.doc.approvals
  <2>1. CASE plane
    <3>1. session' = [session EXCEPT !.step = "wal",
                        !.doc = [session.doc EXCEPT !.approvals = {}]]
      BY <1>1, <2>1 DEF Sync, SavingSession
    <3>2. [session.doc EXCEPT !.approvals = {}] \in Document
      BY <1>1 DEF SavingSession, Document
    <3>3. /\ [session.doc EXCEPT !.approvals = {}].version = session.doc.version
          /\ [session.doc EXCEPT !.approvals = {}].approvals = {}
      BY <1>1 DEF SavingSession, Document
    <3> QED
      BY <1>1, <2>1, <3>1, <3>2, <3>3 DEF SavingSession
  <2>2. CASE ~plane
    BY <1>1, <2>2 DEF Sync, GoTo, SavingSession
  <2> QED
    BY <2>1, <2>2
<1>3. tables' = IF plane THEN tables \cup session.doc.approvals ELSE tables
  BY DEF Sync
<1>4. UNCHANGED <<disk, plane, last, settled, undecided, raised, failures>>
  BY DEF Sync
<1>5. Writing' = Writing
  BY <1>1, <1>2 DEF Writing
<1>6. Types'
  <2>1. tables' \subseteq Approvals
    BY <1>1, <1>3 DEF IInv, Types, SavingSession, Document
  <2> QED
    BY <1>2, <1>4, <2>1 DEF IInv, Types
<1>7. DiskOK'
  BY <1>3, <1>4, <1>5 DEF IInv, DiskOK, Good, FromWAL
<1>8. OpenOK' /\ SavingOK'
  BY <1>2, <1>3, <1>4 DEF IInv, OpenOK, SavingOK, Sync, At
<1> QED
  BY <1>6, <1>7, <1>8 DEF IInv

\* Past the import, the document being written may be chosen by any load.
LEMMA WrittenIsGood ==
  ASSUME IInv, session.step \in SavingSteps \ {"sync"}
  PROVE  session.doc \in Document /\ Good(session.doc)
BY SavingForm DEF IInv, SavingOK, Good, SavingSession, SavingSteps

\* One of the three writes; it replaces a whole file, or none.
LEMMA WriteStep ==
  ASSUME IInv, session.step \in {"wal", "backup", "main"},
         NEW step \in {"backup", "main", "remove"}, GoTo(step),
         UNCHANGED <<tables, plane, last, settled, undecided, raised, failures>>,
         disk' \in [main : {disk.main, session.doc}, wal : {session.doc}, old : {disk.old}],
         step = "remove" => disk'.main = session.doc
  PROVE  IInv'
<1>1. session \in SavingSession /\ Writing = session.doc.version
  BY SavingForm DEF SavingSteps, IInv
<1>2. session.doc \in Document /\ Good(session.doc)
  BY WrittenIsGood DEF SavingSteps
<1>3. /\ session' \in SavingSession /\ session'.step = step
      /\ session'.doc = session.doc /\ session'.then = session.then
      /\ session'.raises = session.raises
  BY <1>1 DEF GoTo, SavingSession
<1>4. Writing' = Writing
  BY <1>1, <1>3 DEF Writing
<1>5. Types'
  BY <1>2, <1>3 DEF IInv, Types
<1>6. disk'.main # None => Good(disk'.main)
  BY <1>2 DEF IInv, DiskOK
<1>7. disk'.wal = session.doc /\ session.doc # None
  BY <1>2, StoreConstants
<1>8. DiskOK'
  <2>1. ASSUME NEW d, Good(d) PROVE Good(d)'
    BY <1>4, <2>1 DEF Good
  <2> QED
    BY <1>2, <1>6, <1>7, <2>1 DEF DiskOK
<1>9. OpenOK' /\ SavingOK'
  BY <1>3, <1>7 DEF IInv, OpenOK, SavingOK
<1> QED
  BY <1>5, <1>8, <1>9 DEF IInv

LEMMA WriteWALStep == ASSUME IInv, WriteWAL PROVE IInv'
<1>1. disk' \in [main : {disk.main, session.doc}, wal : {session.doc}, old : {disk.old}]
  BY DEF WriteWAL, IInv, Types
<1> QED
  BY <1>1, WriteStep DEF WriteWAL, At

LEMMA WriteBackupStep == ASSUME IInv, WriteBackup PROVE IInv'
<1>1. disk' \in [main : {disk.main, session.doc}, wal : {session.doc}, old : {disk.old}]
  BY DEF WriteBackup, At, IInv, Types, SavingOK
<1> QED
  BY <1>1, WriteStep DEF WriteBackup, At

LEMMA WriteMainStep == ASSUME IInv, WriteMain PROVE IInv'
<1>1. /\ disk' \in [main : {disk.main, session.doc}, wal : {session.doc}, old : {disk.old}]
      /\ disk'.main = session.doc
  BY DEF WriteMain, At, IInv, Types, SavingOK
<1> QED
  BY <1>1, WriteStep DEF WriteMain, At

LEMMA RemoveWALStep == ASSUME IInv, RemoveWAL PROVE IInv'
<1>1. session \in SavingSession /\ Writing = session.doc.version
  BY SavingForm DEF RemoveWAL, At, SavingSteps, IInv
<1>2. session.doc \in Document /\ Good(session.doc)
  BY WrittenIsGood DEF RemoveWAL, At, SavingSteps
<1>3. /\ disk.main = session.doc /\ disk.wal = session.doc
      /\ session.doc.version \in 0..last
      /\ raised \cup session.raises \subseteq tables \cup session.doc.approvals
      /\ session.then = "up" => session.doc.approvals = {}
  BY DEF RemoveWAL, At, IInv, SavingOK
<1>4. disk'.main = session.doc /\ disk'.wal \in {None, session.doc} /\ disk'.old = disk.old
  BY <1>3 DEF RemoveWAL, IInv, Types
<1>5. session' \in {Idle} \cup OpenSession
  BY <1>1 DEF RemoveWAL, Then, SavingSession, OpenSession
<1>6. Types'
  <2>1. disk' \in [main : Document \cup {None}, wal : Document \cup {None},
                   old : Document \cup {None}]
    BY DEF RemoveWAL, IInv, Types
  <2>2. raised' \subseteq Approvals /\ plane' \in BOOLEAN
    BY <1>1 DEF RemoveWAL, IInv, Types, SavingSession
  <2> QED
    BY <1>3, <1>5, <2>1, <2>2 DEF RemoveWAL, Settle, IInv, Types
<1>7. DiskOK'
  <2>1. ASSUME NEW d, d = session.doc PROVE Good(d)'
    BY <1>2, <1>3, <2>1 DEF Good, RemoveWAL, Settle
  <2> QED
    BY <1>2, <1>4, <2>1, StoreConstants DEF DiskOK, FromWAL
<1>8. OpenOK'
  <2>1. session'.step \in {"loaded", "migrate"} => session'.doc = session.doc
    BY DEF RemoveWAL, Then, Idle
  <2>2. FromWAL(disk') => disk'.wal = session.doc
    BY <1>4 DEF FromWAL
  <2> QED
    BY <1>4, <2>1, <2>2 DEF OpenOK, RemoveWAL, Settle
<1>9. SavingOK'
  BY <1>5 DEF SavingOK, Idle, OpenSession
<1> QED
  BY <1>6, <1>7, <1>8, <1>9 DEF IInv

LEMMA Stutter == ASSUME IInv, UNCHANGED vars PROVE IInv'
BY DEF vars, IInv, Types, DiskOK, Good, Writing, OpenOK, SavingOK, FromWAL

\* In every state, every file that a load might choose holds the settled
\* version or one whose fate is open, with all the approvals raised.
THEOREM StoreInvariant == Spec => []IInv
<1>1. Init => IInv
  BY InitStep
<1>2. IInv /\ [Next]_vars => IInv'
  <2> SUFFICES ASSUME IInv, [Next]_vars PROVE IInv'
    OBVIOUS
  <2>1. CASE Load \/ Abandon \/ Mutate
    BY <2>1, LoadStep, AbandonStep, MutateStep
  <2>2. CASE Sync \/ WriteWAL \/ WriteBackup \/ WriteMain \/ RemoveWAL
    BY <2>2, SyncStep, WriteWALStep, WriteBackupStep, WriteMainStep, RemoveWALStep
  <2>3. CASE WriteFails \/ Crash \/ Start \/ Migrate
    BY <2>3, WriteFailsStep, CrashStep, StartStep, MigrateStep
  <2>4. CASE UNCHANGED vars
    BY <2>4, Stutter
  <2> QED
    BY <2>1, <2>2, <2>3, <2>4 DEF Next
<1> QED
  BY <1>1, <1>2, PTL DEF Spec

\* An approval whose session ended well stays in the tables or in the stored
\* document, across the migration, failed saves and crashes (saveLocked,
\* migrateLegacyApprovals).
THEOREM Approvals_NeverLost == Spec => []ApprovalsNeverLost
<1>1. IInv => ApprovalsNeverLost
  BY ChosenIsGood DEF Good, ApprovalsNeverLost
<1> QED
  BY <1>1, StoreInvariant, PTL

\* A server that uses the tables has no approvals in the stored document
\* (saveLocked and migrateLegacyApprovals take them out).
THEOREM One_Home == Spec => []OneHome
<1>1. IInv => OneHome
  BY ChosenIsGood DEF Good, OneHome
<1> QED
  BY <1>1, StoreInvariant, PTL

\* The types of the state; a document can always be read.
THEOREM Types_OK == Spec => []TypeOK
<1>1. IInv => TypeOK
  BY ChosenIsGood DEF IInv, Types, TypeOK
<1> QED
  BY <1>1, StoreInvariant, PTL

-----------------------------------------------------------------------------
\* Each step is a step of the abstract store, or none.

LEMMA BeginsToSave ==
  ASSUME IInv, session.step \notin SavingSteps,
         NEW doc, NEW then, session' = Saving(doc, then), UNCHANGED <<settled, undecided>>,
         \/ last' = last /\ doc.version \in undecided \cup {settled}
         \/ last < MaxVersions /\ last' = last + 1 /\ doc.version = last + 1
  PROVE  Store!Begin
<1>1. Writing = None /\ Writing' = doc.version
  BY NotSaving DEF Writing, Saving
<1>2. last \in Nat /\ undecided \cup {settled} \subseteq 0..last
  BY DEF IInv, Types
<1>3. CASE last' = last /\ doc.version \in undecided \cup {settled}
  BY <1>1, <1>2, <1>3 DEF Store!Begin, Store!Candidates
<1>4. CASE last < MaxVersions /\ last' = last + 1 /\ doc.version = last + 1
  <2>1. doc.version \in (0..MaxVersions) \ (0..last)
    BY <1>2, <1>4, StoreConstants
  <2>2. 0..last' = (0..last) \cup {doc.version}
    BY <1>2, <1>4
  <2> QED
    BY <1>1, <2>1, <2>2 DEF Store!Begin
<1> QED
  BY <1>3, <1>4

LEMMA LoadAndSaveBegins ==
  ASSUME IInv, session.step \notin SavingSteps, NEW then, LoadAndSave(then)
  PROVE  Store!Begin
<1>1. Source(disk).version \in undecided \cup {settled}
  BY ChosenIsGood, VersionsOfDocuments
<1> QED
  BY <1>1, BeginsToSave DEF LoadAndSave, NewVersion

LEMMA LoadMainReads ==
  ASSUME IInv, session.step \notin SavingSteps, NEW then \in {"loaded", "migrate"},
         LoadMain(then)
  PROVE  Store!Read
<1>1. disk.main \in Document /\ Good(disk.main)
  BY DEF IInv, Types, DiskOK, LoadMain
<1>2. disk.main.version \in undecided \cup {settled}
  BY <1>1, VersionsOfDocuments
<1>3. Writing = None /\ Writing' = None
  BY NotSaving DEF LoadMain, Then, Writing
<1> QED
  BY <1>2, <1>3 DEF LoadMain, Settle, Store!Read, Store!Answer, Store!Candidates

LEMMA EndsUndecided ==
  ASSUME IInv, session' \in {Idle, Down}, LeaveUndecided, UNCHANGED <<last, settled>>
  PROVE  Store!Fail \/ UNCHANGED Store!vars
<1>1. Writing' = None
  BY DEF Writing, Idle, Down
<1>2. None \notin undecided
  BY NoneIsNoVersion DEF IInv
<1>3. CASE Writing = None
  BY <1>1, <1>2, <1>3 DEF LeaveUndecided, Store!vars
<1>4. CASE Writing # None
  BY <1>1, <1>2, <1>4 DEF LeaveUndecided, Store!Fail
<1> QED
  BY <1>3, <1>4

LEMMA WritesStutter ==
  ASSUME IInv, Sync \/ WriteWAL \/ WriteBackup \/ WriteMain
  PROVE  UNCHANGED Store!vars
<1>1. session \in SavingSession /\ session.step \in SavingSteps
  BY SavingForm DEF IInv, Sync, WriteWAL, WriteBackup, WriteMain, At, SavingSteps
<1>2. session'.step \in SavingSteps /\ session'.doc.version = session.doc.version
  <2>1. session.doc \in Document
    BY <1>1 DEF SavingSession
  <2>2. CASE Sync
    <3>1. session' \in {[session EXCEPT !.step = "wal", !.doc.approvals = {}],
                        [session EXCEPT !.step = "wal"]}
      BY <2>2 DEF Sync, GoTo
    <3>2. /\ [session EXCEPT !.step = "wal", !.doc.approvals = {}].step = "wal"
          /\ [session EXCEPT !.step = "wal", !.doc.approvals = {}].doc
               = [session.doc EXCEPT !.approvals = {}]
          /\ [session EXCEPT !.step = "wal"].step = "wal"
          /\ [session EXCEPT !.step = "wal"].doc = session.doc
      BY <1>1 DEF SavingSession
    <3>3. [session.doc EXCEPT !.approvals = {}].version = session.doc.version
      BY <2>1 DEF Document
    <3> QED
      BY <3>1, <3>2, <3>3 DEF SavingSteps
  <2>3. CASE WriteWAL \/ WriteBackup \/ WriteMain
    BY <1>1, <2>1, <2>3 DEF WriteWAL, WriteBackup, WriteMain, GoTo, SavingSession, SavingSteps
  <2> QED
    BY <2>2, <2>3
<1>3. UNCHANGED <<last, settled, undecided>>
  BY DEF Sync, WriteWAL, WriteBackup, WriteMain
<1>4. Writing' = Writing
  BY <1>1, <1>2 DEF Writing, SavingSteps
<1> QED
  BY <1>3, <1>4 DEF Store!vars

LEMMA RemoveWALAnswers ==
  ASSUME IInv, RemoveWAL
  PROVE  Store!Written
<1>1. session \in SavingSession /\ Writing = session.doc.version
  BY SavingForm DEF RemoveWAL, At, SavingSteps, IInv
<1>2. Writing # None
  <2>1. Writing \in Nat
    BY <1>1 DEF SavingSession, Document
  <2> QED
    BY <2>1, StoreConstants
<1>3. Writing' = None
  BY DEF RemoveWAL, Then, Idle, Writing
<1> QED
  BY <1>1, <1>2, <1>3 DEF RemoveWAL, Settle, Store!Written, Store!Answer

LEMMA MutateBegins ==
  ASSUME IInv, Mutate
  PROVE  Store!Begin
<1>1. PICK more \in SUBSET Approvals, s \in Stamps :
        session' = Saving([NewVersion(session.doc, s) EXCEPT
                             !.approvals = Hydrated(session.doc) \cup more], "idle")
  BY DEF Mutate
<1> DEFINE doc == [NewVersion(session.doc, s) EXCEPT
                     !.approvals = Hydrated(session.doc) \cup more]
<1>2. doc.version = last + 1
  BY DEF NewVersion
<1>3. session.step \notin SavingSteps /\ session' = Saving(doc, "idle")
  BY <1>1 DEF Mutate, At, SavingSteps
<1> HIDE DEF doc
<1> QED
  BY <1>2, <1>3, BeginsToSave DEF Mutate

LEMMA MigrateBegins ==
  ASSUME IInv, Migrate
  PROVE  Store!Begin \/ UNCHANGED Store!vars
<1>1. session.doc \in Document /\ session.doc.version = settled
      /\ session.step \notin SavingSteps
  BY OpenDocument DEF Migrate, At
<1>2. CASE session.doc.approvals = {}
  <2>1. Writing = None /\ Writing' = None
    BY <1>1, <1>2, NotSaving DEF Migrate, Idle, Writing
  <2> QED
    BY <1>2, <2>1 DEF Migrate, Store!vars
<1>3. CASE session.doc.approvals # {}
  <2> DEFINE doc == [session.doc EXCEPT !.approvals = {}]
  <2>1. doc.version = settled
    BY <1>1 DEF Document
  <2>2. session' = Saving(doc, "up") /\ UNCHANGED <<last, settled, undecided>>
    BY <1>3 DEF Migrate
  <2> HIDE DEF doc
  <2> QED
    BY <1>1, <2>1, <2>2, BeginsToSave
<1> QED
  BY <1>2, <1>3

\* The files and the choice between them implement the abstract store: what a
\* load or a save returned stays until a later save, and a save that failed
\* takes effect before the next load returns, or never (loadLocked, saveLocked).
THEOREM Implements_AtomicStore == Spec => Atomic
<1>1. Init => Store!Init
  BY StoreConstants DEF Init, Store!Init, Down, Writing
<1>2. IInv /\ [Next]_vars => [Store!Next]_(Store!vars)
  <2> SUFFICES ASSUME IInv, [Next]_vars PROVE Store!Next \/ UNCHANGED Store!vars
    OBVIOUS
  <2>1. CASE Load
    <3>1. session.step \notin SavingSteps
      BY <2>1 DEF Load, Idle, SavingSteps
    <3> QED
      BY <2>1, <3>1, LoadMainReads, LoadAndSaveBegins DEF Load, Store!Next
  <2>2. CASE Start
    <3>1. session.step \notin SavingSteps
      BY <2>2 DEF Start, Down, SavingSteps
    <3>2. CASE session' = Idle /\ UNCHANGED <<disk, last, settled, undecided>>
      <4>1. Writing = None /\ Writing' = None
        BY <3>1, <3>2, NotSaving DEF Writing, Idle
      <4> QED
        BY <3>2, <4>1 DEF Store!vars
    <3> QED
      BY <2>2, <3>1, <3>2, LoadMainReads, LoadAndSaveBegins DEF Start, Store!Next
  <2>3. CASE Abandon
    <3>1. Writing = None /\ Writing' = None
      BY <2>3, NotSaving DEF Abandon, At, SavingSteps, Writing, Idle
    <3> QED
      BY <2>3, <3>1 DEF Abandon, Store!vars
  <2>4. CASE Mutate
    BY <2>4, MutateBegins DEF Store!Next
  <2>5. CASE Migrate
    BY <2>5, MigrateBegins DEF Store!Next
  <2>6. CASE Sync \/ WriteWAL \/ WriteBackup \/ WriteMain
    BY <2>6, WritesStutter
  <2>7. CASE RemoveWAL
    BY <2>7, RemoveWALAnswers DEF Store!Next
  <2>8. CASE WriteFails \/ Crash
    BY <2>8, EndsUndecided DEF WriteFails, Crash, Store!Next
  <2>9. CASE UNCHANGED vars
    BY <2>9 DEF vars, Store!vars, Writing
  <2> QED
    BY <2>1, <2>2, <2>3, <2>4, <2>5, <2>6, <2>7, <2>8, <2>9 DEF Next
<1> QED
  BY <1>1, <1>2, StoreInvariant, PTL DEF Spec, Atomic, Store!Spec
=============================================================================
