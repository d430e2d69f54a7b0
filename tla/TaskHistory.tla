---------------------------- MODULE TaskHistory ----------------------------
(***************************************************************************)
(* The history of one task (server/project_control.go): its events, phase  *)
(* attempts, tool runs and artifacts, of which every save keeps so many    *)
(* and counts the others in the task's memory (projectControlCompactState),*)
(* and a reader who turns the pages of the event list while that happens   *)
(* (eventsForUser).                                                        *)
(*                                                                         *)
(* The lists are sorted by time stamp, then id. Stamps are whole seconds,  *)
(* ids sort by what happened before when, a decision brings its own stamp  *)
(* and the clock may be set back: a new entry may sort anywhere. Its place *)
(* in that order is a number nobody else has.                              *)
(***************************************************************************)
EXTENDS Integers, FiniteSets

CONSTANTS
  Places,          \* bounds what can be recorded
  Ids,             \* of phase attempts and of tool runs
  Kinds,           \* of artifacts
  RetainedTaskEvents, RetainedTaskPhaseAttempts,
  RetainedTaskToolRuns, RetainedTaskArtifacts,
  PageLimit        \* entries of a page

ASSUME HistoryConstants ==
  /\ Places \subseteq Nat \ {0} /\ IsFiniteSet(Places)
  /\ Ids \subseteq Nat \ {0} /\ IsFiniteSet(Ids)
  /\ RetainedTaskEvents \in Nat /\ RetainedTaskPhaseAttempts \in Nat
  /\ RetainedTaskToolRuns \in Nat /\ RetainedTaskArtifacts \in Nat
  /\ PageLimit \in Nat \ {0}

VARIABLES
  events,     \* places of the events
  attempts,   \* phase attempts, with the artifacts they produced
  runs,       \* tool runs of them, with the artifact they produced (0: none)
  artifacts,
  memory,     \* how many of each were pruned, and the latest place of those
  made,       \* all that were ever recorded
  reader      \* of the event list

vars == <<events, attempts, runs, artifacts, memory, made, reader>>

Attempt == [id : Ids, place : Places \cup {0}, open : BOOLEAN, artifacts : SUBSET Places]
Run == [id : Ids, of : Ids, place : Places \cup {0}, open : BOOLEAN, artifact : Places \cup {0}]
Artifact == [place : Places, kind : Kinds]

Nobody == [cursor |-> 0, from |-> {}, seen |-> {}]

Init ==
  /\ events = {} /\ attempts = {} /\ runs = {} /\ artifacts = {}
  /\ memory = [events |-> 0, attempts |-> 0, runs |-> 0, artifacts |-> 0, end |-> 0]
  /\ made = [events |-> {}, attempts |-> {}, runs |-> {}, artifacts |-> {}]
  /\ reader = Nobody

-----------------------------------------------------------------------------
\* Compaction: what a save keeps.

Open(S) == {x \in S : x.open}
Closed(S) == S \ Open(S)

\* The n entries of S that sort last.
Newest(S, n) == {x \in S : Cardinality({y \in S : y.place > x.place}) < n}

KeptEvents(S) ==
  {e \in S : Cardinality({f \in S : f > e}) < RetainedTaskEvents}

\* An attempt or run that is under way is kept, and not counted.
KeptAttempts(S) == Open(S) \cup Newest(Closed(S), RetainedTaskPhaseAttempts)
KeptRuns(S) == Open(S) \cup Newest(Closed(S), RetainedTaskToolRuns)

LatestOfKind(S) == {a \in S : \A b \in S : b.kind = a.kind => b.place <= a.place}

\* Faulty variant: the artifacts of tool runs are not protected.
ProtectedByAttempts(S, ats, rs) ==
  LatestOfKind(S) \cup {a \in S : \E p \in ats : a.place \in p.artifacts}

\* projectControlProtectedArtifactIDs
Protected(S, ats, rs) ==
  LatestOfKind(S) \cup
  {a \in S : (\E p \in ats : a.place \in p.artifacts) \/ (\E r \in rs : r.artifact = a.place)}

\* projectControlCompactArtifacts: the oldest that are not protected go, as
\* many as are too many.
KeptArtifacts(S, ats, rs) ==
  LET prunable == S \ Protected(S, ats, rs)
      excess == Cardinality(S) - RetainedTaskArtifacts
  IN {a \in S : a \in prunable => Cardinality({b \in prunable : b.place < a.place}) >= excess}

Latest(S) == {m \in S : \A n \in S : n <= m}
PlacesOf(S) == {x.place : x \in S}

\* Faulty variant: the memory of the previous compaction is not loaded.
CountedAnew(n, before, kept) == Cardinality(before \ kept)

\* A counter of the memory after what is not kept of what was before.
Counted(n, before, kept) == n + Cardinality(before \ kept)

\* projectControlCompactState, with what there was before as arguments.
Compact(es, ats, rs, arts) ==
  LET keptAttempts == KeptAttempts(ats)
      keptRuns == KeptRuns(rs)
      keptArtifacts == KeptArtifacts(arts, keptAttempts, keptRuns)
      gone == (es \ KeptEvents(es)) \cup PlacesOf(ats \ keptAttempts)
              \cup PlacesOf(rs \ keptRuns) \cup PlacesOf(arts \ keptArtifacts)
  IN
  /\ events' = KeptEvents(es)
  /\ attempts' = keptAttempts
  /\ runs' = keptRuns
  /\ artifacts' = keptArtifacts
  /\ \E end \in Latest(gone \cup {memory.end}) :
       memory' = [events |-> Counted(memory.events, es, KeptEvents(es)),
                  attempts |-> Counted(memory.attempts, ats, keptAttempts),
                  runs |-> Counted(memory.runs, rs, keptRuns),
                  artifacts |-> Counted(memory.artifacts, arts, keptArtifacts),
                  end |-> end]

-----------------------------------------------------------------------------
\* The operations. Each records what it did as events, of which the model has
\* one, and is followed by a save. A place is free when nothing of its kind ever had it; when none is
\* left for an event, the bound of the instance, what follows records none.

Fresh(S) == Places \ S

NewEvents == IF Fresh(made.events) = {} THEN {{}} ELSE {{e} : e \in Fresh(made.events)}

\* The clock gives a run or an attempt that ends a place of its own.
FreshEnd(S) == Places \ PlacesOf(S)

\* Ids are told apart only: they are given in order.
NextId(S) == {i \in Ids \ S : \A j \in Ids \ S : i <= j}

Record ==
  /\ \E e \in Fresh(made.events) :
       /\ Compact(events \cup {e}, attempts, runs, artifacts)
       /\ made' = [made EXCEPT !.events = @ \cup {e}]
  /\ UNCHANGED reader

\* startProjectControlTaskPhase
StartPhase ==
  /\ Open(attempts) = {}
  /\ \E e \in NewEvents, i \in NextId(made.attempts) :
       /\ Compact(events \cup e,
                  attempts \cup {[id |-> i, place |-> 0, open |-> TRUE, artifacts |-> {}]},
                  runs, artifacts)
       /\ made' = [made EXCEPT !.events = @ \cup e, !.attempts = @ \cup {i}]
  /\ UNCHANGED reader

\* startProjectControlTaskPhaseTool
StartTool ==
  /\ \E e \in NewEvents, i \in NextId(made.runs), p \in Open(attempts) :
       /\ \A r \in Open(runs) : r.of # p.id
       /\ Compact(events \cup e, attempts,
                  runs \cup {[id |-> i, of |-> p.id, place |-> 0, open |-> TRUE, artifact |-> 0]},
                  artifacts)
       /\ made' = [made EXCEPT !.events = @ \cup e, !.runs = @ \cup {i}]
  /\ UNCHANGED reader

\* recordProjectControlPhaseArtifact: the attempt p with artifact a, closed
\* at the place end unless that is 0.
With(p, a, end) ==
  [p EXCEPT !.artifacts = @ \cup {a.place}, !.open = end = 0, !.place = end]

Closing(x, end) == [x EXCEPT !.open = FALSE, !.place = end]

\* Faulty variant: the copy is changed and appended.
ReplaceAppends(S, x, y) == S \cup {y}

Replace(S, x, y) == (S \ {x}) \cup {y}

MadeArtifact(e, a) ==
  made' = [made EXCEPT !.events = @ \cup e, !.artifacts = @ \cup {a}]

NewArtifacts == {a \in Artifact : a.place \in Fresh(PlacesOf(made.artifacts))}

\* completeProjectControlTaskPhase, failProjectControlTaskPhase
FinishPhase ==
  /\ \E e \in NewEvents, p \in Open(attempts), end \in FreshEnd(attempts) :
       \/ /\ Compact(events \cup e, Replace(attempts, p, Closing(p, end)), runs, artifacts)
          /\ made' = [made EXCEPT !.events = @ \cup e]
       \/ \E a \in NewArtifacts :
            /\ Compact(events \cup e, Replace(attempts, p, With(p, a, end)), runs,
                       artifacts \cup {a})
            /\ MadeArtifact(e, a)
  /\ UNCHANGED reader

\* applyProjectControlToolResult: the artifact goes to the attempt, which
\* stays open or is closed by it, and to the run.
ApplyToolResult ==
  /\ \E e \in NewEvents, r \in Open(runs), p \in Open(attempts),
        a \in NewArtifacts, ended \in FreshEnd(runs), end \in FreshEnd(attempts) \cup {0} :
       /\ Compact(events \cup e, Replace(attempts, p, With(p, a, end)),
                  Replace(runs, r, [Closing(r, ended) EXCEPT !.artifact = a.place]),
                  artifacts \cup {a})
       /\ MadeArtifact(e, a)
  /\ UNCHANGED reader

\* A tool that fails, or whose attempt is over, leaves no artifact.
FailTool ==
  /\ \E e \in NewEvents, r \in Open(runs), ended \in FreshEnd(runs) :
       /\ Compact(events \cup e, attempts, Replace(runs, r, Closing(r, ended)), artifacts)
       /\ made' = [made EXCEPT !.events = @ \cup e]
  /\ UNCHANGED reader

\* agentSubmitArtifact of a durable checkpoint, which belongs to no attempt.
SaveCheckpoint ==
  /\ \E e \in NewEvents, a \in NewArtifacts :
       /\ Compact(events \cup e, attempts, runs, artifacts \cup {a})
       /\ MadeArtifact(e, a)
  /\ UNCHANGED reader

-----------------------------------------------------------------------------
\* Reading, newest entries first. The memory is shown as one more event, just
\* after the latest entry it counts; entry 2p is the event at place p.

Remembers == memory.events + memory.attempts + memory.runs + memory.artifacts > 0

Entries == {2 * p : p \in events} \cup (IF Remembers THEN {2 * memory.end + 1} ELSE {})

\* The PageLimit newest entries of S.
Page(S) == {x \in S : Cardinality({y \in S : y > x}) < PageLimit}

\* Faulty variant: the cursor is the first entry that did not fit.
CursorBeyond(S) ==
  IF Page(S) = S THEN {0} ELSE {x \in S \ Page(S) : \A y \in S \ Page(S) : y <= x}

\* The last entry of a page that has a next one; 0 when it is the last page.
Cursor(S) ==
  IF Page(S) = S THEN {0} ELSE {x \in Page(S) : \A y \in Page(S) : x <= y}

\* eventsForUser without a cursor.
OpenList ==
  /\ reader.cursor = 0
  /\ \E c \in Cursor(Entries) :
       reader' = [cursor |-> c, from |-> Entries, seen |-> Page(Entries)]
  /\ UNCHANGED <<events, attempts, runs, artifacts, memory, made>>

Unread == {x \in Entries : x < reader.cursor}

\* eventsForUser with the cursor of the page before.
TurnPage ==
  /\ reader.cursor # 0
  /\ \E c \in Cursor(Unread) :
       reader' = [reader EXCEPT !.cursor = c, !.seen = @ \cup Page(Unread)]
  /\ UNCHANGED <<events, attempts, runs, artifacts, memory, made>>

-----------------------------------------------------------------------------
Next ==
  \/ Record \/ StartPhase \/ StartTool \/ FinishPhase
  \/ ApplyToolResult \/ FailTool \/ SaveCheckpoint
  \/ OpenList \/ TurnPage

Spec == Init /\ [][Next]_vars

-----------------------------------------------------------------------------
\* Properties.

\* Types; also, that all that is kept was recorded, once, and that an attempt
\* or run is under way or has an end.
TypeOK ==
  /\ made \in [events : SUBSET Places, attempts : SUBSET Ids, runs : SUBSET Ids,
               artifacts : SUBSET Artifact]
  /\ events \subseteq made.events /\ artifacts \subseteq made.artifacts
  /\ attempts \subseteq Attempt /\ runs \subseteq Run
  /\ \A p \in attempts : p.id \in made.attempts /\ (p.open <=> p.place = 0)
  /\ \A r \in runs : r.id \in made.runs /\ (r.open <=> r.place = 0)
  /\ \A p, q \in attempts : p.id = q.id => p = q
  /\ \A r, q \in runs : r.id = q.id => r = q
  /\ memory \in [events : Nat, attempts : Nat, runs : Nat, artifacts : Nat,
                 end : Places \cup {0}]
  /\ reader \in [cursor : Nat, from : SUBSET Nat, seen : SUBSET Nat]

\* What the task's memory counts and what is kept are together all that was
\* ever recorded: however often the history is compacted, in whatever order
\* its entries come, none is dropped uncounted and none is counted twice
\* (projectControlCompactEvents and its three siblings).
NothingUncounted ==
  /\ memory.events + Cardinality(events) = Cardinality(made.events)
  /\ memory.attempts + Cardinality(attempts) = Cardinality(made.attempts)
  /\ memory.runs + Cardinality(runs) = Cardinality(made.runs)
  /\ memory.artifacts + Cardinality(artifacts) = Cardinality(made.artifacts)

\* A phase attempt or tool run that is kept finds every artifact it produced
\* (attempts and runs are compacted before the artifacts, and protect theirs:
\* projectControlProtectedArtifactIDs), and the newest artifact ever recorded
\* of each kind is kept: acceptance looks for evidence of every kind the
\* runbook asks for, long after the attempts that produced it are pruned.
EvidenceKept ==
  /\ \A p \in attempts : p.artifacts \subseteq PlacesOf(artifacts)
  /\ \A r \in runs : r.artifact \in PlacesOf(artifacts) \cup {0}
  /\ LatestOfKind(made.artifacts) \subseteq artifacts

\* A reader who turns the pages sees every entry that was there when the list
\* was opened, and still is, exactly once, whatever is recorded and pruned
\* between two pages: the cursor is the line between what has been seen and
\* what has not.
PagesMeet ==
  \A x \in reader.from \cap Entries :
    IF reader.cursor = 0 THEN x \in reader.seen
    ELSE x \in reader.seen <=> x >= reader.cursor
=============================================================================
