------------------------- MODULE TaskHistoryProofs -------------------------
(***************************************************************************)
(* Proofs about TaskHistory, for any places, ids, kinds, retained numbers  *)
(* and page size.                                                          *)
(*                                                                         *)
(* Every operation first changes the lists and then compacts them. The     *)
(* argument is in these two halves: Consistent says of any lists what the  *)
(* invariant says of the kept ones, an operation's lists are consistent    *)
(* with what it has made (one lemma each), and compaction keeps that       *)
(* (CompactKeeps). The reader depends only on what a save does to the      *)
(* entries it may come back to (CompactUnderReader).                       *)
(***************************************************************************)
EXTENDS TaskHistory, FiniteSetTheorems, TLAPS

\* What TypeOK, NothingUncounted and EvidenceKept say, of any lists and any
\* record m of what was made.
EventsOK(es, m) ==
  /\ m.events \subseteq Places /\ es \subseteq m.events
  /\ memory.events + Cardinality(es) = Cardinality(m.events)

AttemptsOK(ats, m) ==
  /\ m.attempts \subseteq Ids /\ ats \subseteq Attempt /\ IsFiniteSet(ats)
  /\ \A p \in ats : p.id \in m.attempts /\ (p.open <=> p.place = 0)
  /\ \A p, q \in ats : p.id = q.id => p = q
  /\ memory.attempts + Cardinality(ats) = Cardinality(m.attempts)

RunsOK(rs, m) ==
  /\ m.runs \subseteq Ids /\ rs \subseteq Run /\ IsFiniteSet(rs)
  /\ \A r \in rs : r.id \in m.runs /\ (r.open <=> r.place = 0)
  /\ \A r, q \in rs : r.id = q.id => r = q
  /\ memory.runs + Cardinality(rs) = Cardinality(m.runs)

ArtifactsOK(arts, m) ==
  /\ m.artifacts \subseteq Artifact /\ IsFiniteSet(m.artifacts) /\ arts \subseteq m.artifacts
  /\ memory.artifacts + Cardinality(arts) = Cardinality(m.artifacts)
  /\ LatestOfKind(m.artifacts) \subseteq arts

EvidenceOK(ats, rs, arts) ==
  /\ \A p \in ats : p.artifacts \subseteq PlacesOf(arts)
  /\ \A r \in rs : r.artifact \in PlacesOf(arts) \cup {0}

Consistent(es, ats, rs, arts, m) ==
  /\ EventsOK(es, m) /\ AttemptsOK(ats, m) /\ RunsOK(rs, m) /\ ArtifactsOK(arts, m)
  /\ EvidenceOK(ats, rs, arts)

MemoryOK ==
  memory \in [events : Nat, attempts : Nat, runs : Nat, artifacts : Nat,
              end : Places \cup {0}]

\* Whatever the reader started from was made before it, or is a memory
\* that has not moved back since.
ReaderOK ==
  /\ reader \in [cursor : Nat, from : SUBSET Nat, seen : SUBSET Nat]
  /\ \A x \in reader.from :
       \/ \E p \in made.events : x = 2 * p
       \/ \E p \in Nat : x = 2 * p + 1 /\ p <= memory.end /\ Remembers

LEMMA EndIsPlace ==
  ASSUME NEW mem, mem \in [events : Nat, attempts : Nat, runs : Nat, artifacts : Nat,
                           end : Places \cup {0}]
  PROVE  mem.end \in Nat
<1>1. \A place \in Places \cup {0} : place \in Nat
  BY HistoryConstants
<1>2. mem.end \in Places \cup {0}
  OBVIOUS
<1> QED
  BY <1>1, <1>2, Zenon

MadeOK ==
  made \in [events : SUBSET Places, attempts : SUBSET Ids, runs : SUBSET Ids,
            artifacts : SUBSET Artifact]

History == MemoryOK /\ MadeOK /\ Consistent(events, attempts, runs, artifacts, made)

IInv == History /\ ReaderOK /\ PagesMeet

-----------------------------------------------------------------------------
\* Sets and their sizes.

LEMMA ConstantsOK ==
  /\ Places \subseteq Nat \ {0} /\ IsFiniteSet(Places) /\ IsFiniteSet(Ids)
  /\ Ids \subseteq Nat /\ PageLimit \in Nat \ {0}
BY HistoryConstants

\* What is dropped and what is kept of a finite set are together the set.
LEMMA CountSplit ==
  ASSUME NEW S, IsFiniteSet(S), NEW K \in SUBSET S
  PROVE  /\ Cardinality(S \ K) \in Nat /\ Cardinality(K) \in Nat
         /\ Cardinality(S \ K) + Cardinality(K) = Cardinality(S)
         /\ Cardinality(S) \in Nat
         /\ IsFiniteSet(K)
<1>1. /\ IsFiniteSet(S \ K) /\ IsFiniteSet(K)
      /\ Cardinality(S \ K) = Cardinality(S) - Cardinality(S \cap K)
  BY FS_Difference, FS_Subset
<1>2. S \cap K = K
  OBVIOUS
<1>3. /\ Cardinality(S \ K) \in Nat /\ Cardinality(K) \in Nat /\ Cardinality(S) \in Nat
  BY <1>1, FS_CardinalityType
<1> QED
  BY <1>1, <1>2, <1>3

LEMMA CountKept ==
  ASSUME NEW n \in Nat, NEW dropped \in Nat, NEW kept \in Nat,
         NEW all, dropped + kept = all, NEW recorded, n + all = recorded,
         NEW after, after = n + dropped
  PROVE  after + kept = recorded
OBVIOUS

\* A set and a larger one grow alike by what is in neither.
LEMMA CountGrow ==
  ASSUME NEW S, NEW T, NEW n \in Nat, IsFiniteSet(T), S \subseteq T,
         n + Cardinality(S) = Cardinality(T),
         NEW x, x \notin T
  PROVE  /\ n + Cardinality(S \cup {x}) = Cardinality(T \cup {x})
         /\ IsFiniteSet(T \cup {x})
<1>1. IsFiniteSet(S) /\ Cardinality(S) \in Nat /\ Cardinality(T) \in Nat
  BY FS_Subset, FS_CardinalityType
<1>2. /\ Cardinality(S \cup {x}) = Cardinality(S) + 1
      /\ Cardinality(T \cup {x}) = Cardinality(T) + 1 /\ IsFiniteSet(T \cup {x})
  BY <1>1, FS_AddElement
<1> QED
  BY <1>1, <1>2

LEMMA CountReplace ==
  ASSUME NEW S, IsFiniteSet(S), NEW x \in S, NEW y, y \notin S \ {x}
  PROVE  /\ IsFiniteSet(Replace(S, x, y))
         /\ Cardinality(Replace(S, x, y)) = Cardinality(S)
<1>1. Cardinality(S) \in Nat
  BY FS_CardinalityType
<1>2. IsFiniteSet(S \ {x}) /\ Cardinality(S \ {x}) = Cardinality(S) - 1
  BY FS_RemoveElement
<1>3. /\ IsFiniteSet((S \ {x}) \cup {y})
      /\ Cardinality((S \ {x}) \cup {y}) = Cardinality(S \ {x}) + 1
  BY <1>2, FS_AddElement
<1> QED
  BY <1>1, <1>2, <1>3 DEF Replace

-----------------------------------------------------------------------------
\* Compaction.

\* The memory counts what the lists lost and ends with one of their places.
MemoryGrows(es, ats, rs, arts, end) ==
  /\ end \in es \cup PlacesOf(ats) \cup PlacesOf(rs) \cup PlacesOf(arts) \cup {memory.end}
  /\ memory.end <= end
  /\ memory' = [events |-> memory.events + Cardinality(es \ events'),
                attempts |-> memory.attempts + Cardinality(ats \ attempts'),
                runs |-> memory.runs + Cardinality(rs \ runs'),
                artifacts |-> memory.artifacts + Cardinality(arts \ artifacts'),
                end |-> end]

\* What compaction keeps of the lists, and how the memory grows.
LEMMA CompactShrinks ==
  ASSUME NEW es, NEW ats, NEW rs, NEW arts, Compact(es, ats, rs, arts)
  PROVE  /\ events' \subseteq es /\ attempts' \subseteq ats
         /\ runs' \subseteq rs /\ artifacts' \subseteq arts
         /\ \E end : MemoryGrows(es, ats, rs, arts, end)
<1>1. /\ events' = KeptEvents(es) /\ attempts' = KeptAttempts(ats)
      /\ runs' = KeptRuns(rs) /\ artifacts' = KeptArtifacts(arts, attempts', runs')
  BY DEF Compact
<1>2. /\ events' \subseteq es /\ attempts' \subseteq ats
      /\ runs' \subseteq rs /\ artifacts' \subseteq arts
  BY <1>1 DEF KeptEvents, KeptAttempts, KeptRuns, KeptArtifacts, Open, Closed, Newest
<1> QED
  BY <1>1, <1>2 DEF Compact, Counted, Latest, PlacesOf, MemoryGrows

\* The memory after compacting consistent lists.
LEMMA CompactMemory ==
  ASSUME NEW es, NEW ats, NEW rs, NEW arts, NEW m,
         MemoryOK, Consistent(es, ats, rs, arts, m), Compact(es, ats, rs, arts)
  PROVE  /\ MemoryOK' /\ memory.end <= memory'.end
         /\ memory'.events + Cardinality(events') = Cardinality(m.events)
         /\ memory'.attempts + Cardinality(attempts') = Cardinality(m.attempts)
         /\ memory'.runs + Cardinality(runs') = Cardinality(m.runs)
         /\ memory'.artifacts + Cardinality(artifacts') = Cardinality(m.artifacts)
         /\ Remembers => Remembers'
<1>1. /\ IsFiniteSet(es) /\ IsFiniteSet(ats) /\ IsFiniteSet(rs) /\ IsFiniteSet(arts)
  <2>1. IsFiniteSet(m.events)
    BY ConstantsOK, FS_Subset DEF Consistent, EventsOK, AttemptsOK, RunsOK, ArtifactsOK, EvidenceOK
  <2> QED
    BY <2>1, FS_Subset DEF Consistent, EventsOK, AttemptsOK, RunsOK, ArtifactsOK, EvidenceOK
<1>2. /\ events' \in SUBSET es /\ attempts' \in SUBSET ats
      /\ runs' \in SUBSET rs /\ artifacts' \in SUBSET arts
  BY CompactShrinks
<1>3. PICK end : MemoryGrows(es, ats, rs, arts, end)
  BY CompactShrinks
<1>4. end \in Places \cup {0}
  <2>1. PlacesOf(ats) \subseteq Places \cup {0}
    BY DEF Consistent, EventsOK, AttemptsOK, RunsOK, ArtifactsOK, EvidenceOK, Attempt, PlacesOf
  <2>2. PlacesOf(rs) \subseteq Places \cup {0}
    BY DEF Consistent, EventsOK, AttemptsOK, RunsOK, ArtifactsOK, EvidenceOK, Run, PlacesOf
  <2>3. PlacesOf(arts) \subseteq Places
    BY DEF Consistent, EventsOK, AttemptsOK, RunsOK, ArtifactsOK, EvidenceOK, Artifact, PlacesOf
  <2>4. es \subseteq Places /\ memory.end \in Places \cup {0}
    BY DEF Consistent, EventsOK, AttemptsOK, RunsOK, ArtifactsOK, EvidenceOK, MemoryOK
  <2> QED
    BY <1>3, <2>1, <2>2, <2>3, <2>4 DEF MemoryGrows
<1>5. /\ Cardinality(es \ events') \in Nat /\ Cardinality(events') \in Nat
      /\ Cardinality(es \ events') + Cardinality(events') = Cardinality(es)
      /\ Cardinality(es) \in Nat
  BY <1>1, <1>2, CountSplit
<1>6. /\ Cardinality(ats \ attempts') \in Nat /\ Cardinality(attempts') \in Nat
      /\ Cardinality(ats \ attempts') + Cardinality(attempts') = Cardinality(ats)
      /\ Cardinality(ats) \in Nat
  BY <1>1, <1>2, CountSplit
<1>7. /\ Cardinality(rs \ runs') \in Nat /\ Cardinality(runs') \in Nat
      /\ Cardinality(rs \ runs') + Cardinality(runs') = Cardinality(rs)
      /\ Cardinality(rs) \in Nat
  BY <1>1, <1>2, CountSplit
<1>8. /\ Cardinality(arts \ artifacts') \in Nat /\ Cardinality(artifacts') \in Nat
      /\ Cardinality(arts \ artifacts') + Cardinality(artifacts') = Cardinality(arts)
      /\ Cardinality(arts) \in Nat
  BY <1>1, <1>2, CountSplit
<1>9. /\ memory'.events = memory.events + Cardinality(es \ events')
      /\ memory'.attempts = memory.attempts + Cardinality(ats \ attempts')
      /\ memory'.runs = memory.runs + Cardinality(rs \ runs')
      /\ memory'.artifacts = memory.artifacts + Cardinality(arts \ artifacts')
      /\ memory'.end = end /\ memory.end <= end
  BY <1>3 DEF MemoryGrows
<1>10. MemoryOK'
  BY <1>3, <1>4, <1>5, <1>6, <1>7, <1>8 DEF MemoryOK, MemoryGrows
<1>11. /\ memory.events \in Nat /\ memory.attempts \in Nat /\ memory.runs \in Nat
       /\ memory.artifacts \in Nat
  BY DEF MemoryOK
<1>12. Remembers => Remembers'
  BY <1>5, <1>6, <1>7, <1>8, <1>9, <1>11 DEF Remembers
<1>13. /\ memory.events + Cardinality(es) = Cardinality(m.events)
       /\ memory.attempts + Cardinality(ats) = Cardinality(m.attempts)
       /\ memory.runs + Cardinality(rs) = Cardinality(m.runs)
       /\ memory.artifacts + Cardinality(arts) = Cardinality(m.artifacts)
  BY DEF Consistent, EventsOK, AttemptsOK, RunsOK, ArtifactsOK, EvidenceOK
<1>14. memory'.events + Cardinality(events') = Cardinality(m.events)
  BY <1>5, <1>9, <1>11, <1>13, CountKept
<1>15. memory'.attempts + Cardinality(attempts') = Cardinality(m.attempts)
  <2>1. /\ memory'.attempts = memory.attempts + Cardinality(ats \ attempts')
        /\ memory.attempts \in Nat
        /\ memory.attempts + Cardinality(ats) = Cardinality(m.attempts)
    BY <1>9, <1>11, <1>13
  <2> QED
    BY <2>1, <1>6
<1>16. memory'.runs + Cardinality(runs') = Cardinality(m.runs)
  BY <1>7, <1>9, <1>11, <1>13, CountKept
<1>17. memory'.artifacts + Cardinality(artifacts') = Cardinality(m.artifacts)
  BY <1>8, <1>9, <1>11, <1>13, CountKept
<1> QED
  BY <1>9, <1>10, <1>12, <1>14, <1>15, <1>16, <1>17

\* What the kept attempts and runs produced is kept, and so is the newest
\* artifact of each kind.
LEMMA CompactEvidence ==
  ASSUME NEW es, NEW ats, NEW rs, NEW arts, NEW m,
         Consistent(es, ats, rs, arts, m), Compact(es, ats, rs, arts)
  PROVE  /\ \A p \in attempts' : p.artifacts \subseteq PlacesOf(artifacts')
         /\ \A r \in runs' : r.artifact \in PlacesOf(artifacts') \cup {0}
         /\ LatestOfKind(m.artifacts) \subseteq artifacts'
<1>1. artifacts' = KeptArtifacts(arts, attempts', runs')
  BY DEF Compact
<1>2. Protected(arts, attempts', runs') \cap arts \subseteq artifacts'
  BY <1>1 DEF KeptArtifacts
<1>3. attempts' \subseteq ats /\ runs' \subseteq rs
  BY CompactShrinks
<1>4. \A p \in attempts' : p.artifacts \subseteq PlacesOf(artifacts')
  <2> SUFFICES ASSUME NEW p \in attempts', NEW e \in p.artifacts
               PROVE  e \in PlacesOf(artifacts')
    OBVIOUS
  <2>1. PICK a \in arts : a.place = e
    BY <1>3 DEF Consistent, EventsOK, AttemptsOK, RunsOK, ArtifactsOK, EvidenceOK, PlacesOf
  <2>2. a \in artifacts'
    BY <1>2, <2>1 DEF Protected
  <2> QED
    BY <2>1, <2>2 DEF PlacesOf
<1>5. \A r \in runs' : r.artifact \in PlacesOf(artifacts') \cup {0}
  <2> SUFFICES ASSUME NEW r \in runs', r.artifact # 0
               PROVE  r.artifact \in PlacesOf(artifacts')
    OBVIOUS
  <2>1. PICK a \in arts : a.place = r.artifact
    BY <1>3 DEF Consistent, EventsOK, AttemptsOK, RunsOK, ArtifactsOK, EvidenceOK, PlacesOf
  <2>2. a \in artifacts'
    BY <1>2, <2>1 DEF Protected
  <2> QED
    BY <2>1, <2>2 DEF PlacesOf
<1>6. LatestOfKind(m.artifacts) \subseteq LatestOfKind(arts)
  BY DEF Consistent, EventsOK, AttemptsOK, RunsOK, ArtifactsOK, EvidenceOK, LatestOfKind
<1>7. LatestOfKind(m.artifacts) \subseteq artifacts'
  BY <1>2, <1>6 DEF Protected, Consistent, EventsOK, AttemptsOK, RunsOK, ArtifactsOK, EvidenceOK
<1> QED
  BY <1>4, <1>5, <1>7

\* Compaction keeps consistent lists consistent.
LEMMA CompactKeeps ==
  ASSUME NEW es, NEW ats, NEW rs, NEW arts,
         MemoryOK, MadeOK', Consistent(es, ats, rs, arts, made'), Compact(es, ats, rs, arts)
  PROVE  History'
<1>1. /\ events' \subseteq es /\ attempts' \subseteq ats
      /\ runs' \subseteq rs /\ artifacts' \subseteq arts
  BY CompactShrinks
<1>2. IsFiniteSet(attempts') /\ IsFiniteSet(runs')
  BY <1>1, FS_Subset DEF Consistent, EventsOK, AttemptsOK, RunsOK, ArtifactsOK, EvidenceOK
<1>3. /\ MemoryOK'
      /\ memory'.events + Cardinality(events') = Cardinality(made'.events)
      /\ memory'.attempts + Cardinality(attempts') = Cardinality(made'.attempts)
      /\ memory'.runs + Cardinality(runs') = Cardinality(made'.runs)
      /\ memory'.artifacts + Cardinality(artifacts') = Cardinality(made'.artifacts)
  BY CompactMemory
<1>4. /\ \A p \in attempts' : p.artifacts \subseteq PlacesOf(artifacts')
      /\ \A r \in runs' : r.artifact \in PlacesOf(artifacts') \cup {0}
      /\ LatestOfKind(made'.artifacts) \subseteq artifacts'
  BY CompactEvidence
<1>5. PlacesOf(artifacts)' = PlacesOf(artifacts')
      /\ LatestOfKind(made.artifacts)' = LatestOfKind(made'.artifacts)
  BY DEF PlacesOf, LatestOfKind
<1> QED
  BY <1>1, <1>2, <1>3, <1>4, <1>5 DEF History, Consistent, EventsOK, AttemptsOK, RunsOK, ArtifactsOK, EvidenceOK

-----------------------------------------------------------------------------
\* What the operations do to the lists.

LEMMA EventsGrow ==
  ASSUME MemoryOK, EventsOK(events, made), NEW e \in NewEvents,
         NEW m, m.events = made.events \cup e
  PROVE  EventsOK(events \cup e, m)
<1>1. CASE e = {}
  BY <1>1 DEF EventsOK
<1>2. CASE \E x \in Fresh(made.events) : e = {x}
  <2>1. PICK x \in Fresh(made.events) : e = {x}
    BY <1>2
  <2>2. IsFiniteSet(made.events)
    BY ConstantsOK, FS_Subset DEF EventsOK
  <2>3. memory.events \in Nat
    BY DEF MemoryOK
  <2>4. memory.events + Cardinality(events \cup {x}) = Cardinality(made.events \cup {x})
    <3>1. /\ events \subseteq made.events /\ x \notin made.events
          /\ memory.events + Cardinality(events) = Cardinality(made.events)
      BY DEF EventsOK, Fresh
    <3> QED
      BY <2>2, <2>3, <3>1, CountGrow
  <2> QED
    BY <2>1, <2>4 DEF EventsOK, Fresh
<1> QED
  BY <1>1, <1>2 DEF NewEvents

LEMMA LatestGrows ==
  ASSUME NEW S, NEW a
  PROVE  LatestOfKind(S \cup {a}) \subseteq LatestOfKind(S) \cup {a}
BY DEF LatestOfKind

LEMMA ArtifactsGrow ==
  ASSUME MemoryOK, ArtifactsOK(artifacts, made), NEW a \in NewArtifacts,
         NEW m, m.artifacts = made.artifacts \cup {a}
  PROVE  ArtifactsOK(artifacts \cup {a}, m)
<1>1. a \in Artifact /\ a \notin made.artifacts
  BY DEF NewArtifacts, Fresh, PlacesOf
<1>2. memory.artifacts \in Nat
  BY DEF MemoryOK
<1>3. /\ memory.artifacts + Cardinality(artifacts \cup {a}) = Cardinality(m.artifacts)
      /\ IsFiniteSet(m.artifacts)
  <2>1. /\ IsFiniteSet(made.artifacts) /\ artifacts \subseteq made.artifacts
        /\ memory.artifacts + Cardinality(artifacts) = Cardinality(made.artifacts)
    BY DEF ArtifactsOK
  <2>2. /\ memory.artifacts + Cardinality(artifacts \cup {a})
             = Cardinality(made.artifacts \cup {a})
        /\ IsFiniteSet(made.artifacts \cup {a})
    BY <1>1, <1>2, <2>1, CountGrow
  <2> QED
    BY <2>2
<1>4. LatestOfKind(m.artifacts) \subseteq LatestOfKind(made.artifacts) \cup {a}
  BY LatestGrows
<1> QED
  BY <1>1, <1>3, <1>4 DEF ArtifactsOK

LEMMA AttemptReplaced ==
  ASSUME AttemptsOK(attempts, made), NEW p \in attempts, NEW q \in Attempt,
         q.id = p.id, q.open <=> q.place = 0,
         NEW m, m.attempts = made.attempts
  PROVE  AttemptsOK(Replace(attempts, p, q), m)
<1>1. q \notin attempts \ {p}
  BY DEF AttemptsOK
<1>2. /\ IsFiniteSet(Replace(attempts, p, q))
      /\ Cardinality(Replace(attempts, p, q)) = Cardinality(attempts)
  BY <1>1, CountReplace DEF AttemptsOK
<1> QED
  BY <1>2 DEF AttemptsOK, Replace

LEMMA RunReplaced ==
  ASSUME RunsOK(runs, made), NEW r \in runs, NEW q \in Run,
         q.id = r.id, q.open <=> q.place = 0,
         NEW m, m.runs = made.runs
  PROVE  RunsOK(Replace(runs, r, q), m)
<1>1. q \notin runs \ {r}
  BY DEF RunsOK
<1>2. /\ IsFiniteSet(Replace(runs, r, q))
      /\ Cardinality(Replace(runs, r, q)) = Cardinality(runs)
  BY <1>1, CountReplace DEF RunsOK
<1> QED
  BY <1>2 DEF RunsOK, Replace

LEMMA AttemptStarted ==
  ASSUME MemoryOK, AttemptsOK(attempts, made), NEW i \in NextId(made.attempts),
         NEW p \in Attempt, p.id = i, p.open, p.place = 0,
         NEW m, m.attempts = made.attempts \cup {i}
  PROVE  AttemptsOK(attempts \cup {p}, m)
<1>1. i \in Ids \ made.attempts /\ p \notin attempts
  BY DEF AttemptsOK, NextId
<1>2. IsFiniteSet(made.attempts) /\ memory.attempts \in Nat
  BY ConstantsOK, FS_Subset DEF AttemptsOK, MemoryOK
<1>3. /\ memory.attempts + Cardinality(attempts \cup {p}) = Cardinality(m.attempts)
      /\ IsFiniteSet(attempts \cup {p})
  <2>1. /\ IsFiniteSet(attempts)
        /\ memory.attempts + Cardinality(attempts) = Cardinality(made.attempts)
    BY DEF AttemptsOK
  <2>2. Cardinality(attempts \cup {p}) = Cardinality(attempts) + 1 /\ IsFiniteSet(attempts \cup {p})
    BY <1>1, <2>1, FS_AddElement
  <2>3. Cardinality(made.attempts \cup {i}) = Cardinality(made.attempts) + 1
    BY <1>1, <1>2, FS_AddElement
  <2>4. Cardinality(attempts) \in Nat /\ Cardinality(made.attempts) \in Nat
    BY <1>2, <2>1, FS_CardinalityType
  <2> QED
    BY <1>2, <2>1, <2>2, <2>3, <2>4
<1> QED
  BY <1>1, <1>3 DEF AttemptsOK

LEMMA RunStarted ==
  ASSUME MemoryOK, RunsOK(runs, made), NEW i \in NextId(made.runs),
         NEW r \in Run, r.id = i, r.open, r.place = 0,
         NEW m, m.runs = made.runs \cup {i}
  PROVE  RunsOK(runs \cup {r}, m)
<1>1. i \in Ids \ made.runs /\ r \notin runs
  BY DEF RunsOK, NextId
<1>2. IsFiniteSet(made.runs) /\ memory.runs \in Nat
  BY ConstantsOK, FS_Subset DEF RunsOK, MemoryOK
<1>3. /\ memory.runs + Cardinality(runs \cup {r}) = Cardinality(m.runs)
      /\ IsFiniteSet(runs \cup {r})
  <2>1. /\ IsFiniteSet(runs)
        /\ memory.runs + Cardinality(runs) = Cardinality(made.runs)
    BY DEF RunsOK
  <2>2. Cardinality(runs \cup {r}) = Cardinality(runs) + 1 /\ IsFiniteSet(runs \cup {r})
    BY <1>1, <2>1, FS_AddElement
  <2>3. Cardinality(made.runs \cup {i}) = Cardinality(made.runs) + 1
    BY <1>1, <1>2, FS_AddElement
  <2>4. Cardinality(runs) \in Nat /\ Cardinality(made.runs) \in Nat
    BY <1>2, <2>1, FS_CardinalityType
  <2> QED
    BY <1>2, <2>1, <2>2, <2>3, <2>4
<1> QED
  BY <1>1, <1>3 DEF RunsOK

\* What does not change stays as it is.
LEMMA ListsUnchanged ==
  ASSUME NEW m, NEW ats, NEW rs, NEW arts
  PROVE  /\ AttemptsOK(ats, made) /\ m.attempts = made.attempts => AttemptsOK(ats, m)
         /\ RunsOK(rs, made) /\ m.runs = made.runs => RunsOK(rs, m)
         /\ ArtifactsOK(arts, made) /\ m.artifacts = made.artifacts => ArtifactsOK(arts, m)
BY DEF AttemptsOK, RunsOK, ArtifactsOK

-----------------------------------------------------------------------------
\* Each operation keeps History: what it compacts is consistent with what it
\* has made.

Recording == [events : SUBSET Places, attempts : SUBSET Ids, runs : SUBSET Ids,
              artifacts : SUBSET Artifact]

\* What a save means for someone who reads meanwhile.
Forward ==
  /\ memory.end <= memory'.end /\ (Remembers => Remembers')
  /\ \E e \in NewEvents :
       events' \subseteq events \cup e /\ made'.events = made.events \cup e

LEMMA Saved ==
  ASSUME History, made' \in Recording,
         NEW e \in NewEvents, made'.events = made.events \cup e,
         NEW ats, NEW rs, NEW arts, Compact(events \cup e, ats, rs, arts),
         AttemptsOK(ats, made'), RunsOK(rs, made'), ArtifactsOK(arts, made'),
         EvidenceOK(ats, rs, arts)
  PROVE  History' /\ Forward
<1>1. MadeOK'
  BY DEF MadeOK, Recording
<1>2. EventsOK(events \cup e, made')
  BY EventsGrow DEF History, Consistent
<1>3. Consistent(events \cup e, ats, rs, arts, made')
  BY <1>2 DEF Consistent
<1>4. memory.end <= memory'.end /\ (Remembers => Remembers')
  BY <1>3, CompactMemory DEF History
<1>5. events' \subseteq events \cup e
  BY CompactShrinks
<1> QED
  BY <1>1, <1>3, <1>4, <1>5, CompactKeeps DEF History, Forward

LEMMA RecordStep ==
  ASSUME History, Record
  PROVE  History' /\ Forward
<1>1. PICK x \in Fresh(made.events) :
        /\ Compact(events \cup {x}, attempts, runs, artifacts)
        /\ made' = [made EXCEPT !.events = @ \cup {x}]
  BY DEF Record
<1>2. {x} \in NewEvents
  BY DEF NewEvents
<1>3. /\ made' \in Recording /\ made'.events = made.events \cup {x}
      /\ made'.attempts = made.attempts /\ made'.runs = made.runs
      /\ made'.artifacts = made.artifacts
  BY <1>1 DEF History, MadeOK, Recording, Fresh
<1>4. /\ AttemptsOK(attempts, made') /\ RunsOK(runs, made')
      /\ ArtifactsOK(artifacts, made')
  BY <1>3, ListsUnchanged DEF History, Consistent
<1> QED
  BY <1>1, <1>2, <1>3, <1>4, Saved DEF History, Consistent

LEMMA StartPhaseStep ==
  ASSUME History, StartPhase
  PROVE  History' /\ Forward
<1>1. PICK e \in NewEvents, i \in NextId(made.attempts) :
        /\ Compact(events \cup e,
                   attempts \cup {[id |-> i, place |-> 0, open |-> TRUE, artifacts |-> {}]},
                   runs, artifacts)
        /\ made' = [made EXCEPT !.events = @ \cup e, !.attempts = @ \cup {i}]
  BY DEF StartPhase
<1> DEFINE p == [id |-> i, place |-> 0, open |-> TRUE, artifacts |-> {}]
<1>2. p \in Attempt /\ p.id = i /\ p.open /\ p.place = 0 /\ p.artifacts = {}
  BY DEF Attempt, NextId
<1>3. /\ made' \in Recording /\ made'.events = made.events \cup e
      /\ made'.attempts = made.attempts \cup {i} /\ made'.runs = made.runs
      /\ made'.artifacts = made.artifacts
  BY <1>1 DEF History, MadeOK, Recording, NewEvents, Fresh, NextId
<1>4. Compact(events \cup e, attempts \cup {p}, runs, artifacts)
  BY <1>1
<1> HIDE DEF p
<1>5. AttemptsOK(attempts \cup {p}, made')
  BY <1>2, <1>3, AttemptStarted DEF History, Consistent
<1>6. RunsOK(runs, made') /\ ArtifactsOK(artifacts, made')
  BY <1>3, ListsUnchanged DEF History, Consistent
<1>7. EvidenceOK(attempts \cup {p}, runs, artifacts)
  BY <1>2 DEF History, Consistent, EvidenceOK
<1> QED
  BY <1>3, <1>4, <1>5, <1>6, <1>7, Saved

LEMMA StartToolStep ==
  ASSUME History, StartTool
  PROVE  History' /\ Forward
<1>1. PICK e \in NewEvents, i \in NextId(made.runs), p \in Open(attempts) :
        /\ Compact(events \cup e, attempts,
                   runs \cup {[id |-> i, of |-> p.id, place |-> 0, open |-> TRUE, artifact |-> 0]},
                   artifacts)
        /\ made' = [made EXCEPT !.events = @ \cup e, !.runs = @ \cup {i}]
  BY DEF StartTool
<1> DEFINE r == [id |-> i, of |-> p.id, place |-> 0, open |-> TRUE, artifact |-> 0]
<1>2. r \in Run /\ r.id = i /\ r.open /\ r.place = 0 /\ r.artifact = 0
  BY DEF Run, NextId, Open, History, Consistent, AttemptsOK, Attempt
<1>3. /\ made' \in Recording /\ made'.events = made.events \cup e
      /\ made'.attempts = made.attempts /\ made'.runs = made.runs \cup {i}
      /\ made'.artifacts = made.artifacts
  BY <1>1 DEF History, MadeOK, Recording, NewEvents, Fresh, NextId
<1>4. Compact(events \cup e, attempts, runs \cup {r}, artifacts)
  BY <1>1
<1> HIDE DEF r
<1>5. RunsOK(runs \cup {r}, made')
  BY <1>2, <1>3, RunStarted DEF History, Consistent
<1>6. AttemptsOK(attempts, made') /\ ArtifactsOK(artifacts, made')
  BY <1>3, ListsUnchanged DEF History, Consistent
<1>7. EvidenceOK(attempts, runs \cup {r}, artifacts)
  BY <1>2 DEF History, Consistent, EvidenceOK
<1> QED
  BY <1>3, <1>4, <1>5, <1>6, <1>7, Saved

\* An artifact was made, and given to the attempts or runs that have it.
LEMMA SavedArtifact ==
  ASSUME History, NEW e \in NewEvents, NEW a \in NewArtifacts, MadeArtifact(e, a),
         NEW ats, NEW rs, Compact(events \cup e, ats, rs, artifacts \cup {a}),
         AttemptsOK(ats, made'), RunsOK(rs, made'),
         EvidenceOK(ats, rs, artifacts \cup {a})
  PROVE  History' /\ Forward
<1>1. made' \in Recording /\ made'.events = made.events \cup e
  BY DEF MadeArtifact, History, MadeOK, Recording, NewEvents, NewArtifacts, Fresh
<1>2. made'.artifacts = made.artifacts \cup {a}
  BY DEF MadeArtifact, History, MadeOK
<1>3. ArtifactsOK(artifacts \cup {a}, made')
  BY <1>2, ArtifactsGrow DEF History, Consistent
<1> QED
  BY <1>1, <1>3, Saved

\* The ids made do not change with an artifact.
LEMMA MadeArtifactIds ==
  ASSUME History, NEW e, NEW a, MadeArtifact(e, a)
  PROVE  made'.attempts = made.attempts /\ made'.runs = made.runs
BY DEF MadeArtifact, History, MadeOK

LEMMA NewArtifactPlace ==
  ASSUME NEW a \in NewArtifacts
  PROVE  a.place \in Places
BY DEF NewArtifacts, Artifact

LEMMA PlacesGrow ==
  ASSUME NEW S, NEW a
  PROVE  PlacesOf(S \cup {a}) = PlacesOf(S) \cup {a.place}
BY DEF PlacesOf

LEMMA OpenAttempt ==
  ASSUME History, NEW p \in Open(attempts)
  PROVE  p \in attempts /\ p \in Attempt
BY DEF Open, History, Consistent, AttemptsOK

LEMMA OpenRun ==
  ASSUME History, NEW r \in Open(runs)
  PROVE  r \in runs /\ r \in Run /\ r.artifact \in PlacesOf(artifacts) \cup {0}
BY DEF Open, History, Consistent, RunsOK, EvidenceOK

LEMMA ClosingForm ==
  ASSUME NEW end \in Places
  PROVE  /\ \A p \in Attempt :
              /\ Closing(p, end) \in Attempt
              /\ Closing(p, end).id = p.id /\ Closing(p, end).artifacts = p.artifacts
              /\ Closing(p, end).open <=> Closing(p, end).place = 0
         /\ \A r \in Run :
              /\ Closing(r, end) \in Run
              /\ Closing(r, end).id = r.id /\ Closing(r, end).artifact = r.artifact
              /\ Closing(r, end).open <=> Closing(r, end).place = 0
BY ConstantsOK DEF Closing, Attempt, Run

LEMMA WithForm ==
  ASSUME NEW p \in Attempt, NEW a, a.place \in Places, NEW end \in Places \cup {0}
  PROVE  /\ With(p, a, end) \in Attempt /\ With(p, a, end).id = p.id
         /\ With(p, a, end).artifacts = p.artifacts \cup {a.place}
         /\ With(p, a, end).open <=> With(p, a, end).place = 0
BY ConstantsOK DEF With, Attempt

LEMMA FailToolStep ==
  ASSUME History, FailTool
  PROVE  History' /\ Forward
<1>1. PICK e \in NewEvents, r \in Open(runs), ended \in FreshEnd(runs) :
        /\ Compact(events \cup e, attempts, Replace(runs, r, Closing(r, ended)), artifacts)
        /\ made' = [made EXCEPT !.events = @ \cup e]
  BY DEF FailTool
<1>2. /\ made' \in Recording /\ made'.events = made.events \cup e
      /\ made'.attempts = made.attempts /\ made'.runs = made.runs
      /\ made'.artifacts = made.artifacts
  BY <1>1 DEF History, MadeOK, Recording, NewEvents, Fresh
<1>3. /\ r \in runs /\ Closing(r, ended) \in Run /\ Closing(r, ended).id = r.id
      /\ Closing(r, ended).artifact \in PlacesOf(artifacts) \cup {0}
      /\ Closing(r, ended).open <=> Closing(r, ended).place = 0
  BY OpenRun, ClosingForm DEF FreshEnd
<1>4. RunsOK(Replace(runs, r, Closing(r, ended)), made')
  BY <1>2, <1>3, RunReplaced DEF History, Consistent
<1>5. AttemptsOK(attempts, made') /\ ArtifactsOK(artifacts, made')
  BY <1>2, ListsUnchanged DEF History, Consistent
<1>6. EvidenceOK(attempts, Replace(runs, r, Closing(r, ended)), artifacts)
  BY <1>3 DEF History, Consistent, EvidenceOK, Replace
<1> QED
  BY <1>1, <1>2, <1>4, <1>5, <1>6, Saved

LEMMA SaveCheckpointStep ==
  ASSUME History, SaveCheckpoint
  PROVE  History' /\ Forward
<1>1. PICK e \in NewEvents, a \in NewArtifacts :
        /\ Compact(events \cup e, attempts, runs, artifacts \cup {a})
        /\ MadeArtifact(e, a)
  BY DEF SaveCheckpoint
<1>2. AttemptsOK(attempts, made') /\ RunsOK(runs, made')
  BY <1>1, MadeArtifactIds, ListsUnchanged DEF History, Consistent
<1>3. EvidenceOK(attempts, runs, artifacts \cup {a})
  <2>1. PlacesOf(artifacts) \subseteq PlacesOf(artifacts \cup {a})
    BY DEF PlacesOf
  <2>2. EvidenceOK(attempts, runs, artifacts)
    BY DEF History, Consistent
  <2> HIDE DEF PlacesOf
  <2> QED
    BY <2>1, <2>2 DEF EvidenceOK
<1> QED
  BY <1>1, <1>2, <1>3, SavedArtifact

LEMMA FinishPhaseStep ==
  ASSUME History, FinishPhase
  PROVE  History' /\ Forward
<1>1. PICK e \in NewEvents, p \in Open(attempts), end \in FreshEnd(attempts) :
        \/ /\ Compact(events \cup e, Replace(attempts, p, Closing(p, end)), runs, artifacts)
           /\ made' = [made EXCEPT !.events = @ \cup e]
        \/ \E a \in NewArtifacts :
             /\ Compact(events \cup e, Replace(attempts, p, With(p, a, end)), runs,
                        artifacts \cup {a})
             /\ MadeArtifact(e, a)
  BY DEF FinishPhase
<1>2. p \in attempts /\ p \in Attempt /\ end \in Places
  BY OpenAttempt DEF FreshEnd
<1>3. CASE /\ Compact(events \cup e, Replace(attempts, p, Closing(p, end)), runs, artifacts)
           /\ made' = [made EXCEPT !.events = @ \cup e]
  <2>1. /\ made' \in Recording /\ made'.events = made.events \cup e
        /\ made'.attempts = made.attempts /\ made'.runs = made.runs
        /\ made'.artifacts = made.artifacts
    BY <1>3 DEF History, MadeOK, Recording, NewEvents, Fresh
  <2>2. /\ Closing(p, end) \in Attempt /\ Closing(p, end).id = p.id
        /\ Closing(p, end).artifacts = p.artifacts
        /\ Closing(p, end).open <=> Closing(p, end).place = 0
    BY <1>2, ClosingForm
  <2>3. AttemptsOK(Replace(attempts, p, Closing(p, end)), made')
    BY <1>2, <2>1, <2>2, AttemptReplaced DEF History, Consistent
  <2>4. RunsOK(runs, made') /\ ArtifactsOK(artifacts, made')
    BY <2>1, ListsUnchanged DEF History, Consistent
  <2>5. EvidenceOK(Replace(attempts, p, Closing(p, end)), runs, artifacts)
    BY <1>2, <2>2 DEF History, Consistent, EvidenceOK, Replace
  <2> QED
    BY <1>3, <2>1, <2>3, <2>4, <2>5, Saved
<1>4. CASE \E a \in NewArtifacts :
             /\ Compact(events \cup e, Replace(attempts, p, With(p, a, end)), runs,
                        artifacts \cup {a})
             /\ MadeArtifact(e, a)
  <2>1. PICK a \in NewArtifacts :
          /\ Compact(events \cup e, Replace(attempts, p, With(p, a, end)), runs,
                     artifacts \cup {a})
          /\ MadeArtifact(e, a)
    BY <1>4
  <2>2. /\ With(p, a, end) \in Attempt /\ With(p, a, end).id = p.id
        /\ With(p, a, end).artifacts = p.artifacts \cup {a.place}
        /\ With(p, a, end).open <=> With(p, a, end).place = 0
    BY <1>2, NewArtifactPlace, WithForm
  <2>3. AttemptsOK(Replace(attempts, p, With(p, a, end)), made')
    BY <1>2, <2>1, <2>2, MadeArtifactIds, AttemptReplaced DEF History, Consistent
  <2>4. RunsOK(runs, made')
    BY <2>1, MadeArtifactIds, ListsUnchanged DEF History, Consistent
  <2>5. EvidenceOK(Replace(attempts, p, With(p, a, end)), runs, artifacts \cup {a})
    BY <1>2, <2>2, PlacesGrow DEF History, Consistent, EvidenceOK, Replace
  <2> QED
    BY <2>1, <2>3, <2>4, <2>5, SavedArtifact
<1> QED
  BY <1>1, <1>3, <1>4

LEMMA ApplyToolResultStep ==
  ASSUME History, ApplyToolResult
  PROVE  History' /\ Forward
<1>1. PICK e \in NewEvents, r \in Open(runs), p \in Open(attempts), a \in NewArtifacts,
           ended \in FreshEnd(runs), end \in FreshEnd(attempts) \cup {0} :
        /\ Compact(events \cup e, Replace(attempts, p, With(p, a, end)),
                   Replace(runs, r, [Closing(r, ended) EXCEPT !.artifact = a.place]),
                   artifacts \cup {a})
        /\ MadeArtifact(e, a)
  BY DEF ApplyToolResult
<1> DEFINE q == [Closing(r, ended) EXCEPT !.artifact = a.place]
<1>2. p \in attempts /\ p \in Attempt /\ r \in runs /\ r \in Run
  BY OpenAttempt, OpenRun
<1>3. a.place \in Places /\ end \in Places \cup {0} /\ ended \in Places
  BY NewArtifactPlace DEF FreshEnd
<1>4. /\ Closing(r, ended) \in Run /\ Closing(r, ended).id = r.id
      /\ Closing(r, ended).open <=> Closing(r, ended).place = 0
  BY <1>2, <1>3, ClosingForm
<1>5. q \in Run /\ q.id = r.id /\ (q.open <=> q.place = 0) /\ q.artifact = a.place
  BY <1>3, <1>4 DEF Run
<1>6. Compact(events \cup e, Replace(attempts, p, With(p, a, end)),
              Replace(runs, r, q), artifacts \cup {a})
  BY <1>1
<1> HIDE DEF q
<1>7. /\ With(p, a, end) \in Attempt /\ With(p, a, end).id = p.id
      /\ With(p, a, end).artifacts = p.artifacts \cup {a.place}
      /\ With(p, a, end).open <=> With(p, a, end).place = 0
  BY <1>2, <1>3, WithForm
<1>8. AttemptsOK(Replace(attempts, p, With(p, a, end)), made')
  BY <1>1, <1>2, <1>7, MadeArtifactIds, AttemptReplaced DEF History, Consistent
<1>9. RunsOK(Replace(runs, r, q), made')
  BY <1>1, <1>2, <1>5, MadeArtifactIds, RunReplaced DEF History, Consistent
<1>10. EvidenceOK(Replace(attempts, p, With(p, a, end)), Replace(runs, r, q),
                  artifacts \cup {a})
  BY <1>2, <1>5, <1>7, PlacesGrow DEF History, Consistent, EvidenceOK, Replace
<1> QED
  BY <1>1, <1>6, <1>8, <1>9, <1>10, SavedArtifact

-----------------------------------------------------------------------------
\* The reader.

\* A save brings no entry back that the reader has left behind.
LEMMA NothingReturns ==
  ASSUME IInv, Forward, MemoryOK', UNCHANGED reader
  PROVE  reader.from \cap Entries' \subseteq reader.from \cap Entries
<1> SUFFICES ASSUME NEW x \in reader.from, x \in Entries'
             PROVE  x \in Entries
  OBVIOUS
<1>1. PICK e \in NewEvents :
        events' \subseteq events \cup e /\ made'.events = made.events \cup e
  BY DEF Forward
<1>2. /\ made.events \subseteq Nat /\ e \subseteq Nat \ made.events
      /\ events \subseteq made.events /\ memory.end \in Nat /\ memory'.end \in Nat
  <2>1. Places \subseteq Nat
    BY ConstantsOK
  <2>2. made.events \subseteq Places /\ events \subseteq made.events
    BY DEF IInv, History, Consistent, EventsOK
  <2>3. e \subseteq Places \ made.events
    BY DEF NewEvents, Fresh
  <2>4. memory.end \in Nat /\ memory'.end \in Nat
    BY EndIsPlace DEF IInv, History, MemoryOK
  <2> QED
    BY <2>1, <2>2, <2>3, <2>4
<1>3. CASE \E p \in made.events : x = 2 * p
  <2>1. PICK p \in made.events : x = 2 * p
    BY <1>3
  <2>2. x # 2 * memory'.end + 1
    BY <1>2, <2>1
  <2>3. PICK q \in events' : x = 2 * q
    BY <2>2 DEF Entries
  <2>4. q \in events
    <3>1. q \in events \cup e /\ p \in Nat
      BY <1>1, <1>2, <2>1, <2>3
    <3>2. q \in Nat
      BY <1>2, <3>1
    <3>3. q = p
      BY <2>1, <2>3, <3>1, <3>2
    <3> QED
      BY <1>2, <2>1, <3>1, <3>3
  <2> QED
    BY <2>3, <2>4 DEF Entries
<1>4. CASE \E p \in Nat : x = 2 * p + 1 /\ p <= memory.end /\ Remembers
  <2>1. PICK p \in Nat : x = 2 * p + 1 /\ p <= memory.end /\ Remembers
    BY <1>4
  <2>2. \A q \in events' : x # 2 * q
    <3>1. events' \subseteq Nat
      BY <1>1, <1>2
    <3> QED
      BY <2>1, <3>1
  <2>3. x = 2 * memory'.end + 1
    BY <2>2 DEF Entries
  <2>4. p = memory.end
    BY <1>2, <2>1, <2>3 DEF Forward
  <2> QED
    BY <2>1, <2>4 DEF Entries
<1> QED
  BY <1>3, <1>4 DEF IInv, ReaderOK

LEMMA SaveUnderReader ==
  ASSUME IInv, Forward, History', UNCHANGED reader
  PROVE  ReaderOK' /\ PagesMeet'
<1>1. reader.from \cap Entries' \subseteq reader.from \cap Entries
  BY NothingReturns DEF History
<1>2. PagesMeet'
  BY <1>1 DEF IInv, PagesMeet
<1>3. made.events \subseteq made'.events
  BY DEF Forward
<1>4. memory.end \in Nat /\ memory'.end \in Nat
  BY EndIsPlace DEF IInv, History, MemoryOK
<1>5. ASSUME NEW x \in reader.from
      PROVE  \/ \E p \in made'.events : x = 2 * p
             \/ \E p \in Nat : x = 2 * p + 1 /\ p <= memory'.end /\ Remembers'
  <2>1. CASE \E p \in made.events : x = 2 * p
    BY <1>3, <2>1
  <2>2. CASE \E p \in Nat : x = 2 * p + 1 /\ p <= memory.end /\ Remembers
    <3>1. PICK p \in Nat : x = 2 * p + 1 /\ p <= memory.end /\ Remembers
      BY <2>2
    <3>2. p <= memory'.end /\ Remembers'
      BY <1>4, <3>1 DEF Forward
    <3> QED
      BY <3>1, <3>2
  <2> QED
    BY <2>1, <2>2 DEF IInv, ReaderOK
<1> QED
  BY <1>2, <1>5 DEF IInv, ReaderOK

LEMMA EntriesOK ==
  ASSUME History
  PROVE  Entries \subseteq Nat /\ IsFiniteSet(Entries)
<1>1. events \subseteq Nat /\ IsFiniteSet(events) /\ memory.end \in Nat
  <2>1. events \subseteq Places
    BY DEF History, Consistent, EventsOK
  <2>2. Places \subseteq Nat /\ IsFiniteSet(Places)
    BY ConstantsOK
  <2>3. memory.end \in Nat
    BY EndIsPlace DEF History, MemoryOK
  <2> QED
    BY <2>1, <2>2, <2>3, FS_Subset
<1> DEFINE E == {2 * p : p \in events}
           M == IF Remembers THEN {2 * memory.end + 1} ELSE {}
           f == [p \in events |-> 2 * p]
<1>2. f \in Surjection(events, E)
  BY DEF Surjection
<1>3. IsFiniteSet(E)
  BY <1>1, <1>2, FS_Surjection
<1>4. IsFiniteSet(M)
  BY FS_Singleton, FS_EmptySet
<1>5. E \subseteq Nat /\ M \subseteq Nat
  BY <1>1
<1>6. Entries = E \cup M
  BY DEF Entries
<1> HIDE DEF E, M
<1> QED
  BY <1>3, <1>4, <1>5, <1>6, FS_Union

\* A page is what is at or above its cursor.
LEMMA PageAboveCursor ==
  ASSUME NEW S, S \subseteq Nat, IsFiniteSet(S), NEW c \in Cursor(S), NEW x \in S
  PROVE  /\ c \in Nat
         /\ c = 0 => x \in Page(S)
         /\ c # 0 => (x \in Page(S) <=> x >= c)
<1>1. CASE Page(S) = S
  BY <1>1 DEF Cursor
<1>2. CASE Page(S) # S
  <2>1. c \in Page(S) /\ c \in S /\ \A y \in Page(S) : c <= y
    BY <1>2 DEF Cursor, Page
  <2>2. ASSUME x >= c PROVE x \in Page(S)
    <3>1. {y \in S : y > x} \subseteq {y \in S : y > c}
      <4>1. c \in Nat /\ x \in Nat
        BY <2>1
      <4>2. \A y \in S : y \in Nat /\ (y > x => y > c)
        BY <2>2, <4>1
      <4> QED
        BY <4>2
    <3>2. IsFiniteSet({y \in S : y > c})
      BY FS_Subset
    <3>3. Cardinality({y \in S : y > x}) <= Cardinality({y \in S : y > c})
      BY <3>1, <3>2, FS_Subset
    <3>4. /\ Cardinality({y \in S : y > x}) \in Nat
          /\ Cardinality({y \in S : y > c}) \in Nat
      BY <3>1, <3>2, FS_Subset, FS_CardinalityType
    <3>5. Cardinality({y \in S : y > c}) < PageLimit
      BY <2>1 DEF Page
    <3> QED
      BY <3>3, <3>4, <3>5, ConstantsOK DEF Page
  <2>3. ASSUME x \in Page(S) PROVE x >= c
    BY <2>1, <2>3
  <2>4. c = 0 => x >= c
    BY <2>1
  <2> QED
    BY <2>1, <2>2, <2>3, <2>4
<1> QED
  BY <1>1, <1>2

LEMMA OpenListStep ==
  ASSUME IInv, OpenList
  PROVE  IInv'
<1>1. PICK c \in Cursor(Entries) :
        reader' = [cursor |-> c, from |-> Entries, seen |-> Page(Entries)]
  BY DEF OpenList
<1>2. UNCHANGED <<events, attempts, runs, artifacts, memory, made>>
  BY DEF OpenList
<1>3. History' /\ Entries' = Entries
  BY <1>2 DEF IInv, History, MemoryOK, MadeOK, Consistent, EventsOK, AttemptsOK, RunsOK,
              ArtifactsOK, EvidenceOK, PlacesOf, LatestOfKind, Entries, Remembers
<1>4. Entries \subseteq Nat /\ IsFiniteSet(Entries)
  BY EntriesOK DEF IInv
<1>5. c \in Nat
  <2>1. CASE Entries = {}
    BY <1>1, <2>1 DEF Cursor, Page
  <2> QED
    BY <1>4, <2>1, PageAboveCursor
<1>6. ReaderOK'
  <2>1. reader' \in [cursor : Nat, from : SUBSET Nat, seen : SUBSET Nat]
    BY <1>1, <1>4, <1>5 DEF Page
  <2>2. memory.end \in Nat
    BY EndIsPlace DEF IInv, History, MemoryOK
  <2>3. \A x \in Entries :
          \/ \E p \in made.events : x = 2 * p
          \/ \E p \in Nat : x = 2 * p + 1 /\ p <= memory.end /\ Remembers
    BY <2>2 DEF Entries, IInv, History, Consistent, EventsOK
  <2> QED
    BY <1>1, <1>2, <2>1, <2>3 DEF ReaderOK, Remembers
<1>7. PagesMeet'
  BY <1>1, <1>3, <1>4, PageAboveCursor DEF PagesMeet
<1> QED
  BY <1>3, <1>6, <1>7 DEF IInv

LEMMA TurnPageStep ==
  ASSUME IInv, TurnPage
  PROVE  IInv'
<1>1. PICK c \in Cursor(Unread) :
        reader' = [reader EXCEPT !.cursor = c, !.seen = @ \cup Page(Unread)]
  BY DEF TurnPage
<1>2. /\ UNCHANGED <<events, attempts, runs, artifacts, memory, made>>
      /\ reader.cursor # 0
  BY DEF TurnPage
<1>3. History' /\ Entries' = Entries
  BY <1>2 DEF IInv, History, MemoryOK, MadeOK, Consistent, EventsOK, AttemptsOK, RunsOK,
              ArtifactsOK, EvidenceOK, PlacesOf, LatestOfKind, Entries, Remembers
<1>4. /\ Entries \subseteq Nat /\ Unread \subseteq Entries
      /\ Unread \subseteq Nat /\ IsFiniteSet(Unread)
  BY EntriesOK, FS_Subset DEF IInv, Unread
<1>5. /\ reader.cursor \in Nat /\ reader.from \subseteq Nat /\ reader.seen \subseteq Nat
  BY DEF IInv, ReaderOK
<1>6. /\ c \in Nat /\ c < reader.cursor
  <2>1. CASE Page(Unread) = Unread
    BY <1>1, <1>2, <1>5, <2>1 DEF Cursor
  <2>2. CASE Page(Unread) # Unread
    BY <1>1, <1>4, <1>5, <2>2 DEF Cursor, Page, Unread
  <2> QED
    BY <2>1, <2>2
<1>7. /\ reader'.cursor = c /\ reader'.from = reader.from
      /\ reader'.seen = reader.seen \cup Page(Unread)
      /\ reader' \in [cursor : Nat, from : SUBSET Nat, seen : SUBSET Nat]
  BY <1>1, <1>4, <1>6 DEF IInv, ReaderOK, Page
<1>8. ReaderOK'
  BY <1>2, <1>7 DEF IInv, ReaderOK, Remembers
<1>9. ASSUME NEW x \in reader.from \cap Entries
      PROVE  IF c = 0 THEN x \in reader'.seen ELSE x \in reader'.seen <=> x >= c
  <2>1. x \in reader.seen <=> x >= reader.cursor
    BY <1>2, <1>9 DEF IInv, PagesMeet
  <2>2. x \in Nat
    BY <1>4, <1>9
  <2>3. CASE x >= reader.cursor
    BY <1>5, <1>6, <1>7, <2>1, <2>2, <2>3
  <2>4. CASE ~(x >= reader.cursor)
    <3>1. x \in Unread
      BY <1>5, <1>9, <2>2, <2>4 DEF Unread
    <3>2. /\ c = 0 => x \in Page(Unread)
          /\ c # 0 => (x \in Page(Unread) <=> x >= c)
      BY <1>1, <1>4, <3>1, PageAboveCursor
    <3> QED
      BY <1>7, <2>1, <2>4, <3>2
  <2> QED
    BY <2>3, <2>4
<1>10. PagesMeet'
  BY <1>3, <1>7, <1>9 DEF PagesMeet
<1> QED
  BY <1>3, <1>8, <1>10 DEF IInv

-----------------------------------------------------------------------------
LEMMA InitOK ==
  ASSUME Init
  PROVE  IInv
<1>1. MemoryOK /\ MadeOK
  BY DEF Init, MemoryOK, MadeOK
<1>2. Consistent(events, attempts, runs, artifacts, made)
  BY FS_EmptySet DEF Init, Consistent, EventsOK, AttemptsOK, RunsOK, ArtifactsOK,
                     EvidenceOK, LatestOfKind
<1>3. ReaderOK /\ PagesMeet
  BY DEF Init, Nobody, ReaderOK, PagesMeet
<1> QED
  BY <1>1, <1>2, <1>3 DEF IInv, History

LEMMA SaveStep ==
  ASSUME IInv, History', Forward, UNCHANGED reader
  PROVE  IInv'
BY SaveUnderReader DEF IInv

LEMMA NextStep ==
  ASSUME IInv, [Next]_vars
  PROVE  IInv'
<1>0. History
  BY DEF IInv
<1>1. CASE Record
  BY <1>0, <1>1, RecordStep, SaveStep DEF Record
<1>2. CASE StartPhase
  BY <1>0, <1>2, StartPhaseStep, SaveStep DEF StartPhase
<1>3. CASE StartTool
  BY <1>0, <1>3, StartToolStep, SaveStep DEF StartTool
<1>4. CASE FinishPhase
  BY <1>0, <1>4, FinishPhaseStep, SaveStep DEF FinishPhase
<1>5. CASE ApplyToolResult
  BY <1>0, <1>5, ApplyToolResultStep, SaveStep DEF ApplyToolResult
<1>6. CASE FailTool
  BY <1>0, <1>6, FailToolStep, SaveStep DEF FailTool
<1>7. CASE SaveCheckpoint
  BY <1>0, <1>7, SaveCheckpointStep, SaveStep DEF SaveCheckpoint
<1>8. CASE OpenList
  BY <1>8, OpenListStep
<1>9. CASE TurnPage
  BY <1>9, TurnPageStep
<1>10. CASE UNCHANGED vars
  BY <1>10 DEF vars, IInv, History, MemoryOK, MadeOK, Consistent, EventsOK, AttemptsOK, RunsOK,
     ArtifactsOK, EvidenceOK, PlacesOf, LatestOfKind, Entries, Remembers, ReaderOK, PagesMeet
<1> QED
  BY <1>1, <1>2, <1>3, <1>4, <1>5, <1>6, <1>7, <1>8, <1>9, <1>10 DEF Next

\* Every reachable state keeps the invariant.
LEMMA Invariance == Spec => []IInv
<1>1. Init => IInv
  BY InitOK
<1>2. IInv /\ [Next]_vars => IInv'
  BY NextStep
<1> QED
  BY <1>1, <1>2, PTL DEF Spec

\* Whatever is recorded and pruned, the lists hold records of what was made,
\* one for each id.
THEOREM TypeCorrect == Spec => []TypeOK
<1>1. IInv => TypeOK
  BY DEF IInv, History, MemoryOK, MadeOK, Consistent, EventsOK, AttemptsOK, RunsOK,
         ArtifactsOK, ReaderOK, TypeOK
<1> QED
  BY <1>1, Invariance, PTL

\* However often the history is compacted, what is kept and what the task's
\* memory counts are together all that was recorded.
THEOREM AllCounted == Spec => []NothingUncounted
<1>1. IInv => NothingUncounted
  BY DEF IInv, History, Consistent, EventsOK, AttemptsOK, RunsOK, ArtifactsOK,
         NothingUncounted
<1> QED
  BY <1>1, Invariance, PTL

\* Compaction never drops an artifact that a kept attempt or run produced, or
\* the newest of its kind.
THEOREM EvidenceSafe == Spec => []EvidenceKept
<1>1. IInv => EvidenceKept
  BY DEF IInv, History, Consistent, ArtifactsOK, EvidenceOK, EvidenceKept
<1> QED
  BY <1>1, Invariance, PTL

\* Turning the pages of a list that changes neither skips nor repeats an
\* entry that stays.
THEOREM ReadersMissNothing == Spec => []PagesMeet
<1>1. IInv => PagesMeet
  BY DEF IInv
<1> QED
  BY <1>1, Invariance, PTL

=============================================================================
