----------------------- MODULE ProjectLifecycleProofs -----------------------
(***************************************************************************)
(* What holds of a project's contract for any plans, tasks and             *)
(* dependencies: whatever is edited in whatever order, tasks never wait    *)
(* for each other in a circle, and a blocked project goes on where it was. *)
(***************************************************************************)
EXTENDS ProjectLifecycle, TLAPS

-----------------------------------------------------------------------------
\* The inductive invariant.

Modes == {"", "manual", "active", "paused"}
Dispatches ==
  {"absent", "awaiting_approval", "none", "ready", "claimed", "released", "done"}
Milestones == {NoMilestone} \cup {c.milestone : c \in Contracts}
Reached == {NoMilestone} \cup UNION {Listed(q) : q \in Plans}

TaskRows == [dispatch : Dispatches, paused : BOOLEAN, passed : BOOLEAN,
             milestone : Milestones, deps : SUBSET Tasks]
ProjectRows == [life : States \cup {"blocked"}, prev : States \cup {""},
                milestone : Reached, mode : Modes, plan : Plans, version : 1..MaxVersion + 1]

\* What is blocked knows a state to go back to, and is paused.
ProjectOK(p) ==
  /\ p \in ProjectRows
  /\ p.life = "blocked" => p.prev \in States
  /\ p.life = "blocked" <=> p.mode = "paused"

IInv ==
  /\ ProjectOK(project)
  /\ tasks \in [Tasks -> TaskRows]
  /\ ContractsFit

\* BackToWhereItWas, as a formula of one step.
GoesBack ==
  project.life = "blocked" =>
    IF project'.life = "blocked" THEN project'.prev = project.prev
    ELSE project'.life = project.prev

-----------------------------------------------------------------------------
\* What a task waits for, as the least set that is closed under dependencies.

Closed(ts, C) == \A v \in C : ts[v].deps \subseteq C

LEMMA BeforeLeast ==
  ASSUME NEW ts, NEW t \in Tasks, NEW C \in SUBSET Tasks,
         ts[t].deps \subseteq C, Closed(ts, C)
  PROVE  Before(ts, t) \subseteq C
BY DEF Before, Closed

LEMMA BeforeClosed ==
  ASSUME NEW ts, NEW t \in Tasks, \A u \in Tasks : ts[u].deps \subseteq Tasks
  PROVE  /\ Before(ts, t) \in SUBSET Tasks
         /\ ts[t].deps \subseteq Before(ts, t)
         /\ Closed(ts, Before(ts, t))
<1>1. Before(ts, t) \in SUBSET Tasks
  BY DEF Before
<1>2. ts[t].deps \subseteq Before(ts, t)
  BY DEF Before
<1>3. ASSUME NEW v \in Before(ts, t), NEW u \in ts[v].deps PROVE u \in Before(ts, t)
  <2>1. u \in Tasks
    BY <1>1, <1>3
  <2>2. ASSUME NEW C \in SUBSET Tasks,
               ts[t].deps \subseteq C /\ \A w \in C : ts[w].deps \subseteq C
        PROVE  u \in C
    <3>1. v \in C
      BY <2>2, <1>3 DEF Before
    <3> QED
      BY <3>1, <2>2, <1>3
  <2> QED
    BY <2>1, <2>2 DEF Before
<1> QED
  BY <1>1, <1>2, <1>3 DEF Closed

\* Tables that agree on a closed set agree on what its members wait for.
LEMMA BeforeWithin ==
  ASSUME NEW ts, NEW qs, NEW M \in SUBSET Tasks, NEW t \in M,
         \A u \in Tasks : ts[u].deps \subseteq Tasks,
         Closed(ts, M), \A u \in M : qs[u].deps = ts[u].deps
  PROVE  Before(qs, t) \subseteq Before(ts, t)
<1> DEFINE B == Before(ts, t)
<1>1. B \in SUBSET Tasks /\ ts[t].deps \subseteq B /\ Closed(ts, B)
  BY BeforeClosed
<1>2. B \subseteq M
  BY BeforeLeast DEF Closed
<1>3. qs[t].deps \subseteq B /\ Closed(qs, B)
  BY <1>1, <1>2 DEF Closed
<1> QED
  BY <1>1, <1>3, BeforeLeast

-----------------------------------------------------------------------------
\* Steps that edit no contract.

\* The tasks there are, and their contracts, stay.
Kept(qs) ==
  /\ qs \in [Tasks -> TaskRows]
  /\ \A t \in Tasks : /\ qs[t].deps = tasks[t].deps
                      /\ qs[t].milestone = tasks[t].milestone
                      /\ qs[t].dispatch = "absent" <=> tasks[t].dispatch = "absent"

LEMMA KeptFits ==
  ASSUME IInv, Kept(tasks'), project'.plan = project.plan \/ TasksFit(project')
  PROVE  ContractsFit'
<1>1. Made' = Made
  BY DEF Kept, Made
<1>2. \A u \in Tasks : tasks[u].deps \subseteq Tasks
  BY DEF IInv, TaskRows
<1>3. SUFFICES ASSUME NEW t \in Made
      PROVE  /\ tasks'[t].milestone \in Listed(project'.plan) \cup {NoMilestone}
             /\ t \notin Before(tasks', t) /\ tasks'[t].deps \subseteq Made
  BY <1>1 DEF ContractsFit
<1>4. t \in Tasks
  BY DEF Made
<1>5. /\ tasks[t].milestone \in Listed(project.plan) \cup {NoMilestone}
      /\ t \notin Before(tasks, t) /\ tasks[t].deps \subseteq Made
  BY DEF IInv, ContractsFit
<1>6. Before(tasks', t) \subseteq Before(tasks, t)
  <2>1. Closed(tasks, Tasks)
    BY <1>2 DEF Closed
  <2>2. \A u \in Tasks : tasks'[u].deps = tasks[u].deps
    BY DEF Kept
  <2> QED
    BY <1>2, <1>4, <2>1, <2>2, BeforeWithin
<1>7. tasks'[t].milestone = tasks[t].milestone /\ tasks'[t].deps = tasks[t].deps
  BY <1>4 DEF Kept
<1>8. tasks[t].milestone \in Listed(project'.plan) \cup {NoMilestone}
  <2>1. CASE project'.plan = project.plan
    BY <1>5, <2>1
  <2>2. CASE TasksFit(project')
    BY <2>2 DEF TasksFit, validateTaskContract
  <2> QED
    BY <2>1, <2>2
<1> QED
  BY <1>5, <1>6, <1>7, <1>8

\* What one action may do to a task without editing it.
LEMMA RowKept ==
  ASSUME NEW r \in TaskRows, r.dispatch # "absent", NEW d \in Dispatches \ {"absent"},
         NEW b \in BOOLEAN, NEW c \in BOOLEAN
  PROVE  LET q == [r EXCEPT !.dispatch = d, !.paused = b, !.passed = c]
         IN  /\ q \in TaskRows /\ q.deps = r.deps /\ q.milestone = r.milestone
             /\ q.dispatch # "absent"
BY DEF TaskRows

LEMMA PausedTaskOK ==
  ASSUME NEW r \in TaskRows
  PROVE  LET q == PausedTask(r)
         IN  /\ q \in TaskRows /\ q.deps = r.deps /\ q.milestone = r.milestone
             /\ q.dispatch = "absent" <=> r.dispatch = "absent"
BY DEF PausedTask, TaskRows, Dispatches

LEMMA ResumedTaskOK ==
  ASSUME NEW r \in TaskRows
  PROVE  LET q == ResumedTask(r)
         IN  /\ q \in TaskRows /\ q.deps = r.deps /\ q.milestone = r.milestone
             /\ q.dispatch = "absent" <=> r.dispatch = "absent"
BY DEF ResumedTask, TaskRows, Dispatches

LEMMA StoppedTaskOK ==
  ASSUME NEW r \in TaskRows
  PROVE  LET q == StoppedTask(r)
         IN  /\ q \in TaskRows /\ q.deps = r.deps /\ q.milestone = r.milestone
             /\ q.dispatch = "absent" <=> r.dispatch = "absent"
BY DEF StoppedTask, TaskRows, Dispatches

LEMMA SameKept ==
  ASSUME tasks \in [Tasks -> TaskRows] PROVE Kept(tasks)
BY DEF Kept

LEMMA PausedKept ==
  ASSUME tasks \in [Tasks -> TaskRows], NEW S PROVE Kept(PausedTasks(S))
BY PausedTaskOK DEF Kept, PausedTasks

LEMMA OneKept ==
  ASSUME tasks \in [Tasks -> TaskRows], NEW t \in Tasks, NEW q \in TaskRows,
         q.deps = tasks[t].deps, q.milestone = tasks[t].milestone,
         q.dispatch # "absent", tasks[t].dispatch # "absent"
  PROVE  Kept([tasks EXCEPT ![t] = q])
BY DEF Kept

-----------------------------------------------------------------------------
\* Steps of the project.

LEMMA NextVersion ==
  ASSUME NEW p, ProjectOK(p), p.version <= MaxVersion \/ p.version < MaxVersion
  PROVE  p.version + 1 \in 1..MaxVersion + 1
<1> DEFINE v == p.version
<1>1. v \in 1..MaxVersion + 1
  BY DEF ProjectOK, ProjectRows
<1>2. MaxVersion \in Nat
  BY ProjectConstants DEF ProjectConstants
<1>3. v <= MaxVersion \/ v < MaxVersion
  OBVIOUS
<1> HIDE DEF v
<1>4. v + 1 \in 1..MaxVersion + 1
  BY <1>1, <1>2, <1>3
<1> QED
  BY <1>4 DEF v

LEMMA PausedOK ==
  ASSUME NEW p, ProjectOK(p), p.version < MaxVersion
  PROVE  LET q == Paused(p)
         IN  /\ ProjectOK(q) /\ q.version = p.version + 1 /\ q.plan = p.plan /\ q.life = "blocked"
             /\ p.life = "blocked" => q.prev = p.prev
<1>1. p.version + 1 \in 1..MaxVersion + 1
  BY NextVersion
<1>2. "paused" \in Modes
  BY DEF Modes
<1>3. CASE p.life = "blocked"
  BY <1>1, <1>2, <1>3 DEF Paused, ProjectOK, ProjectRows
<1>4. CASE p.life # "blocked"
  BY <1>1, <1>2, <1>4 DEF Paused, ProjectOK, ProjectRows
<1> QED
  BY <1>3, <1>4

LEMMA UnblockedOK ==
  ASSUME NEW p, ProjectOK(p), p.version < MaxVersion, NEW m \in {"active", "manual"}
  PROVE  LET q == Unblocked(p, m)
         IN  /\ ProjectOK(q) /\ q.plan = p.plan
             /\ p.life = "blocked" => q.life = p.prev
<1>1. p.version + 1 \in 1..MaxVersion + 1
  BY NextVersion
<1>2. m \in Modes /\ m # "paused"
  BY DEF Modes
<1>3. "blocked" \notin States
  BY DEF States, Successor
<1>4. CASE p.life = "blocked"
  BY <1>1, <1>2, <1>3, <1>4 DEF Unblocked, ProjectOK, ProjectRows
<1>5. CASE p.life # "blocked"
  BY <1>1, <1>2, <1>3, <1>5 DEF Unblocked, ProjectOK, ProjectRows
<1> QED
  BY <1>4, <1>5

\* Counting on, with another plan.
LEMMA PlannedOK ==
  ASSUME NEW p, ProjectOK(p), NEW plan \in Plans
  PROVE  ProjectOK([p EXCEPT !.plan = plan])
BY DEF ProjectOK, ProjectRows

LEMMA CountedOK ==
  ASSUME NEW p, ProjectOK(p), p.version <= MaxVersion
  PROVE  LET q == [p EXCEPT !.version = @ + 1]
         IN  /\ ProjectOK(q) /\ q.plan = p.plan /\ q.life = p.life /\ q.prev = p.prev
<1>1. p.version + 1 \in 1..MaxVersion + 1
  BY NextVersion
<1> QED
  BY <1>1 DEF ProjectOK, ProjectRows

LEMMA MovedOK ==
  ASSUME NEW p, ProjectOK(p), p.life # "blocked", NEW to \in States, CanMove(p, to)
  PROVE  LET q == Moved(p, to)
         IN  ProjectOK(q) /\ q.plan = p.plan /\ q.version = p.version
<1>1. "blocked" \notin States
  BY DEF States, Successor
<1> DEFINE m == CHOOSE x \in Current(p.plan) : TRUE
<1>2. CASE to = "executing"
  <2>1. m \in Current(p.plan)
    BY <1>2 DEF CanMove
  <2>2. m \in Reached
    BY <2>1 DEF Current, Reached, ProjectOK, ProjectRows
  <2> HIDE DEF m
  <2>3. Moved(p, to) = [p EXCEPT !.life = to, !.prev = "", !.milestone = m]
    BY <1>2 DEF Moved, m
  <2> QED
    BY <1>1, <2>2, <2>3 DEF ProjectOK, ProjectRows
<1>3. CASE to # "executing"
  BY <1>1, <1>3 DEF Moved, ProjectOK, ProjectRows
<1> QED
  BY <1>2, <1>3

-----------------------------------------------------------------------------
\* Steps that edit contracts.

\* New tasks wait for tasks that were there, which do not wait for them.
LEMMA CreationFits ==
  ASSUME IInv, NEW S \in SUBSET Tasks, NEW c \in Contracts, S \cap Made = {},
         NEW ts, ts = [t \in Tasks |-> IF t \in S THEN NewTask(c) ELSE tasks[t]],
         \A t \in S : validateTaskContract(project, ts, t),
         tasks' = ts, project' = project
  PROVE  tasks' \in [Tasks -> TaskRows] /\ ContractsFit'
<1>1. /\ NewTask(c) \in TaskRows /\ NewTask(c).dispatch # "absent"
      /\ NewTask(c).deps = c.deps /\ NewTask(c).milestone = c.milestone
  <2>1. c.deps \in SUBSET Tasks /\ c.milestone \in Milestones
    BY ProjectConstants DEF ProjectConstants, Milestones
  <2> QED
    BY <2>1 DEF NewTask, NoTask, TaskRows, Dispatches
<1> HIDE DEF NewTask
<1>2. ts \in [Tasks -> TaskRows]
  BY <1>1 DEF IInv
<1>3. \A u \in Tasks : ts[u].deps \subseteq Tasks /\ tasks[u].deps \subseteq Tasks
  BY <1>2 DEF IInv, TaskRows
<1>4. Made \subseteq Tasks /\ Made' = Made \cup S
  BY <1>1 DEF Made
<1>5. \A u \in Made : ts[u] = tasks[u]
  BY <1>4
<1>6. ASSUME NEW t \in S
      PROVE  /\ ts[t].milestone \in Listed(project.plan) \cup {NoMilestone}
             /\ t \notin Before(ts, t) /\ ts[t].deps \subseteq Made \cup S
  <2>1. validateTaskContract(project, ts, t)
    BY <1>6
  <2>2. ts[t].deps \subseteq Before(ts, t)
    BY <1>3, BeforeClosed
  <2> QED
    BY <2>1, <2>2 DEF validateTaskContract
<1>7. ASSUME NEW t \in Made
      PROVE  /\ ts[t].milestone \in Listed(project.plan) \cup {NoMilestone}
             /\ t \notin Before(ts, t) /\ ts[t].deps \subseteq Made \cup S
  <2>1. /\ tasks[t].milestone \in Listed(project.plan) \cup {NoMilestone}
        /\ t \notin Before(tasks, t) /\ tasks[t].deps \subseteq Made
    BY DEF IInv, ContractsFit
  <2>2. Closed(tasks, Made)
    BY DEF IInv, ContractsFit, Closed
  <2>3. Before(ts, t) \subseteq Before(tasks, t)
    BY <1>3, <1>4, <1>5, <2>2, BeforeWithin
  <2> QED
    BY <1>5, <2>1, <2>3
<1> QED
  BY <1>2, <1>4, <1>6, <1>7 DEF ContractsFit

\* What an edited task waits for is looked at; a circle that does not lead
\* through it would have been there before.
LEMMA EditFits ==
  ASSUME IInv, NEW t \in Made, NEW c \in Contracts,
         NEW ts, ts = [tasks EXCEPT ![t] = EditedTask(@, c)],
         validateTaskContract(project, ts, t),
         tasks' = ts, project' = project
  PROVE  tasks' \in [Tasks -> TaskRows] /\ ContractsFit'
<1> DEFINE q == EditedTask(tasks[t], c)
           B == Before(ts, t)
<1>1. t \in Tasks /\ Made \subseteq Tasks
  BY DEF Made
<1>2. q \in TaskRows /\ q.dispatch # "absent"
  <2>1. c.deps \in SUBSET Tasks /\ c.milestone \in Milestones
    BY ProjectConstants DEF ProjectConstants, Milestones
  <2>2. tasks[t] \in TaskRows
    BY <1>1 DEF IInv
  <2> QED
    BY <2>1, <2>2 DEF EditedTask, TaskRows, Dispatches
<1>3. /\ ts \in [Tasks -> TaskRows] /\ ts[t] = q
      /\ \A u \in Tasks \ {t} : ts[u] = tasks[u]
  BY <1>1, <1>2 DEF IInv
<1> HIDE DEF q
<1>4. \A u \in Tasks : ts[u].deps \subseteq Tasks /\ tasks[u].deps \subseteq Tasks
  BY <1>3 DEF IInv, TaskRows
<1>5. Made' = Made
  BY <1>1, <1>2, <1>3 DEF Made
<1>6. B \in SUBSET Tasks /\ ts[t].deps \subseteq B /\ Closed(ts, B)
  BY <1>1, <1>4, BeforeClosed
<1>7. /\ ts[t].milestone \in Listed(project.plan) \cup {NoMilestone}
      /\ B \subseteq Made \ {t} /\ \A u \in B : u \notin Before(ts, u)
  BY DEF validateTaskContract
<1>8. ASSUME NEW u \in Made, u # t
      PROVE  /\ ts[u].milestone \in Listed(project.plan) \cup {NoMilestone}
             /\ u \notin Before(ts, u) /\ ts[u].deps \subseteq Made
  <2> DEFINE A == Before(tasks, u)
             C == A \cup B \cup {t}
  <2>1. u \in Tasks /\ ts[u] = tasks[u]
    BY <1>1, <1>3, <1>8
  <2>2. /\ tasks[u].milestone \in Listed(project.plan) \cup {NoMilestone}
        /\ u \notin A /\ tasks[u].deps \subseteq Made
    BY DEF IInv, ContractsFit
  <2>3. A \in SUBSET Tasks /\ tasks[u].deps \subseteq A /\ Closed(tasks, A)
    BY <1>4, <2>1, BeforeClosed
  <2>4. C \in SUBSET Tasks /\ ts[u].deps \subseteq C
    BY <1>1, <1>6, <2>1, <2>3
  <2>5. Closed(ts, C)
    <3>1. SUFFICES ASSUME NEW v \in C PROVE ts[v].deps \subseteq C
      BY DEF Closed
    <3>2. CASE v \in B
      BY <3>2, <1>6 DEF Closed
    <3>3. CASE v = t
      BY <3>3, <1>6
    <3>4. CASE v \in A /\ v # t
      BY <3>4, <1>3, <2>3 DEF Closed
    <3> QED
      BY <3>2, <3>3, <3>4
  <2> HIDE DEF A, B, C
  <2>6. Before(ts, u) \subseteq C
    BY <2>1, <2>4, <2>5, BeforeLeast
  <2>7. u \notin Before(ts, u)
    BY <1>7, <1>8, <2>2, <2>6 DEF C
  <2> QED
    BY <2>1, <2>2, <2>7
<1>9. /\ ts[t].milestone \in Listed(project.plan) \cup {NoMilestone}
      /\ t \notin Before(ts, t) /\ ts[t].deps \subseteq Made
  BY <1>6, <1>7
<1> QED
  BY <1>3, <1>5, <1>8, <1>9 DEF ContractsFit

-----------------------------------------------------------------------------
\* The actions.

Good == IInv' /\ GoesBack

\* Tasks keep their contracts, the project its plan, or gets one that fits.
LEMMA Keeps ==
  ASSUME IInv, ProjectOK(project)', Kept(tasks'), GoesBack,
         project'.plan = project.plan \/ TasksFit(project')
  PROVE  Good
<1>1. ContractsFit'
  BY KeptFits
<1>2. tasks' \in [Tasks -> TaskRows]
  BY DEF Kept
<1> QED
  BY <1>1, <1>2 DEF Good, IInv

LEMMA InitOK == Init => IInv
<1>1. 1 \in 1..MaxVersion + 1
  <2>1. MaxVersion \in Nat
    BY ProjectConstants DEF ProjectConstants
  <2> QED
    BY <2>1
<1> SUFFICES ASSUME Init PROVE IInv
  OBVIOUS
<1>2. PICK life \in Starts, mode \in {"manual", ""}, plan \in Plans :
        project = [life |-> life, prev |-> "", milestone |-> NoMilestone, mode |-> mode,
                   plan |-> plan, version |-> 1]
  BY DEF Init
<1>3. life \in States /\ life # "blocked"
  BY ProjectConstants DEF ProjectConstants, States, Successor
<1>4. mode \in Modes /\ mode # "paused"
  BY DEF Modes
<1>5. ProjectOK(project)
  BY <1>1, <1>2, <1>3, <1>4 DEF ProjectOK, ProjectRows, Reached
<1>6. NoTask \in TaskRows /\ NoTask.dispatch = "absent"
  BY DEF NoTask, TaskRows, Dispatches, Milestones
<1>7. tasks \in [Tasks -> TaskRows] /\ Made = {}
  BY <1>6 DEF Init, Made
<1> QED
  BY <1>5, <1>7 DEF IInv, ContractsFit

LEMMA RoomOK ==
  ASSUME IInv, Room
  PROVE  /\ ProjectOK(project) /\ project.version < MaxVersion
         /\ project.version <= MaxVersion
         /\ tasks \in [Tasks -> TaskRows] /\ Kept(tasks)
<1>1. project.version \in Nat /\ MaxVersion \in Nat
  <2>1. project.version \in 1..MaxVersion + 1
    BY DEF IInv, ProjectOK, ProjectRows
  <2>2. MaxVersion \in Nat
    BY ProjectConstants DEF ProjectConstants
  <2> QED
    BY <2>1, <2>2
<1>2. project.version < MaxVersion
  BY DEF Room
<1> DEFINE v == project.version
<1>3. v \in Nat /\ v < MaxVersion
  BY <1>1, <1>2
<1> HIDE DEF v
<1>4. v <= MaxVersion
  BY <1>1, <1>3
<1> QED
  BY <1>2, <1>4, SameKept DEF IInv, v

LEMMA SendPlanOK ==
  ASSUME IInv, NEW plan \in Plans, SendPlan(plan) PROVE Good
<1> DEFINE p == Planned(plan)
<1>1. ProjectOK(project) /\ project.version <= MaxVersion /\ Kept(tasks)
  BY RoomOK DEF SendPlan
<1>2. ProjectOK(p) /\ p.version = project.version /\ p.plan = plan
      /\ p.life = project.life /\ p.prev = project.prev
  <2>1. ProjectOK(p)
    BY <1>1, PlannedOK DEF Planned
  <2> QED
    BY <1>1, <2>1 DEF Planned, ProjectOK, ProjectRows
<1>3. project' = [p EXCEPT !.version = @ + 1] /\ TasksFit(p) /\ tasks' = tasks
  BY DEF SendPlan
<1> HIDE DEF p
<1>4. /\ ProjectOK(project') /\ project'.plan = p.plan
      /\ project'.life = project.life /\ project'.prev = project.prev
  BY <1>1, <1>2, <1>3, CountedOK
<1>5. TasksFit(project')
  BY <1>3, <1>4 DEF TasksFit, validateTaskContract
<1>6. GoesBack
  BY <1>4 DEF GoesBack
<1> QED
  BY <1>1, <1>3, <1>4, <1>5, <1>6, Keeps

LEMMA MoveOK ==
  ASSUME IInv, NEW plan \in Plans, NEW to \in States, Move(plan, to) PROVE Good
<1> DEFINE p == Planned(plan)
           q == Moved(p, to)
<1>1. ProjectOK(project) /\ project.version <= MaxVersion /\ Kept(tasks)
  BY RoomOK DEF Move
<1>2. project.life # "blocked"
  BY <1>1 DEF Move, ProjectOK
<1>3. ProjectOK(p) /\ p.version = project.version /\ p.plan = plan
      /\ p.life = project.life
  <2>1. ProjectOK(p)
    BY <1>1, PlannedOK DEF Planned
  <2> QED
    BY <1>1, <2>1 DEF Planned, ProjectOK, ProjectRows
<1>4. CanMove(p, to)
  BY DEF Move
<1>5. /\ project' = [q EXCEPT !.version = @ + 1] /\ tasks' = tasks
      /\ plan = project.plan \/ TasksFit(p)
  BY DEF Move
<1> HIDE DEF p
<1>6. ProjectOK(q) /\ q.plan = plan /\ q.version = project.version
  BY <1>2, <1>3, <1>4, MovedOK
<1> HIDE DEF q
<1>7. ProjectOK(project') /\ project'.plan = plan
  BY <1>1, <1>5, <1>6, CountedOK
<1>8. project'.plan = project.plan \/ TasksFit(project')
  BY <1>3, <1>5, <1>7 DEF TasksFit, validateTaskContract
<1>9. GoesBack
  BY <1>2 DEF GoesBack
<1> QED
  BY <1>1, <1>5, <1>7, <1>8, <1>9, Keeps

LEMMA BlockOK ==
  ASSUME IInv, NEW plan \in Plans, Block(plan) PROVE Good
<1> DEFINE p == Planned(plan)
           q == Paused(p)
<1>1. ProjectOK(project) /\ project.version < MaxVersion /\ tasks \in [Tasks -> TaskRows]
  BY RoomOK DEF Block
<1>2. ProjectOK(p) /\ p.version = project.version /\ p.plan = plan
      /\ p.life = project.life /\ p.prev = project.prev
  <2>1. ProjectOK(p)
    BY <1>1, PlannedOK DEF Planned
  <2> QED
    BY <1>1, <2>1 DEF Planned, ProjectOK, ProjectRows
<1>3. /\ project' = [q EXCEPT !.version = @ + 1] /\ tasks' = PausedTasks(Tasks)
      /\ plan = project.plan \/ TasksFit(p)
  BY DEF Block
<1> HIDE DEF p
<1>4. /\ ProjectOK(q) /\ q.version = project.version + 1 /\ q.plan = plan
      /\ q.life = "blocked" /\ (project.life = "blocked" => q.prev = project.prev)
  BY <1>1, <1>2, PausedOK
<1> HIDE DEF q
<1>5. q.version <= MaxVersion
  <2> DEFINE v == project.version
             w == q.version
  <2>1. v \in 1..MaxVersion + 1 /\ MaxVersion \in Nat /\ v < MaxVersion /\ w = v + 1
    BY <1>1, <1>4, ProjectConstants DEF ProjectConstants, ProjectOK, ProjectRows
  <2> HIDE DEF v, w
  <2>2. w <= MaxVersion
    BY <2>1
  <2> QED
    BY <2>2 DEF w
<1>6. /\ ProjectOK(project') /\ project'.plan = plan
      /\ project'.life = "blocked" /\ project'.prev = q.prev
  BY <1>3, <1>4, <1>5, CountedOK
<1>7. project'.plan = project.plan \/ TasksFit(project')
  BY <1>2, <1>3, <1>6 DEF TasksFit, validateTaskContract
<1>8. GoesBack
  BY <1>4, <1>6 DEF GoesBack
<1>9. Kept(tasks')
  BY <1>1, <1>3, PausedKept
<1> QED
  BY <1>6, <1>7, <1>8, <1>9, Keeps

\* A pause is the request for "blocked" with the plan there is.
LEMMA PauseOK ==
  ASSUME IInv, Pause PROVE Good
<1>1. project.plan \in Plans /\ Planned(project.plan) = project
  BY DEF Planned, IInv, ProjectOK, ProjectRows
<1>2. Block(project.plan)
  BY <1>1 DEF Pause, Block
<1> QED
  BY <1>1, <1>2, BlockOK

LEMMA StartOK ==
  ASSUME IInv, Start PROVE Good
<1>1. ProjectOK(project) /\ project.version <= MaxVersion /\ Kept(tasks)
  BY RoomOK DEF Start
<1>2. project.life = "executing" /\ project.life # "blocked"
  BY DEF Start
<1>3. project.version + 1 \in 1..MaxVersion + 1
  BY <1>1, NextVersion
<1>4. "active" \in Modes
  BY DEF Modes
<1>5. project' = [project EXCEPT !.mode = "active", !.version = @ + 1] /\ tasks' = tasks
  BY DEF Start
<1>6. ProjectOK(project') /\ project'.plan = project.plan
  BY <1>1, <1>2, <1>3, <1>4, <1>5 DEF ProjectOK, ProjectRows
<1>7. GoesBack
  BY <1>2 DEF GoesBack
<1> QED
  BY <1>1, <1>5, <1>6, <1>7, Keeps

\* The project is only counted on.
LEMMA CountsOK ==
  ASSUME IInv, Room, project' = [project EXCEPT !.version = @ + 1], Kept(tasks') PROVE Good
<1>1. ProjectOK(project) /\ project.version <= MaxVersion
  BY RoomOK
<1>2. /\ ProjectOK(project') /\ project'.plan = project.plan
      /\ project'.life = project.life /\ project'.prev = project.prev
  BY <1>1, CountedOK
<1>3. GoesBack
  BY <1>2 DEF GoesBack
<1> QED
  BY <1>2, <1>3, Keeps

\* The project stays as it is.
LEMMA SameProjectOK ==
  ASSUME IInv, project' = project, Kept(tasks') PROVE Good
<1>1. ProjectOK(project')
  BY DEF IInv
<1>2. GoesBack
  BY DEF GoesBack
<1> QED
  BY <1>1, <1>2, Keeps

LEMMA ProjectPauseOK ==
  ASSUME IInv, Room, project' = Paused(project), tasks' = PausedTasks(Tasks) PROVE Good
<1>1. ProjectOK(project) /\ project.version < MaxVersion /\ Kept(tasks')
  BY RoomOK, PausedKept
<1>2. /\ ProjectOK(project') /\ project'.plan = project.plan /\ project'.life = "blocked"
      /\ project.life = "blocked" => project'.prev = project.prev
  BY <1>1, PausedOK
<1>3. GoesBack
  BY <1>2 DEF GoesBack
<1> QED
  BY <1>1, <1>2, <1>3, Keeps

\* Resume and stop lead back to where the project was.
LEMMA UnblockingOK ==
  ASSUME IInv, Room, NEW m \in {"active", "manual"}, project' = Unblocked(project, m),
         Kept(tasks')
  PROVE  Good
<1>1. ProjectOK(project) /\ project.version < MaxVersion
  BY RoomOK
<1>2. /\ ProjectOK(project') /\ project'.plan = project.plan
      /\ project.life = "blocked" => project'.life = project.prev
  BY <1>1, UnblockedOK
<1>3. GoesBack
  <2>1. SUFFICES ASSUME project.life = "blocked" PROVE project'.life # "blocked"
    BY <1>2 DEF GoesBack
  <2>2. project'.life \in States
    BY <1>1, <1>2, <2>1 DEF ProjectOK
  <2> QED
    BY <2>2 DEF States, Successor
<1> QED
  BY <1>2, <1>3, Keeps

LEMMA ResumeOK == ASSUME IInv, Resume PROVE Good
<1>1. Room /\ tasks \in [Tasks -> TaskRows]
  BY DEF Resume, IInv
<1>2. Kept(tasks')
  BY <1>1, ResumedTaskOK DEF Resume, Kept
<1> QED
  BY <1>1, <1>2, UnblockingOK DEF Resume

LEMMA ResumeTasksOK == ASSUME IInv, NEW S, ResumeTasks(S) PROVE Good
<1>1. Room /\ tasks \in [Tasks -> TaskRows]
  BY DEF ResumeTasks, IInv
<1>2. Kept(tasks')
  BY <1>1, ResumedTaskOK DEF ResumeTasks, Kept
<1> QED
  BY <1>1, <1>2, CountsOK DEF ResumeTasks

LEMMA StopOK == ASSUME IInv, Stop PROVE Good
<1>1. Room /\ tasks \in [Tasks -> TaskRows]
  BY DEF Stop, IInv
<1>2. Kept(tasks')
  BY <1>1, StoppedTaskOK DEF Stop, Kept
<1> QED
  BY <1>1, <1>2, UnblockingOK DEF Stop

LEMMA CreateTasksOK ==
  ASSUME IInv, NEW S \in SUBSET Tasks, NEW c \in Contracts, CreateTasks(S, c) PROVE Good
<1>1. project' = project /\ ProjectOK(project')
  BY DEF CreateTasks, IInv
<1>2. tasks' \in [Tasks -> TaskRows] /\ ContractsFit'
  BY CreationFits DEF CreateTasks
<1> QED
  BY <1>1, <1>2 DEF Good, IInv, GoesBack

LEMMA EditTaskOK ==
  ASSUME IInv, NEW t \in Tasks, NEW c \in Contracts, EditTask(t, c) PROVE Good
<1>1. project' = project /\ ProjectOK(project')
  BY DEF EditTask, IInv
<1>2. tasks' \in [Tasks -> TaskRows] /\ ContractsFit'
  BY EditFits DEF EditTask
<1> QED
  BY <1>1, <1>2 DEF Good, IInv, GoesBack

\* One task goes on.
LEMMA TaskGoesOn ==
  ASSUME IInv, NEW t \in Tasks, NEW d \in Dispatches \ {"absent"}, NEW b \in BOOLEAN,
         tasks[t].dispatch # "absent"
  PROVE  /\ Kept([tasks EXCEPT ![t] = [@ EXCEPT !.dispatch = d, !.passed = b]])
         /\ Kept([tasks EXCEPT ![t].dispatch = d])
<1> DEFINE r == tasks[t]
           q == [r EXCEPT !.dispatch = d, !.passed = b]
           p == [r EXCEPT !.dispatch = d]
<1>1. tasks \in [Tasks -> TaskRows] /\ r \in TaskRows
  BY DEF IInv
<1>2. /\ q \in TaskRows /\ q.deps = r.deps /\ q.milestone = r.milestone /\ q.dispatch # "absent"
      /\ p \in TaskRows /\ p.deps = r.deps /\ p.milestone = r.milestone /\ p.dispatch # "absent"
  BY <1>1 DEF TaskRows
<1>3. /\ [tasks EXCEPT ![t] = [@ EXCEPT !.dispatch = d, !.passed = b]] = [tasks EXCEPT ![t] = q]
      /\ [tasks EXCEPT ![t].dispatch = d] = [tasks EXCEPT ![t] = p]
  OBVIOUS
<1> HIDE DEF q, p
<1>4. Kept([tasks EXCEPT ![t] = q]) /\ Kept([tasks EXCEPT ![t] = p])
  BY <1>1, <1>2, OneKept
<1> QED
  BY <1>3, <1>4

LEMMA ApproveOK == ASSUME IInv, NEW t \in Tasks, Approve(t) PROVE Good
<1>1. tasks[t].dispatch # "absent" /\ "ready" \in Dispatches \ {"absent"}
  BY DEF Approve, Dispatches
<1>2. Kept(tasks')
  BY <1>1, TaskGoesOn DEF Approve
<1> QED
  BY <1>2, SameProjectOK DEF Approve

LEMMA ClaimOK == ASSUME IInv, NEW t \in Tasks, Claim(t) PROVE Good
<1>1. CASE \E u \in Tasks \ {t} : tasks[u].dispatch = "claimed"
  BY <1>1, ProjectPauseOK DEF Claim
<1>2. CASE ~\E u \in Tasks \ {t} : tasks[u].dispatch = "claimed"
  <2>1. tasks[t].dispatch # "absent" /\ "claimed" \in Dispatches \ {"absent"}
    BY DEF Claim, Dispatches
  <2>2. Kept(tasks')
    BY <1>2, <2>1, TaskGoesOn DEF Claim
  <2> QED
    BY <1>2, <2>2, SameProjectOK DEF Claim
<1> QED
  BY <1>1, <1>2

LEMMA FinishOK == ASSUME IInv, NEW t \in Tasks, Finish(t) PROVE Good
<1>1. tasks[t].dispatch # "absent" /\ "done" \in Dispatches \ {"absent"}
  BY DEF Finish, Dispatches
<1>2. Kept(tasks')
  BY <1>1, TaskGoesOn DEF Finish
<1>3. project' = Reviewed(project, tasks') /\ ProjectOK(project) /\ project.version <= MaxVersion
  BY RoomOK DEF Finish
<1>4. CASE project' = project
  BY <1>2, <1>4, SameProjectOK
<1>5. CASE /\ project' = [project EXCEPT !.life = "awaiting_milestone_acceptance", !.version = @ + 1]
           /\ project.life = "executing"
  <2>1. project.version + 1 \in 1..MaxVersion + 1
    BY <1>3, NextVersion
  <2>2. "awaiting_milestone_acceptance" \in States
    BY DEF States
  <2>3. ProjectOK(project') /\ project'.plan = project.plan
    BY <1>3, <1>5, <2>1, <2>2 DEF ProjectOK, ProjectRows
  <2>4. GoesBack
    BY <1>5 DEF GoesBack
  <2> QED
    BY <1>2, <2>3, <2>4, Keeps
<1> QED
  BY <1>3, <1>4, <1>5 DEF Reviewed

LEMMA FailOK == ASSUME IInv, NEW t \in Tasks, Fail(t) PROVE Good
<1>1. Kept(tasks')
  BY PausedKept DEF Fail, IInv
<1> QED
  BY <1>1, SameProjectOK DEF Fail

LEMMA StepGood == ASSUME IInv, [Next]_vars PROVE Good
<1>1. CASE ContractNext
  <2>1. project.plan \in Plans
    BY DEF IInv, ProjectOK, ProjectRows
  <2> QED
    BY <1>1, <2>1, SendPlanOK, MoveOK, BlockOK DEF ContractNext
<1>2. CASE TakeoverNext
  <2>1. ASSUME Pause PROVE Good
    BY <2>1, PauseOK
  <2>2. ASSUME NEW t \in Tasks, PauseTask(t) PROVE Good
    BY <2>2, PausedKept, CountsOK DEF PauseTask, IInv
  <2> QED
    BY <1>2, <2>1, <2>2, StartOK, ResumeOK, ResumeTasksOK, StopOK DEF TakeoverNext
<1>3. CASE TaskNext
  BY <1>3, CreateTasksOK, EditTaskOK, ApproveOK, ClaimOK, FinishOK, FailOK DEF TaskNext
<1>4. CASE UNCHANGED vars
  BY <1>4, SameKept, SameProjectOK DEF vars, IInv
<1> QED
  BY <1>1, <1>2, <1>3, <1>4 DEF Next

LEMMA Invariance == Spec => []IInv
<1>1. IInv /\ [Next]_vars => IInv'
  BY StepGood DEF Good
<1> QED
  BY <1>1, InitOK, PTL DEF Spec

-----------------------------------------------------------------------------
\* What the invariant and the steps give.

\* A project under takeover pause is blocked and nothing else is, and it knows
\* a state to go back to.
THEOREM TypeCorrect == Spec => []TypeOK
<1>1. IInv => TypeOK
  <2> SUFFICES ASSUME IInv PROVE TypeOK
    OBVIOUS
  <2>1. "" \notin States
    BY DEF States, Successor
  <2>2. project.life = "blocked" => project.prev # ""
    BY <2>1 DEF IInv, ProjectOK
  <2>3. \A t \in Tasks : tasks[t].dispatch \in Dispatches
    BY DEF IInv, TaskRows
  <2>4. /\ project.life \in States \cup {"blocked"} /\ project.mode \in Modes
        /\ project.prev \in States \cup {""} /\ project.milestone \in Reached
        /\ project.version \in 1..MaxVersion + 1
        /\ project.life = "blocked" <=> project.mode = "paused"
    BY DEF IInv, ProjectOK, ProjectRows
  <2> QED
    BY <2>2, <2>3, <2>4 DEF TypeOK, Modes, Reached, Dispatches
<1> QED
  BY <1>1, Invariance, PTL

\* Whatever plans, contracts and requests there are, and in whatever order they
\* come: no task names a milestone that is not planned, waits for a task that is
\* not there, or for itself through others.
THEOREM NoCircles == Spec => []ContractsFit
<1>1. IInv => ContractsFit
  BY DEF IInv
<1> QED
  BY <1>1, Invariance, PTL

\* A project that was blocked, once or several times over, goes on where it was.
THEOREM GoesOn == Spec => BackToWhereItWas
<1>1. IInv /\ [Next]_vars => GoesBack
  BY StepGood DEF Good
<1> QED
  BY <1>1, Invariance, PTL DEF Spec, BackToWhereItWas, GoesBack
=============================================================================
