------------------------- MODULE TaskDispatchProofs -------------------------
(***************************************************************************)
(* What holds of leases and dispatch for any tasks, dependencies, leases   *)
(* and time to live: authority over a task is single, one claimed task at  *)
(* a time works in the project's directory, only an acceptance command     *)
(* under a lease verifies a task, and, as long as the server does not stop *)
(* inside a session, closed executions stop and nothing is retried without *)
(* a human.                                                                *)
(***************************************************************************)
EXTENDS TaskDispatch, TLAPS

-----------------------------------------------------------------------------
\* The inductive invariant.

Tables == [lease : [Leases -> {None} \cup LeaseRow], gates : SUBSET Tasks]

Dispatches ==
  {"absent", "none", "awaiting_approval", "ready", "claimed", "released", "done"}
States == {"planned", "running", "cancelled", "execution_complete"}
Attempts == {"none", "runtime", "project"}
TaskStates == [dispatch : Dispatches, paused : BOOLEAN, state : States,
               passed : BOOLEAN, baseline : BOOLEAN, risky : BOOLEAN,
               phase : Phases, attempt : Attempts]

TakeoverModes == {"", "active", "paused", "manual"}
Lifecycle == {"executing", "blocked", "awaiting_milestone_acceptance"}
Previous == {"", "executing", "awaiting_milestone_acceptance"}
Projects == [mode : TakeoverModes, life : Lifecycle, prev : Previous,
             task : [Tasks -> TaskStates]]

Memories == [recycling : SUBSET Leases,
             releasing : SUBSET [lease : Leases, next : {"ready", "done"}],
             validating : [Tasks -> {None} \cup AcceptanceRun]]

\* The lifecycle is blocked while the takeover is paused, and only then is
\* there a state to go back to.
ModeFits(j) ==
  /\ j.mode = "paused" <=> j.life = "blocked"
  /\ j.prev # "" <=> j.life = "blocked"

\* No two leases of a task are active.
OneActive(ls) ==
  \A l, k \in Leases : Active(ls, l) /\ Active(ls, k) /\ ls[l].task = ls[k].task => l = k

\* The work on a task writes to the directory of its project.
Writes(r) == r.attempt = "project" /\ r.phase = "write"

\* Of the tasks that are claimed one is at work in the project's directory.
OneWriter(j) ==
  \A t, u \in Tasks :
    /\ j.task[t].dispatch = "claimed" /\ j.task[u].dispatch = "claimed"
    /\ Writes(j.task[t]) /\ Writes(j.task[u])
    => t = u

\* Without takeover only tasks of humans are leased, and handed back.
ByHumans(ls, j, m) ==
  /\ j.mode = "" => \A l \in Leases : ls[l] # None => ls[l].task \in Human
  /\ \A x \in m.releasing : ls[x.lease].task \in Human

\* What handlers remember of leases is true for ever.
Remembered(ls, m) ==
  /\ \A l \in m.recycling : ls[l] # None /\ ls[l].status = "expired"
  /\ \A x \in m.releasing : ls[x.lease] # None
  /\ \A t \in Tasks : m.validating[t] # None =>
       ls[m.validating[t].lease] # None /\ ls[m.validating[t].lease].task = t

\* No human is asked about a task that is dispatched already.
Gated(gates, j) ==
  \A t \in gates : t \notin Human /\ j.task[t].dispatch \notin {"ready", "claimed", "released"}

IInv ==
  /\ db \in Tables /\ js \in Projects /\ mem \in Memories
  /\ now \in 0..MaxTime /\ failures \in 0..MaxFailures
  /\ ModeFits(js) /\ OneWriter(js) /\ OneActive(db.lease)
  /\ ByHumans(db.lease, js, mem) /\ Remembered(db.lease, mem)
  /\ MaxFailures = 0 => Gated(db.gates, js) /\ ClosedTasksStop

-----------------------------------------------------------------------------
\* What no step does.

Verified ==
  \A t \in Tasks : ~Task(t).passed /\ Task(t)'.passed =>
    /\ mem.validating[t] # None
    /\ mem.validating[t].result = "passed"
    /\ HasAuthority(mem.validating[t].lease)

NotRetried ==
  \A t \in Tasks :
    Managed(js) /\ Task(t).dispatch \in {"claimed", "released"} /\ Task(t)'.dispatch = "ready"
      => Task(t).paused /\ ~Task(t)'.paused

StaysPaused ==
  \A t \in Tasks :
    js.mode = "paused" /\ js'.mode = "paused" /\ Task(t).dispatch = "released"
      => Task(t)'.dispatch \notin {"ready", "claimed"}

StaysManaged == js'.mode = "" => js.mode = ""

\* A step is good that keeps the invariant and does none of these.
Good == IInv' /\ Verified /\ StaysManaged /\ (MaxFailures = 0 => NotRetried /\ StaysPaused)

-----------------------------------------------------------------------------
\* Steps that only take back: nothing becomes verified, ready or claimed, and
\* no work starts.

Calmer(r, q) ==
  /\ q.passed => r.passed
  /\ q.dispatch = "claimed" => r.dispatch = "claimed"
  /\ q.dispatch = "ready" => r.dispatch = "ready"
  /\ q.dispatch = "released" => r.dispatch \in {"ready", "claimed", "released"}
  /\ Writes(q) => Writes(r)

Calm(k, j) ==
  /\ \A t \in Tasks : Calmer(k.task[t], j.task[t])
  /\ j.mode = "" => k.mode = ""

LEMMA CalmTwice ==
  ASSUME NEW i, NEW k, NEW j, Calm(i, k), Calm(k, j) PROVE Calm(i, j)
BY DEF Calm, Calmer

LEMMA CalmNever == ASSUME NEW j PROVE Calm(j, j)
BY DEF Calm, Calmer

\* One field of a task.
LEMMA FlagSet ==
  ASSUME NEW r \in TaskStates, NEW b \in BOOLEAN
  PROVE  /\ LET q == [r EXCEPT !.paused = b] IN
              /\ q \in TaskStates /\ q.paused = b
              /\ q.passed = r.passed /\ q.dispatch = r.dispatch
              /\ q.phase = r.phase /\ q.attempt = r.attempt
         /\ LET q == [r EXCEPT !.passed = b] IN
              /\ q \in TaskStates /\ q.passed = b /\ q.dispatch = r.dispatch
              /\ q.phase = r.phase /\ q.attempt = r.attempt
         /\ LET q == [r EXCEPT !.baseline = b] IN
              /\ q \in TaskStates /\ q.paused = r.paused
              /\ q.passed = r.passed /\ q.dispatch = r.dispatch
              /\ q.phase = r.phase /\ q.attempt = r.attempt
         /\ LET q == [r EXCEPT !.risky = b] IN
              /\ q \in TaskStates
              /\ q.passed = r.passed /\ q.dispatch = r.dispatch
              /\ q.phase = r.phase /\ q.attempt = r.attempt
BY DEF TaskStates

LEMMA DispatchSet ==
  ASSUME NEW r \in TaskStates, NEW e \in Dispatches
  PROVE  LET q == [r EXCEPT !.dispatch = e] IN
           /\ q \in TaskStates /\ q.dispatch = e
           /\ q.passed = r.passed /\ q.paused = r.paused
           /\ q.phase = r.phase /\ q.attempt = r.attempt
BY DEF TaskStates

LEMMA StateSet ==
  ASSUME NEW r \in TaskStates, NEW s \in States
  PROVE  LET q == [r EXCEPT !.state = s] IN
           /\ q \in TaskStates /\ q.passed = r.passed /\ q.dispatch = r.dispatch
           /\ q.phase = r.phase /\ q.attempt = r.attempt
BY DEF TaskStates

LEMMA AttemptSet ==
  ASSUME NEW r \in TaskStates, NEW a \in Attempts
  PROVE  LET q == [r EXCEPT !.attempt = a] IN
           /\ q \in TaskStates /\ q.passed = r.passed /\ q.dispatch = r.dispatch
           /\ q.paused = r.paused /\ q.phase = r.phase /\ q.attempt = a
BY DEF TaskStates

\* Pausing a task is calm.
LEMMA PausedTaskIs ==
  ASSUME NEW r \in TaskStates, r.dispatch # "absent"
  PROVE  LET q == PausedTask(r) IN
         /\ q \in TaskStates /\ q.passed = r.passed /\ q.attempt = "none"
         /\ q.dispatch = IF r.dispatch \in {"claimed", "ready"} THEN "released" ELSE r.dispatch
<1> DEFINE b == r.paused \/ r.dispatch # "done"
           e == IF r.dispatch \in {"claimed", "ready"} THEN "released" ELSE r.dispatch
           p == [r EXCEPT !.paused = b]
           o == [p EXCEPT !.dispatch = e]
           q == [o EXCEPT !.attempt = "none"]
<1>1. b \in BOOLEAN /\ e \in Dispatches /\ "none" \in Attempts
  BY DEF TaskStates, Dispatches, Attempts
<1>2. PausedTask(r) = q
  BY DEF PausedTask
<1> HIDE DEF b
<1>3. p \in TaskStates /\ p.passed = r.passed
  BY <1>1 DEF TaskStates
<1> HIDE DEF p
<1>4. o \in TaskStates /\ o.dispatch = e /\ o.passed = r.passed
  <2> HIDE DEF e
  <2> QED
    BY <1>1, <1>3, DispatchSet
<1> HIDE DEF o
<1>5. q \in TaskStates /\ q.dispatch = e /\ q.passed = r.passed /\ q.attempt = "none"
  <2> HIDE DEF e
  <2> QED
    BY <1>1, <1>4, AttemptSet
<1> QED
  BY <1>2, <1>5

LEMMA PausedTaskCalm ==
  ASSUME NEW r \in TaskStates PROVE PausedTask(r) \in TaskStates /\ Calmer(r, PausedTask(r))
<1>1. CASE r.dispatch = "absent"
  BY <1>1 DEF PausedTask, Calmer
<1>2. CASE r.dispatch # "absent"
  BY <1>2, PausedTaskIs DEF Calmer, Writes
<1> QED
  BY <1>1, <1>2

LEMMA PauseTasksCalm ==
  ASSUME NEW j \in Projects, NEW ts
  PROVE  LET k == PauseTasks(j, ts) IN
         /\ k \in Projects /\ Calm(j, k)
         /\ k.mode = j.mode /\ k.life = j.life /\ k.prev = j.prev
<1> DEFINE f == [u \in Tasks |-> IF u \in ts THEN PausedTask(j.task[u]) ELSE j.task[u]]
<1>1. PauseTasks(j, ts) = [j EXCEPT !.task = f]
  BY DEF PauseTasks
<1>2. \A u \in Tasks : f[u] \in TaskStates /\ Calmer(j.task[u], f[u])
  BY PausedTaskCalm DEF Projects, Calmer
<1>3. f \in [Tasks -> TaskStates]
  BY <1>2
<1> HIDE DEF f
<1> QED
  BY <1>1, <1>2, <1>3 DEF Projects, Calm

\* A project moved to another mode.
Moved(k, m, l, q) == [k EXCEPT !.mode = m, !.life = l, !.prev = q]

LEMMA MovedIs ==
  ASSUME NEW k \in Projects,
         NEW m \in TakeoverModes, NEW l \in Lifecycle, NEW q \in Previous
  PROVE  LET i == Moved(k, m, l, q) IN
         /\ i \in Projects /\ i.task = k.task
         /\ i.mode = m /\ i.life = l /\ i.prev = q
BY DEF Projects, Moved

LEMMA PauseProjectCalm ==
  ASSUME NEW j \in Projects, ModeFits(j)
  PROVE  PauseProject(j) \in Projects /\ ModeFits(PauseProject(j)) /\ Calm(j, PauseProject(j))
<1> DEFINE k == PauseTasks(j, Tasks)
           p == IF j.life # "blocked" THEN j.life ELSE k.prev
           i == Moved(k, "paused", "blocked", p)
<1>1. /\ k \in Projects /\ Calm(j, k)
      /\ k.mode = j.mode /\ k.life = j.life /\ k.prev = j.prev
  BY PauseTasksCalm
<1>2. PauseProject(j) = i
  BY DEF PauseProject, Moved
<1>3. p \in Previous /\ p # ""
  <2>1. j.life \in Lifecycle /\ j.prev \in Previous
    BY DEF Projects
  <2>2. CASE j.life = "blocked"
    BY <1>1, <2>1, <2>2 DEF ModeFits
  <2>3. CASE j.life # "blocked"
    BY <2>1, <2>3 DEF Lifecycle, Previous
  <2> QED
    BY <2>2, <2>3
<1>4. p \in Previous
  BY <1>3
<1> HIDE DEF k, p
<1>5. /\ i \in Projects /\ i.task = k.task
      /\ i.mode = "paused" /\ i.life = "blocked" /\ i.prev = p
  <2>1. "paused" \in TakeoverModes /\ "blocked" \in Lifecycle
    BY DEF TakeoverModes, Lifecycle
  <2> QED
    BY <1>1, <1>4, <2>1, MovedIs
<1> HIDE DEF i
<1> QED
  BY <1>1, <1>2, <1>3, <1>5 DEF ModeFits, Calm

LEMMA WithTaskIs ==
  ASSUME NEW j \in Projects, NEW t \in Tasks, NEW r \in TaskStates
  PROVE  LET k == WithTask(j, t, r) IN
         /\ k \in Projects
         /\ k.task[t] = r /\ \A u \in Tasks \ {t} : k.task[u] = j.task[u]
         /\ k.mode = j.mode /\ k.life = j.life /\ k.prev = j.prev
BY SMT DEF WithTask, Projects

LEMMA WithTaskCalm ==
  ASSUME NEW j \in Projects, NEW t \in Tasks, NEW r \in TaskStates, Calmer(j.task[t], r)
  PROVE  Calm(j, WithTask(j, t, r))
<1> DEFINE k == WithTask(j, t, r)
<1>1. /\ k.task[t] = r /\ \A u \in Tasks \ {t} : k.task[u] = j.task[u]
      /\ k.mode = j.mode
  BY WithTaskIs
<1> HIDE DEF k
<1>2. ASSUME NEW u \in Tasks PROVE Calmer(j.task[u], k.task[u])
  BY <1>1 DEF Calmer
<1>3. Calm(j, k)
  BY <1>1, <1>2 DEF Calm
<1> QED
  BY <1>3 DEF k

-----------------------------------------------------------------------------
\* Steps that grant nothing: leases stay what they are or are closed.

Rows == [Leases -> {None} \cup LeaseRow]

Kin(ls, ks) ==
  \A l \in Leases :
    /\ ls[l] # None <=> ks[l] # None
    /\ ls[l] # None => ks[l].task = ls[l].task
    /\ ls[l] # None /\ ls[l].status = "expired" => ks[l].status = "expired"
    /\ Active(ks, l) => Active(ls, l)

LEMMA KinKeeps ==
  ASSUME NEW ls, NEW ks, NEW j, NEW m \in Memories, Kin(ls, ks),
         OneActive(ls), ByHumans(ls, j, m), Remembered(ls, m)
  PROVE  OneActive(ks) /\ ByHumans(ks, j, m) /\ Remembered(ks, m)
<1>1. OneActive(ks)
  BY DEF Kin, OneActive, Active
<1>2. ByHumans(ks, j, m)
  <2>1. \A x \in m.releasing : x.lease \in Leases
    BY DEF Memories
  <2> QED
    BY <2>1 DEF Kin, ByHumans, Remembered
<1>3. Remembered(ks, m)
  <2>1. m.recycling \subseteq Leases /\ \A x \in m.releasing : x.lease \in Leases
    BY DEF Memories
  <2>2. \A t \in Tasks : m.validating[t] # None => m.validating[t].lease \in Leases
    BY DEF Memories, AcceptanceRun
  <2> QED
    BY <2>1, <2>2 DEF Kin, Remembered
<1> QED
  BY <1>1, <1>2, <1>3

\* A row that ends, and one with another term.
RowAs(r, s) == [r EXCEPT !.status = s]
RowUntil(r, e) == [r EXCEPT !.expires = e]

LEMMA RowIs ==
  ASSUME NEW r \in LeaseRow
  PROVE  r # None
BY DispatchConstants DEF DispatchConstants

LEMMA RowClosed ==
  ASSUME NEW r \in LeaseRow, NEW s \in {"active", "released", "expired"}
  PROVE  /\ RowAs(r, s) \in LeaseRow /\ RowAs(r, s) # None
         /\ RowAs(r, s).task = r.task /\ RowAs(r, s).status = s
<1>1. RowAs(r, s) \in LeaseRow /\ RowAs(r, s).task = r.task /\ RowAs(r, s).status = s
  BY DEF LeaseRow, RowAs
<1> QED
  BY <1>1, RowIs

LEMMA RowTerm ==
  ASSUME NEW r \in LeaseRow, NEW e \in 0..(MaxTime + LeaseTTL)
  PROVE  /\ RowUntil(r, e) \in LeaseRow /\ RowUntil(r, e) # None
         /\ RowUntil(r, e).task = r.task /\ RowUntil(r, e).status = r.status
<1>1. /\ RowUntil(r, e) \in LeaseRow
      /\ RowUntil(r, e).task = r.task /\ RowUntil(r, e).status = r.status
  BY DEF LeaseRow, RowUntil
<1> QED
  BY <1>1, RowIs

LEMMA RevokeKin ==
  ASSUME NEW ls \in Rows, NEW j
  PROVE  /\ Revoke(ls, j) \in Rows /\ Kin(ls, Revoke(ls, j))
         /\ \A l \in Leases : Active(Revoke(ls, j), l) =>
              Active(ls, l) /\ ~executionClosed(j, Revoke(ls, j)[l].task)
<1> DEFINE ks == Revoke(ls, j)
<1>1. ASSUME NEW l \in Leases, Active(ls, l), executionClosed(j, ls[l].task)
      PROVE  /\ ks[l] \in LeaseRow /\ ks[l] # None /\ ls[l] # None
             /\ ks[l].task = ls[l].task /\ ls[l].status = "active" /\ ks[l].status = "released"
  <2>1. ls[l] \in LeaseRow /\ ls[l] # None /\ ls[l].status = "active"
    BY <1>1 DEF Rows, Active
  <2>2. ks[l] = RowAs(ls[l], "released")
    BY <1>1 DEF Revoke, RowAs
  <2>3. "released" \in {"active", "released", "expired"}
    OBVIOUS
  <2> QED
    BY <2>1, <2>2, <2>3, RowClosed
<1>2. ASSUME NEW l \in Leases, ~(Active(ls, l) /\ executionClosed(j, ls[l].task))
      PROVE  ks[l] = ls[l]
  BY <1>2 DEF Revoke
<1>3. ks \in Rows
  <2>1. ASSUME NEW l \in Leases PROVE ks[l] \in {None} \cup LeaseRow
    BY <1>1, <1>2 DEF Rows
  <2>2. ks = [l \in Leases |-> ks[l]]
    BY DEF Revoke
  <2> QED
    BY <2>1, <2>2 DEF Rows
<1> HIDE DEF ks
<1>4. Kin(ls, ks)
  BY <1>1, <1>2 DEF Kin, Active
<1>5. \A l \in Leases : Active(ks, l) => Active(ls, l) /\ ~executionClosed(j, ks[l].task)
  BY <1>1, <1>2 DEF Active
<1> QED
  BY <1>3, <1>4, <1>5 DEF ks

\* Interrupted commands stay those of their leases.
LEMMA InterruptKeeps ==
  ASSUME NEW m \in Memories, NEW j
  PROVE  LET n == [m EXCEPT !.validating = Interrupt(@, j)] IN
         /\ n \in Memories /\ n.recycling = m.recycling /\ n.releasing = m.releasing
         /\ \A t \in Tasks :
              /\ n.validating[t] # None <=> m.validating[t] # None
              /\ m.validating[t] # None => n.validating[t].lease = m.validating[t].lease
              /\ n.validating[t] # None /\ j.task[t].paused => n.validating[t].result # "running"
<1> DEFINE f == m.validating
           g == Interrupt(f, j)
<1>1. ASSUME NEW t \in Tasks, f[t] # None
      PROVE  LET q == [f[t] EXCEPT !.result = "killed"] IN
             q \in AcceptanceRun /\ q # None /\ q.lease = f[t].lease /\ q.result = "killed"
  <2>1. f[t] \in AcceptanceRun
    BY <1>1 DEF Memories
  <2>2. ASSUME NEW r \in AcceptanceRun
        PROVE LET q == [r EXCEPT !.result = "killed"] IN
              q \in AcceptanceRun /\ q.lease = r.lease /\ q.result = "killed"
    BY DEF AcceptanceRun
  <2> QED
    BY <2>1, <2>2, DispatchConstants DEF DispatchConstants
<1>2. ASSUME NEW t \in Tasks
      PROVE  /\ g[t] \in {None} \cup AcceptanceRun
             /\ g[t] # None <=> f[t] # None
             /\ f[t] # None => g[t].lease = f[t].lease
             /\ g[t] # None /\ j.task[t].paused => g[t].result # "running"
  <2>1. f[t] \in {None} \cup AcceptanceRun
    BY DEF Memories
  <2> DEFINE killed == /\ f[t] # None /\ f[t].result = "running"
                       /\ j.task[t].paused \/ j.mode \in {"paused", "manual"}
  <2>2. CASE killed
    BY <1>1, <2>2 DEF Interrupt
  <2>3. CASE ~killed
    <3>1. g[t] = f[t]
      BY <2>3 DEF Interrupt
    <3> QED
      BY <2>1, <2>3, <3>1
  <2> QED
    BY <2>2, <2>3
<1>3. g \in [Tasks -> {None} \cup AcceptanceRun]
  <2>1. g = [t \in Tasks |-> g[t]]
    BY DEF Interrupt
  <2> QED
    BY <1>2, <2>1
<1> HIDE DEF g
<1>4. LET n == [m EXCEPT !.validating = g] IN
      /\ n \in Memories /\ n.recycling = m.recycling /\ n.releasing = m.releasing
      /\ n.validating = g
  BY <1>3 DEF Memories
<1> QED
  BY <1>2, <1>4 DEF g

-----------------------------------------------------------------------------
\* What a session may leave behind.
Fit(d, j, m) ==
  /\ d \in Tables /\ j \in Projects /\ m \in Memories
  /\ ModeFits(j) /\ OneWriter(j) /\ OneActive(d.lease)
  /\ ByHumans(d.lease, js, m) /\ Remembered(d.lease, m)
  /\ j.mode = "" => js.mode = ""
  /\ MaxFailures = 0 => Gated(d.gates, j)

LEMMA IdleFits == Idle \in Memories /\ \A ls, j : Remembered(ls, Idle)
BY DEF Idle, Memories, Remembered

LEMMA CrashCounted ==
  ASSUME IInv, Crash PROVE failures' \in 0..MaxFailures /\ now' \in 0..MaxTime /\ MaxFailures # 0
<1>1. failures \in 0..MaxFailures /\ failures < MaxFailures /\ failures' = failures + 1
  BY DEF IInv, Crash
<1>2. MaxFailures \in Nat
  BY DispatchConstants DEF DispatchConstants
<1>3. failures' \in 0..MaxFailures /\ MaxFailures # 0
  BY <1>1, <1>2, SMT
<1> QED
  BY <1>3 DEF IInv, Crash

\* Whether the server survives it or not, a session keeps the invariant.
LEMMA CommitKeeps ==
  ASSUME IInv, NEW d, NEW j, NEW m, Fit(d, j, m), Commit(d, j, m)
  PROVE  IInv' /\ js' \in {js, j}
<1>1. CASE /\ js' = j /\ db' = [d EXCEPT !.lease = Revoke(@, j)]
           /\ mem' = [m EXCEPT !.validating = Interrupt(@, j)]
           /\ UNCHANGED <<now, failures>>
  <2> DEFINE ks == Revoke(d.lease, j)
  <2>1. d.lease \in Rows /\ d.gates \subseteq Tasks
    BY DEF Fit, Tables, Rows
  <2>2. /\ ks \in Rows /\ Kin(d.lease, ks)
        /\ \A l \in Leases : Active(ks, l) => ~executionClosed(j, ks[l].task)
    BY <2>1, RevokeKin
  <2> HIDE DEF ks
  <2>3. db'.lease = ks /\ db'.gates = d.gates /\ db' \in Tables
    BY <1>1, <2>1, <2>2 DEF Fit, Tables, Rows, ks
  <2>4. /\ mem' \in Memories /\ mem'.recycling = m.recycling /\ mem'.releasing = m.releasing
        /\ \A t \in Tasks :
             /\ mem'.validating[t] # None <=> m.validating[t] # None
             /\ m.validating[t] # None => mem'.validating[t].lease = m.validating[t].lease
             /\ mem'.validating[t] # None /\ j.task[t].paused =>
                  mem'.validating[t].result # "running"
    BY <1>1, InterruptKeeps DEF Fit
  <2>5. OneActive(ks) /\ ByHumans(ks, js, m) /\ Remembered(ks, m)
    BY <2>2, KinKeeps DEF Fit
  <2>6. ByHumans(ks, j, mem') /\ Remembered(ks, mem')
    <3>1. ByHumans(ks, j, mem')
      BY <2>4, <2>5 DEF ByHumans, Fit
    <3>2. Remembered(ks, mem')
      BY <2>4, <2>5 DEF Remembered
    <3> QED
      BY <3>1, <3>2
  <2>7. ClosedTasksStop'
    <3>1. ASSUME NEW l \in Leases, Active(db'.lease, l)
          PROVE  ~executionClosed(js', db'.lease[l].task)
      BY <1>1, <2>2, <2>3, <3>1
    <3>2. ASSUME NEW t \in Tasks, mem'.validating[t] # None, js'.task[t].paused
          PROVE  mem'.validating[t].result # "running"
      BY <1>1, <2>4, <3>2
    <3> QED
      BY <3>1, <3>2 DEF ClosedTasksStop, Task, Lease, Active
  <2> QED
    BY <1>1, <2>3, <2>4, <2>5, <2>6, <2>7 DEF IInv, Fit
<1>2. CASE Crash /\ js' \in {js, j} /\ db' = d
  <2>1. mem' = Idle
    BY <1>2 DEF Crash
  <2>2. failures' \in 0..MaxFailures /\ now' \in 0..MaxTime /\ MaxFailures # 0
    BY <1>2, CrashCounted
  <2>3. ByHumans(d.lease, js', mem') /\ Remembered(d.lease, mem') /\ mem' \in Memories
    <3>1. mem'.releasing = {}
      BY <2>1 DEF Idle
    <3>2. ByHumans(d.lease, js', mem')
      BY <1>2, <3>1 DEF ByHumans, Fit
    <3> QED
      BY <2>1, <3>2, IdleFits
  <2> QED
    BY <1>2, <2>2, <2>3 DEF IInv, Fit
<1> QED
  BY <1>1, <1>2 DEF Commit

-----------------------------------------------------------------------------
\* A session that does none of what no step does.

Orderly(j) ==
  /\ \A t \in Tasks : j.task[t].passed => Task(t).passed
  /\ MaxFailures = 0 => \A t \in Tasks :
       /\ Managed(js) /\ Task(t).dispatch \in {"claimed", "released"}
            /\ j.task[t].dispatch = "ready"
          => Task(t).paused /\ ~j.task[t].paused
       /\ js.mode = "paused" /\ j.mode = "paused" /\ Task(t).dispatch = "released"
          => j.task[t].dispatch \notin {"ready", "claimed"}

LEMMA OrderlyGood ==
  ASSUME IInv, NEW d, NEW j, NEW m, Fit(d, j, m), Orderly(j), Commit(d, j, m)
  PROVE  Good
<1>1. IInv' /\ js' \in {js, j}
  BY CommitKeeps
<1>2. \A t \in Tasks : js'.task[t].passed => Task(t).passed
  BY <1>1 DEF Orderly, Task
<1>3. Verified
  BY <1>2 DEF Verified, Task
<1>4. ASSUME MaxFailures = 0 PROVE NotRetried /\ StaysPaused
  <2>1. CASE js' = js
    BY <2>1 DEF NotRetried, StaysPaused, Task
  <2>2. CASE js' = j
    BY <1>4, <2>2 DEF Orderly, NotRetried, StaysPaused, Task
  <2> QED
    BY <1>1, <2>1, <2>2
<1>5. StaysManaged
  <2>1. j.mode = "" => js.mode = ""
    BY DEF Fit
  <2>2. CASE js' = js
    BY <2>2 DEF StaysManaged
  <2>3. CASE js' = j
    BY <2>1, <2>3 DEF StaysManaged
  <2> QED
    BY <1>1, <2>2, <2>3
<1> QED
  BY <1>1, <1>3, <1>4, <1>5 DEF Good

\* Sessions that only take back.
LEMMA CalmOrderly ==
  ASSUME IInv, NEW j, Calm(js, j)
  PROVE  /\ Orderly(j) /\ OneWriter(j) /\ (j.mode = "" => js.mode = "")
         /\ MaxFailures = 0 => Gated(db.gates, j)
<1>1. \A t \in Tasks : Calmer(js.task[t], j.task[t])
  BY DEF Calm
<1>2. Orderly(j)
  BY <1>1 DEF Orderly, Calmer, Task
<1>3. OneWriter(j)
  BY <1>1 DEF IInv, OneWriter, Calmer
<1>4. MaxFailures = 0 => Gated(db.gates, j)
  <2>1. db.gates \subseteq Tasks
    BY DEF IInv, Tables
  <2> QED
    BY <1>1, <2>1 DEF IInv, Gated, Calmer
<1> QED
  BY <1>2, <1>3, <1>4 DEF Calm

LEMMA CalmGood ==
  ASSUME IInv, NEW d \in Tables, NEW j \in Projects, NEW m \in Memories,
         ModeFits(j), Calm(js, j),
         OneActive(d.lease), ByHumans(d.lease, js, m), Remembered(d.lease, m),
         d.gates \subseteq db.gates \/ (MaxFailures = 0 => Gated(d.gates, j)),
         Commit(d, j, m)
  PROVE  Good
<1>1. /\ Orderly(j) /\ OneWriter(j) /\ (j.mode = "" => js.mode = "")
      /\ MaxFailures = 0 => Gated(db.gates, j)
  BY CalmOrderly
<1>2. MaxFailures = 0 => Gated(d.gates, j)
  BY <1>1 DEF Gated
<1>3. Fit(d, j, m)
  BY <1>1, <1>2 DEF Fit
<1> QED
  BY <1>1, <1>3, OrderlyGood

\* Leases and gates as they were.
LEMMA QuietGood ==
  ASSUME IInv, NEW j \in Projects, ModeFits(j), Calm(js, j), Commit(db, j, mem)
  PROVE  Good
BY CalmGood DEF IInv

\* Handlers that only forget.
LEMMA Forgetful ==
  ASSUME IInv, NEW ls, NEW m \in Memories, Kin(db.lease, ls),
         m.recycling \subseteq mem.recycling, m.releasing \subseteq mem.releasing,
         \A t \in Tasks : m.validating[t] \in {None, mem.validating[t]}
  PROVE  OneActive(ls) /\ ByHumans(ls, js, m) /\ Remembered(ls, m)
<1>1. OneActive(ls) /\ ByHumans(ls, js, mem) /\ Remembered(ls, mem)
  BY KinKeeps DEF IInv
<1>2. ByHumans(ls, js, m)
  BY <1>1 DEF ByHumans
<1>3. Remembered(ls, m)
  BY <1>1 DEF Remembered
<1> QED
  BY <1>1, <1>2, <1>3

\* A lease that is closed.
LEMMA ClosedKin ==
  ASSUME IInv, NEW l \in Leases, Releasable(l)
  PROVE  Closed(l) \in Tables /\ Closed(l).gates = db.gates /\ Kin(db.lease, Closed(l).lease)
<1> DEFINE r == RowAs(Lease(l), "released")
<1>1. Lease(l) \in LeaseRow /\ Lease(l) # None /\ Lease(l).status = "active"
  BY DEF IInv, Tables, Releasable, IsLease, Active, Lease
<1>2. r \in LeaseRow /\ r # None /\ r.task = Lease(l).task /\ r.status = "released"
  BY <1>1, RowClosed
<1>3. Closed(l) = [db EXCEPT !.lease[l] = r]
  BY DEF Closed, WithLease, RowAs
<1> HIDE DEF r
<1>4. /\ Closed(l) \in Tables /\ Closed(l).gates = db.gates
      /\ Closed(l).lease[l] = r
      /\ \A k \in Leases \ {l} : Closed(l).lease[k] = db.lease[k]
  BY <1>2, <1>3 DEF IInv, Tables
<1> QED
  BY <1>1, <1>2, <1>4 DEF Kin, Active, Lease

-----------------------------------------------------------------------------
\* Claiming.

LEMMA ClaimHighRiskGood == ASSUME IInv, ClaimHighRisk PROVE Good
BY PauseProjectCalm, QuietGood DEF IInv, ClaimHighRisk

LEMMA WithBaselineIs ==
  ASSUME NEW t, NEW r \in TaskStates
  PROVE  LET q == WithBaseline(t, r) IN
         /\ q \in TaskStates /\ q.paused = r.paused
         /\ q.passed = r.passed /\ q.dispatch = r.dispatch
         /\ q.phase = r.phase /\ q.attempt = r.attempt
<1> DEFINE b == r.baseline \/ t \in Commanded
<1>1. b \in BOOLEAN
  OBVIOUS
<1>2. WithBaseline(t, r) = [r EXCEPT !.baseline = b]
  BY DEF WithBaseline
<1> HIDE DEF b
<1>3. LET q == [r EXCEPT !.baseline = b] IN
      /\ q \in TaskStates /\ q.paused = r.paused
      /\ q.passed = r.passed /\ q.dispatch = r.dispatch
      /\ q.phase = r.phase /\ q.attempt = r.attempt
  BY <1>1 DEF TaskStates
<1> QED
  BY <1>2, <1>3

\* What a scan has paused and prepared.
LEMMA ScannedCalm ==
  ASSUME IInv, NEW failed, NEW t
  PROVE  LET j == Scanned(failed, t) IN
         /\ j \in Projects /\ Calm(js, j)
         /\ j.mode = js.mode /\ j.life = js.life /\ j.prev = js.prev
         /\ \A u \in Tasks : /\ j.task[u].dispatch = ScanState(failed, t).task[u].dispatch
                            /\ j.task[u].passed = ScanState(failed, t).task[u].passed
                            /\ j.task[u].phase = ScanState(failed, t).task[u].phase
<1> DEFINE k == ScanState(failed, t)
           q(u) == WithBaseline(u, k.task[u])
           f == [u \in Tasks |-> IF Before(u, t) /\ u \notin failed /\ Candidate(failed, u)
                                 THEN q(u) ELSE k.task[u]]
<1>1. /\ k \in Projects /\ Calm(js, k)
      /\ k.mode = js.mode /\ k.life = js.life /\ k.prev = js.prev
  BY PauseTasksCalm DEF IInv, ScanState
<1>2. Scanned(failed, t) = [k EXCEPT !.task = f]
  BY DEF Scanned
<1> HIDE DEF k
<1>3. ASSUME NEW u \in Tasks
      PROVE  /\ q(u) \in TaskStates /\ q(u).passed = k.task[u].passed
             /\ q(u).dispatch = k.task[u].dispatch
             /\ q(u).phase = k.task[u].phase /\ q(u).attempt = k.task[u].attempt
  <2>1. k.task[u] \in TaskStates
    BY <1>1 DEF Projects
  <2> QED
    BY <2>1, WithBaselineIs
<1>4. ASSUME NEW u \in Tasks
      PROVE  /\ f[u] \in TaskStates /\ f[u].passed = k.task[u].passed
             /\ f[u].dispatch = k.task[u].dispatch
             /\ f[u].phase = k.task[u].phase /\ f[u].attempt = k.task[u].attempt
  <2>1. k.task[u] \in TaskStates
    BY <1>1 DEF Projects
  <2> HIDE DEF q
  <2> QED
    BY <1>3, <2>1
<1>5. f \in [Tasks -> TaskStates]
  BY <1>4
<1> HIDE DEF f
<1>6. LET j == [k EXCEPT !.task = f] IN
      /\ j \in Projects /\ j.task = f
      /\ j.mode = k.mode /\ j.life = k.life /\ j.prev = k.prev
  BY <1>1, <1>5 DEF Projects
<1>7. Calm(js, [k EXCEPT !.task = f])
  <2>1. Calm(k, [k EXCEPT !.task = f])
    BY <1>4, <1>6 DEF Calm, Calmer, Writes
  <2> QED
    BY <1>1, <2>1, CalmTwice
<1> QED
  BY <1>1, <1>2, <1>4, <1>6, <1>7 DEF k

LEMMA ScannedFits ==
  ASSUME IInv, NEW failed, NEW t PROVE ModeFits(Scanned(failed, t))
BY ScannedCalm DEF IInv, ModeFits

LEMMA ClaimConflictGood ==
  ASSUME IInv, NEW t \in Tasks, NEW failed \in SUBSET Tasks, ClaimConflict(t, failed)
  PROVE  Good
<1> DEFINE k == Scanned(failed, t)
           j == PauseProject(k)
<1>1. k \in Projects /\ Calm(js, k) /\ ModeFits(k)
  BY ScannedCalm, ScannedFits
<1>2. j \in Projects /\ ModeFits(j) /\ Calm(k, j)
  BY <1>1, PauseProjectCalm
<1>3. Calm(js, j)
  BY <1>1, <1>2, CalmTwice
<1>4. Commit(db, j, mem)
  BY DEF ClaimConflict
<1> QED
  BY <1>2, <1>3, <1>4, QuietGood

\* Pausing tasks and nothing else.
LEMMA PauseGood ==
  ASSUME IInv, NEW ts, Commit(db, PauseTasks(js, ts), mem) PROVE Good
<1> DEFINE j == PauseTasks(js, ts)
<1>1. /\ j \in Projects /\ Calm(js, j)
      /\ j.mode = js.mode /\ j.life = js.life /\ j.prev = js.prev
  BY PauseTasksCalm DEF IInv
<1>2. ModeFits(j)
  BY <1>1 DEF IInv, ModeFits
<1> QED
  BY <1>1, <1>2, QuietGood

LEMMA ClaimNothingGood ==
  ASSUME IInv, NEW failed \in SUBSET Tasks, ClaimNothing(failed) PROVE Good
BY PauseGood DEF ClaimNothing

LEMMA TermIs == IInv => now + LeaseTTL \in 0..(MaxTime + LeaseTTL)
<1> SUFFICES ASSUME IInv PROVE now + LeaseTTL \in 0..(MaxTime + LeaseTTL)
  OBVIOUS
<1>1. MaxTime \in Nat /\ LeaseTTL \in Nat /\ now \in 0..MaxTime
  BY DispatchConstants DEF DispatchConstants, IInv
<1> QED
  BY <1>1, SMT

LEMMA NewLeaseIs ==
  ASSUME IInv, NEW t \in Tasks PROVE NewLease(t) \in LeaseRow /\ NewLease(t) # None
<1>1. NewLease(t) \in LeaseRow
  BY TermIs DEF NewLease, LeaseRow
<1> QED
  BY <1>1, DispatchConstants DEF DispatchConstants

\* What is claimed was ready, alone in its workspace if it writes, and without
\* a lease.
LEMMA ClaimedFits ==
  ASSUME IInv, NEW t \in Tasks, NEW l \in Leases, NEW failed \in SUBSET Tasks,
         Candidate(failed, t), ~Conflict(failed, t), ~Leased(t), ~IsLease(l)
  PROVE  LET k == Scanned(failed, t)
             j == WithTask(k, t, [WithBaseline(t, k.task[t]) EXCEPT !.dispatch = "claimed"])
             d == WithLease(l, NewLease(t))
         IN Fit(d, j, mem) /\ Orderly(j)
<1> DEFINE k == Scanned(failed, t)
           i == ScanState(failed, t)
           q == WithBaseline(t, k.task[t])
           r == [q EXCEPT !.dispatch = "claimed"]
           j == WithTask(k, t, r)
           d == WithLease(l, NewLease(t))
<1>1. /\ k \in Projects /\ Calm(js, k)
      /\ k.mode = js.mode /\ k.life = js.life /\ k.prev = js.prev
      /\ \A u \in Tasks : /\ k.task[u].dispatch = i.task[u].dispatch
                         /\ k.task[u].phase = i.task[u].phase
  BY ScannedCalm
<1>2. ModeFits(k) /\ OneWriter(k)
  BY <1>1, ScannedFits, CalmOrderly
<1>3. i.task[t].dispatch = "ready" /\ taskClaimAllowed(i, t) /\ ~sharedDirectoryConflict(i, t)
  BY DEF Candidate, Conflict
<1>4. i.mode = js.mode
  BY PauseTasksCalm DEF IInv, ScanState
<1> HIDE DEF i
<1>5. k.task[t] \in TaskStates /\ k.task[t].dispatch = "ready" /\ Task(t).dispatch = "ready"
  BY <1>1, <1>3 DEF Projects, Calm, Calmer, Task
<1> HIDE DEF k
<1>6. /\ r \in TaskStates /\ r.dispatch = "claimed" /\ r.passed = k.task[t].passed
      /\ r.phase = k.task[t].phase
  <2>1. q \in TaskStates /\ q.passed = k.task[t].passed /\ q.phase = k.task[t].phase
    BY <1>5, WithBaselineIs
  <2>2. "claimed" \in Dispatches
    BY DEF Dispatches
  <2> HIDE DEF q
  <2> QED
    BY <2>1, <2>2, DispatchSet
<1> HIDE DEF r
<1>7. /\ j \in Projects /\ j.task[t] = r /\ \A u \in Tasks \ {t} : j.task[u] = k.task[u]
      /\ j.mode = js.mode /\ j.life = js.life /\ j.prev = js.prev
  BY <1>1, <1>6, WithTaskIs
<1> HIDE DEF j
<1>8. ModeFits(j)
  BY <1>7 DEF IInv, ModeFits
<1>9. OneWriter(j)
  <2>1. Writes(j.task[t]) =>
          \A u \in Tasks \ {t} : ~(j.task[u].dispatch = "claimed" /\ Writes(j.task[u]))
    <3>1. ASSUME NEW u \in Tasks, Writes(j.task[u]) PROVE writable(i, u)
      BY <1>1, <1>6, <1>7, <3>1 DEF writable, Writes
    <3>2. \A u \in Tasks \ {t} : j.task[u].dispatch = i.task[u].dispatch
      BY <1>1, <1>7
    <3> QED
      BY <1>3, <3>1, <3>2 DEF sharedDirectoryConflict
  <2>2. ASSUME NEW u \in Tasks, NEW v \in Tasks,
               j.task[u].dispatch = "claimed", j.task[v].dispatch = "claimed",
               Writes(j.task[u]), Writes(j.task[v])
        PROVE  u = v
    BY <1>2, <1>7, <2>1, <2>2 DEF OneWriter
  <2> QED
    BY <2>2 DEF OneWriter
<1>10. Orderly(j)
  <2>1. \A u \in Tasks \ {t} : Calmer(js.task[u], j.task[u])
    BY <1>1, <1>7 DEF Calm
  <2>2. j.task[t].dispatch = "claimed" /\ (j.task[t].passed => Task(t).passed)
    BY <1>1, <1>6, <1>7 DEF Calm, Calmer, Task
  <2> QED
    BY <1>5, <2>1, <2>2 DEF Orderly, Calmer, Task
<1>11. MaxFailures = 0 => Gated(db.gates, j)
  <2>1. MaxFailures = 0 => Gated(db.gates, k)
    BY <1>1, CalmOrderly
  <2>2. db.gates \subseteq Tasks
    BY DEF IInv, Tables
  <2> QED
    BY <1>5, <1>7, <2>1, <2>2 DEF Gated
<1>12. NewLease(t) \in LeaseRow /\ NewLease(t) # None
  BY NewLeaseIs
<1>13. /\ d \in Tables /\ d.gates = db.gates /\ d.lease[l] = NewLease(t)
       /\ \A n \in Leases \ {l} : d.lease[n] = db.lease[n]
  BY <1>12 DEF WithLease, IInv, Tables
<1> HIDE DEF d
<1>14. OneActive(d.lease)
  <2>1. \A n \in Leases \ {l} : Active(db.lease, n) => db.lease[n].task # t
    BY DEF Leased, LeasesOf, IsLease, Lease, Active
  <2>2. NewLease(t).task = t
    BY DEF NewLease
  <2> QED
    BY <1>13, <2>1, <2>2 DEF OneActive, Active, IInv
<1>15. Remembered(d.lease, mem)
  <2>1. db.lease[l] = None
    BY DEF IsLease
  <2>2. mem \in Memories /\ Remembered(db.lease, mem)
    BY DEF IInv
  <2>3. \A x \in mem.releasing : x.lease \in Leases
    BY <2>2 DEF Memories
  <2>4. \A u \in Tasks : mem.validating[u] # None => mem.validating[u].lease \in Leases
    BY <2>2 DEF Memories, AcceptanceRun
  <2> QED
    BY <1>13, <2>1, <2>2, <2>3, <2>4 DEF Remembered, Memories
<1>16. ByHumans(d.lease, js, mem)
  <2>1. db.lease[l] = None
    BY DEF IsLease
  <2>2. js.mode = "" => t \in Human
    BY <1>3, <1>4 DEF taskClaimAllowed
  <2>3. \A x \in mem.releasing : x.lease \in Leases /\ db.lease[x.lease] # None
    BY DEF IInv, Memories, Remembered
  <2>4. NewLease(t).task = t
    BY DEF NewLease
  <2> QED
    BY <1>13, <2>1, <2>2, <2>3, <2>4 DEF ByHumans, IInv
<1>17. Fit(d, j, mem)
  <2>1. mem \in Memories
    BY DEF IInv
  <2> QED
    BY <1>7, <1>8, <1>9, <1>11, <1>13, <1>14, <1>15, <1>16, <2>1 DEF Fit
<1> QED
  BY <1>10, <1>17 DEF d, j, r, q, k

\* Also when the save fails and the lease is taken back at once.
LEMMA ClaimGood ==
  ASSUME IInv, NEW t \in Tasks, NEW l \in Leases, NEW failed \in SUBSET Tasks,
         Claim(t, l, failed)
  PROVE  Good
<1> DEFINE k == Scanned(failed, t)
           j == WithTask(k, t, [WithBaseline(t, k.task[t]) EXCEPT !.dispatch = "claimed"])
           d == WithLease(l, NewLease(t))
           r == RowAs(NewLease(t), "released")
<1>1. Fit(d, j, mem) /\ Orderly(j)
  BY ClaimedFits DEF Claim
<1>2. \/ Commit(d, j, mem)
      \/ /\ failures < MaxFailures /\ failures' = failures + 1
         /\ db' = WithLease(l, r) /\ js' \in {js, j} /\ UNCHANGED <<mem, now>>
  BY DEF Claim, RowAs
<1> HIDE DEF j, d
<1>3. CASE Commit(d, j, mem)
  BY <1>1, <1>3, OrderlyGood
<1>4. CASE /\ failures < MaxFailures /\ failures' = failures + 1
           /\ db' = WithLease(l, r) /\ js' \in {js, j} /\ UNCHANGED <<mem, now>>
  <2>1. failures' \in 0..MaxFailures /\ MaxFailures # 0
    <3>1. MaxFailures \in Nat /\ failures \in 0..MaxFailures
      BY DispatchConstants DEF DispatchConstants, IInv
    <3> QED
      BY <1>4, <3>1, SMT
  <2>2. /\ d.lease \in Rows /\ d.lease[l] = NewLease(t)
        /\ \A n \in Leases \ {l} : d.lease[n] = db.lease[n]
    BY <1>1 DEF d, WithLease, IInv, Tables, Rows, Fit
  <2>3. NewLease(t).status = "active" /\ IsLease(l) = FALSE
    BY DEF NewLease, Claim
  <2>4. NewLease(t) \in LeaseRow
    BY NewLeaseIs
  <2>5. r \in LeaseRow /\ r # None /\ r.task = NewLease(t).task /\ r.status = "released"
    BY <2>4, RowClosed
  <2> HIDE DEF r
  <2>6. /\ db' \in Tables /\ db'.lease[l] = r
        /\ \A n \in Leases \ {l} : db'.lease[n] = db.lease[n]
    BY <1>4, <2>5 DEF WithLease, IInv, Tables
  <2>7. NewLease(t) # None
    BY <2>4, DispatchConstants DEF DispatchConstants
  <2>8. Kin(d.lease, db'.lease)
    BY <2>2, <2>3, <2>5, <2>6, <2>7 DEF Kin, Active
  <2>9. OneActive(db'.lease) /\ ByHumans(db'.lease, js, mem) /\ Remembered(db'.lease, mem)
    BY <1>1, <2>8, KinKeeps DEF Fit
  <2>10. ByHumans(db'.lease, js', mem)
    BY <1>1, <1>4, <2>9 DEF ByHumans, Fit
  <2>11. IInv'
    BY <1>1, <1>4, <2>1, <2>6, <2>9, <2>10 DEF IInv, Fit
  <2>12. Verified /\ StaysManaged
    BY <1>1, <1>4 DEF Verified, Orderly, Task, StaysManaged, Fit
  <2> QED
    BY <2>1, <2>11, <2>12 DEF Good
<1> QED
  BY <1>2, <1>3, <1>4

-----------------------------------------------------------------------------
\* Staying alive.

LEMMA HeartbeatGood ==
  ASSUME IInv, NEW l \in Leases, HeartbeatClaim(l) PROVE Good
<1> DEFINE r == RowUntil(Lease(l), now + LeaseTTL)
           d == [db EXCEPT !.lease[l].expires = now + LeaseTTL]
<1>1. Lease(l) \in LeaseRow /\ Lease(l) # None
  BY DEF IInv, Tables, HeartbeatClaim, IsLease, Lease
<1>2. r \in LeaseRow /\ r # None /\ r.task = Lease(l).task /\ r.status = Lease(l).status
  BY <1>1, TermIs, RowTerm
<1>3. d = [db EXCEPT !.lease[l] = r]
  BY DEF Lease, RowUntil
<1>4. Commit(d, js, mem)
  BY DEF HeartbeatClaim
<1> HIDE DEF r, d
<1>5. /\ d \in Tables /\ d.gates = db.gates /\ d.lease[l] = r
      /\ \A k \in Leases \ {l} : d.lease[k] = db.lease[k]
  BY <1>2, <1>3 DEF IInv, Tables
<1>6. Kin(db.lease, d.lease)
  BY <1>1, <1>2, <1>5 DEF Kin, Active, Lease
<1>7. OneActive(d.lease) /\ ByHumans(d.lease, js, mem) /\ Remembered(d.lease, mem)
  BY <1>6, KinKeeps DEF IInv
<1> QED
  BY <1>4, <1>5, <1>7, CalmNever, CalmGood DEF IInv

\* Steps outside sessions touch no task.
LEMMA Elsewhere ==
  ASSUME IInv, UNCHANGED <<js, failures>>, db' \in Tables, mem' \in Memories,
         now' \in 0..MaxTime, db'.gates = db.gates,
         OneActive(db'.lease), ByHumans(db'.lease, js, mem'), Remembered(db'.lease, mem'),
         MaxFailures = 0 => ClosedTasksStop'
  PROVE  Good
<1>1. IInv'
  BY DEF IInv
<1>2. Verified /\ NotRetried /\ StaysPaused /\ StaysManaged
  BY DEF Verified, NotRetried, StaysPaused, StaysManaged, Task
<1> QED
  BY <1>1, <1>2 DEF Good

\* What is not active may stay as closed as it was.
LEMMA StillClosed ==
  ASSUME IInv, MaxFailures = 0, js' = js, mem'.validating = mem.validating,
         Kin(db.lease, db'.lease)
  PROVE  ClosedTasksStop'
<1>1. \A l \in Leases : Active(db'.lease, l) => ~executionClosed(js', db'.lease[l].task)
  BY DEF IInv, ClosedTasksStop, Kin, Lease, Active
<1> QED
  BY <1>1 DEF IInv, ClosedTasksStop, Lease, Active, Task

LEMMA ExpireGood == ASSUME IInv, ExpireStaleClaims PROVE Good
<1> DEFINE stale == {l \in Leases : Active(db.lease, l) /\ ~Unexpired(l)}
           ls == [l \in Leases |->
                    IF l \in stale THEN RowAs(db.lease[l], "expired")
                    ELSE db.lease[l]]
<1>1. /\ db' = [db EXCEPT !.lease = ls]
      /\ mem' = [mem EXCEPT !.recycling = @ \cup stale]
      /\ UNCHANGED <<js, now, failures>>
  BY DEF ExpireStaleClaims, RowAs
<1>2. ASSUME NEW l \in stale
      PROVE  /\ db.lease[l] # None /\ ls[l] \in LeaseRow /\ ls[l] # None
             /\ ls[l].task = db.lease[l].task /\ ls[l].status = "expired"
  <2>1. db.lease[l] \in LeaseRow /\ db.lease[l] # None
    BY DEF Active, IInv, Tables
  <2> QED
    BY <2>1, RowClosed
<1>3. \A l \in Leases \ stale : ls[l] = db.lease[l]
  OBVIOUS
<1>4. ls \in Rows
  <2>1. \A l \in Leases : ls[l] \in {None} \cup LeaseRow
    BY <1>2, <1>3 DEF IInv, Tables
  <2> QED
    BY <2>1 DEF Rows
<1>5. stale \subseteq Leases
  OBVIOUS
<1> HIDE DEF ls, stale
<1>6. Kin(db.lease, ls)
  BY <1>2, <1>3 DEF Kin, Active
<1>7. db' \in Tables /\ db'.lease = ls /\ db'.gates = db.gates
  BY <1>1, <1>4 DEF IInv, Tables, Rows
<1>8. /\ mem' \in Memories /\ mem'.recycling = mem.recycling \cup stale
      /\ mem'.releasing = mem.releasing /\ mem'.validating = mem.validating
  BY <1>1, <1>5 DEF IInv, Memories
<1>9. OneActive(ls) /\ ByHumans(ls, js, mem) /\ Remembered(ls, mem)
  BY <1>6, KinKeeps DEF IInv
<1>10. ByHumans(ls, js, mem') /\ Remembered(ls, mem')
  BY <1>2, <1>8, <1>9 DEF ByHumans, Remembered
<1>11. MaxFailures = 0 => ClosedTasksStop'
  BY <1>1, <1>6, <1>7, <1>8, StillClosed
<1>12. now' \in 0..MaxTime
  BY <1>1 DEF IInv
<1> QED
  BY <1>1, <1>7, <1>8, <1>9, <1>10, <1>11, <1>12, Elsewhere

-----------------------------------------------------------------------------
\* Sessions that dispatch one task.

LEMMA OneTaskFits ==
  ASSUME IInv, NEW t \in Tasks, NEW r \in TaskStates,
         r.dispatch = "claimed" => Task(t).dispatch = "claimed",
         r.dispatch = "claimed" /\ Writes(r) => Writes(Task(t)),
         NEW d \in Tables, NEW m \in Memories,
         OneActive(d.lease), ByHumans(d.lease, js, m), Remembered(d.lease, m),
         \A u \in d.gates : u \in db.gates \/ (u = t /\ t \notin Human),
         MaxFailures = 0 /\ t \in d.gates => r.dispatch \notin {"ready", "claimed", "released"}
  PROVE  Fit(d, WithTask(js, t, r), m)
<1> DEFINE j == WithTask(js, t, r)
<1>1. /\ j \in Projects /\ j.task[t] = r /\ \A u \in Tasks \ {t} : j.task[u] = js.task[u]
      /\ j.mode = js.mode /\ j.life = js.life /\ j.prev = js.prev
  BY WithTaskIs DEF IInv
<1> HIDE DEF j
<1>2. ModeFits(j)
  BY <1>1 DEF IInv, ModeFits
<1>3. OneWriter(j)
  BY <1>1 DEF IInv, OneWriter, Task
<1>4. MaxFailures = 0 => Gated(d.gates, j)
  <2>1. d.gates \subseteq Tasks
    BY DEF Tables
  <2> QED
    BY <1>1, <2>1 DEF IInv, Gated
<1>5. Fit(d, j, m)
  BY <1>1, <1>2, <1>3, <1>4 DEF Fit
<1> QED
  BY <1>5 DEF j

LEMMA OneTaskOrderly ==
  ASSUME IInv, NEW t \in Tasks, NEW r \in TaskStates, r.passed => Task(t).passed,
         MaxFailures = 0 /\ Task(t).dispatch \in {"claimed", "released"} =>
           r.dispatch \notin {"ready", "claimed"} \/ ~Managed(js)
  PROVE  Orderly(WithTask(js, t, r))
<1> DEFINE j == WithTask(js, t, r)
<1>1. /\ j.task[t] = r /\ \A u \in Tasks \ {t} : j.task[u] = js.task[u]
      /\ j.mode = js.mode
  BY WithTaskIs DEF IInv
<1> HIDE DEF j
<1>2. Managed(js) \/ js.mode # "paused"
  BY DEF Managed
<1>3. \A u \in Tasks : j.task[u].passed => Task(u).passed
  BY <1>1 DEF Task
<1>4. ASSUME MaxFailures = 0, NEW u \in Tasks
      PROVE  /\ Managed(js) /\ Task(u).dispatch \in {"claimed", "released"}
                  /\ j.task[u].dispatch = "ready"
                => Task(u).paused /\ ~j.task[u].paused
             /\ js.mode = "paused" /\ j.mode = "paused" /\ Task(u).dispatch = "released"
                => j.task[u].dispatch \notin {"ready", "claimed"}
  <2>1. CASE u = t
    BY <1>1, <1>2, <1>4, <2>1
  <2>2. CASE u # t
    BY <1>1, <2>2 DEF Task
  <2> QED
    BY <2>1, <2>2
<1>5. Orderly(j)
  BY <1>3, <1>4 DEF Orderly
<1> QED
  BY <1>5 DEF j

\* A task that was leased and is told so.
LEMMA TaskTyped == ASSUME IInv, NEW t \in Tasks PROVE Task(t) \in TaskStates
BY DEF IInv, Projects, Task

LEMMA Redispatched ==
  ASSUME IInv, NEW t \in Human, ~Managed(js), NEW e \in {"ready", "done"},
         NEW m \in Memories, OneActive(db.lease), ByHumans(db.lease, js, m),
         Remembered(db.lease, m),
         Commit(db, WithTask(js, t, [Task(t) EXCEPT !.dispatch = e]), m)
  PROVE  Good
<1> DEFINE r == [Task(t) EXCEPT !.dispatch = e]
<1>1. t \in Tasks /\ e \in Dispatches /\ e # "claimed"
  BY DispatchConstants DEF DispatchConstants, Dispatches
<1>2. r \in TaskStates /\ r.dispatch = e /\ r.passed = Task(t).passed
  BY <1>1, TaskTyped, DispatchSet
<1>3. Commit(db, WithTask(js, t, r), m)
  OBVIOUS
<1> HIDE DEF r
<1>4. MaxFailures = 0 => t \notin db.gates
  BY DEF IInv, Gated
<1>5. Fit(db, WithTask(js, t, r), m)
  <2>1. db \in Tables
    BY DEF IInv
  <2> QED
    BY <1>1, <1>2, <1>4, <2>1, OneTaskFits
<1>6. Orderly(WithTask(js, t, r))
  BY <1>1, <1>2, OneTaskOrderly
<1> QED
  BY <1>3, <1>5, <1>6, OrderlyGood

LEMMA ApplyExpiredGood ==
  ASSUME IInv, NEW l \in Leases, ApplyExpiredClaim(l) PROVE Good
<1> DEFINE t == Lease(l).task
           m == Recycled(l)
<1>1. l \in mem.recycling /\ Lease(l) # None /\ Lease(l) \in LeaseRow
  BY DEF ApplyExpiredClaim, IInv, Remembered, Tables, Lease
<1>2. t \in Tasks
  BY <1>1 DEF LeaseRow
<1>3. /\ m \in Memories /\ m.recycling \subseteq mem.recycling
      /\ m.releasing = mem.releasing /\ m.validating = mem.validating
  BY DEF IInv, Memories, Recycled
<1>4. OneActive(db.lease) /\ ByHumans(db.lease, js, m) /\ Remembered(db.lease, m)
  <2>1. Kin(db.lease, db.lease)
    BY DEF Kin
  <2> QED
    BY <1>3, <2>1, Forgetful
<1> HIDE DEF m
<1>5. CASE Leased(t)
  <2>1. Commit(db, js, m)
    BY <1>5 DEF ApplyExpiredClaim, m
  <2> QED
    BY <1>3, <1>4, <2>1, CalmNever, CalmGood DEF IInv
<1>6. CASE ~Leased(t) /\ Managed(js)
  <2> DEFINE j == PauseTasks(js, Affected(t))
  <2>1. Commit(db, j, m)
    BY <1>6 DEF ApplyExpiredClaim, m
  <2>2. /\ j \in Projects /\ Calm(js, j)
        /\ j.mode = js.mode /\ j.life = js.life /\ j.prev = js.prev
    BY PauseTasksCalm DEF IInv
  <2>3. ModeFits(j)
    BY <2>2 DEF IInv, ModeFits
  <2> QED
    BY <1>3, <1>4, <2>1, <2>2, <2>3, CalmGood DEF IInv
<1>7. CASE ~Leased(t) /\ ~Managed(js)
  <2>1. Commit(db, WithTask(js, t, [Task(t) EXCEPT !.dispatch = "ready"]), m)
    BY <1>7 DEF ApplyExpiredClaim, m
  <2>2. t \in Human
    BY <1>1, <1>7 DEF IInv, ByHumans, Managed, Lease
  <2> QED
    BY <1>3, <1>4, <1>7, <2>1, <2>2, Redispatched
<1> QED
  BY <1>5, <1>6, <1>7

-----------------------------------------------------------------------------
\* Handing back.

LEMMA ReleaseClaimGood ==
  ASSUME IInv, NEW l \in Leases, NEW next \in {"ready", "done"}, ReleaseClaim(l, next)
  PROVE  Good
<1> DEFINE x == [lease |-> l, next |-> next]
<1>1. /\ db' = Closed(l) /\ mem' = [mem EXCEPT !.releasing = @ \cup {x}]
      /\ UNCHANGED <<js, now, failures>> /\ Releasable(l) /\ js.mode = ""
  BY DEF ReleaseClaim, Managed
<1>2. db' \in Tables /\ db'.gates = db.gates /\ Kin(db.lease, db'.lease)
  BY <1>1, ClosedKin
<1>3. x \in [lease : Leases, next : {"ready", "done"}] /\ x.lease = l
  OBVIOUS
<1> HIDE DEF x
<1>4. /\ mem' \in Memories /\ mem'.recycling = mem.recycling
      /\ mem'.releasing = mem.releasing \cup {x} /\ mem'.validating = mem.validating
  BY <1>1, <1>3 DEF IInv, Memories
<1>5. /\ OneActive(db'.lease) /\ ByHumans(db'.lease, js, mem)
      /\ Remembered(db'.lease, mem)
  BY <1>2, KinKeeps DEF IInv
<1>6. db'.lease[l] # None
  BY <1>1, <1>2 DEF Kin, Releasable, Active
<1>7. ByHumans(db'.lease, js, mem') /\ Remembered(db'.lease, mem')
  <2>1. db'.lease[l].task \in Human
    BY <1>1, <1>5, <1>6 DEF ByHumans
  <2> QED
    BY <1>3, <1>4, <1>5, <1>6, <2>1 DEF ByHumans, Remembered
<1>8. MaxFailures = 0 => ClosedTasksStop'
  BY <1>1, <1>2, <1>4, StillClosed
<1>9. now' \in 0..MaxTime
  BY <1>1 DEF IInv
<1> QED
  BY <1>1, <1>2, <1>4, <1>5, <1>7, <1>8, <1>9, Elsewhere

LEMMA ApplyReleaseGood ==
  ASSUME IInv, NEW x \in mem.releasing, ApplyRelease(x) PROVE Good
<1> DEFINE t == Lease(x.lease).task
           m == [mem EXCEPT !.releasing = @ \ {x}]
<1>1. /\ x.lease \in Leases /\ x.next \in {"ready", "done"}
      /\ Lease(x.lease) # None /\ Lease(x.lease) \in LeaseRow
  BY DEF IInv, Memories, Remembered, Tables, Lease
<1>2. t \in Human /\ t \in Tasks
  BY <1>1 DEF IInv, ByHumans, Lease, LeaseRow
<1>3. /\ m \in Memories /\ m.recycling = mem.recycling
      /\ m.releasing \subseteq mem.releasing /\ m.validating = mem.validating
  BY DEF IInv, Memories
<1>4. OneActive(db.lease) /\ ByHumans(db.lease, js, m) /\ Remembered(db.lease, m)
  <2>1. Kin(db.lease, db.lease)
    BY DEF Kin
  <2> QED
    BY <1>3, <2>1, Forgetful
<1>5. Commit(db, IF x.next = "ready" /\ Managed(js) THEN PauseTasks(js, Affected(t))
                 ELSE WithTask(js, t, [Task(t) EXCEPT !.dispatch = x.next]), m)
  BY DEF ApplyRelease
<1> HIDE DEF m
<1>6. CASE x.next = "ready" /\ Managed(js)
  <2> DEFINE j == PauseTasks(js, Affected(t))
  <2>1. Commit(db, j, m)
    BY <1>5, <1>6
  <2>2. /\ j \in Projects /\ Calm(js, j)
        /\ j.mode = js.mode /\ j.life = js.life /\ j.prev = js.prev
    BY PauseTasksCalm DEF IInv
  <2>3. ModeFits(j)
    BY <2>2 DEF IInv, ModeFits
  <2> QED
    BY <1>3, <1>4, <2>1, <2>2, <2>3, CalmGood DEF IInv
<1>7. CASE x.next = "done" /\ Managed(js)
  <2> DEFINE r == [Task(t) EXCEPT !.dispatch = "done"]
             j == WithTask(js, t, r)
  <2>1. Commit(db, j, m)
    BY <1>5, <1>7
  <2>2. "done" \in Dispatches
    BY DEF Dispatches
  <2>3. r \in TaskStates /\ Calmer(js.task[t], r)
    BY <1>2, <2>2, TaskTyped, DispatchSet DEF Calmer, Task, Writes
  <2> HIDE DEF r
  <2>4. /\ j \in Projects /\ Calm(js, j)
        /\ j.mode = js.mode /\ j.life = js.life /\ j.prev = js.prev
    BY <1>2, <2>3, WithTaskIs, WithTaskCalm DEF IInv
  <2>5. ModeFits(j)
    BY <2>4 DEF IInv, ModeFits
  <2> QED
    BY <1>3, <1>4, <2>1, <2>4, <2>5, CalmGood DEF IInv
<1>8. CASE ~Managed(js)
  <2>1. Commit(db, WithTask(js, t, [Task(t) EXCEPT !.dispatch = x.next]), m)
    BY <1>5, <1>8
  <2> QED
    BY <1>1, <1>2, <1>3, <1>4, <1>8, <2>1, Redispatched
<1> QED
  BY <1>1, <1>6, <1>7, <1>8

\* A lease is closed, and its task taken back or done.
LEMMA ClosedGood ==
  ASSUME IInv, NEW l \in Leases, Releasable(l), NEW j \in Projects, NEW m \in Memories,
         ModeFits(j), Calm(js, j), m.recycling = mem.recycling, m.releasing = mem.releasing,
         \A t \in Tasks : m.validating[t] \in {None, mem.validating[t]},
         Commit(Closed(l), j, m)
  PROVE  Good
<1>1. /\ Closed(l) \in Tables /\ Closed(l).gates = db.gates
      /\ Kin(db.lease, Closed(l).lease)
  BY ClosedKin
<1>2. /\ OneActive(Closed(l).lease) /\ ByHumans(Closed(l).lease, js, m)
      /\ Remembered(Closed(l).lease, m)
  BY <1>1, Forgetful
<1> QED
  BY <1>1, <1>2, CalmGood

LEMMA ReleaseDoneGood == ASSUME IInv, NEW l \in Leases, ReleaseDone(l) PROVE Good
<1> DEFINE t == Lease(l).task
           p == [Task(t) EXCEPT !.dispatch = "done"]
           r == [p EXCEPT !.state = "execution_complete"]
           j == WithTask(js, t, r)
<1>1. Releasable(l) /\ t \in Tasks
  BY DEF ReleaseDone, Releasable, Active, Lease, IInv, Tables, LeaseRow
<1>2. Commit(Closed(l), j, mem)
  BY DEF ReleaseDone
<1>3. /\ p \in TaskStates /\ p.dispatch = "done" /\ p.passed = Task(t).passed
      /\ p.phase = Task(t).phase /\ p.attempt = Task(t).attempt
  <2>1. "done" \in Dispatches
    BY DEF Dispatches
  <2> QED
    BY <1>1, <2>1, TaskTyped, DispatchSet
<1> HIDE DEF p
<1>4. r \in TaskStates /\ Calmer(js.task[t], r)
  <2>1. "execution_complete" \in States
    BY DEF States
  <2> QED
    BY <1>3, <2>1, StateSet DEF Calmer, Task, Writes
<1> HIDE DEF r
<1>5. /\ j \in Projects /\ Calm(js, j)
      /\ j.mode = js.mode /\ j.life = js.life /\ j.prev = js.prev
  BY <1>1, <1>4, WithTaskIs, WithTaskCalm DEF IInv
<1>6. ModeFits(j)
  BY <1>5 DEF IInv, ModeFits
<1> HIDE DEF j
<1> QED
  BY <1>1, <1>2, <1>5, <1>6, ClosedGood DEF IInv

LEMMA NotPassedCalm ==
  ASSUME IInv, NEW t \in Tasks
  PROVE  /\ NotPassed(t) \in Projects /\ Calm(js, NotPassed(t)) /\ ModeFits(NotPassed(t))
<1> DEFINE r == [Task(t) EXCEPT !.passed = FALSE]
           k == WithTask(js, t, r)
           j == PauseTasks(k, Affected(t))
<1>1. /\ r \in TaskStates /\ r.passed = FALSE /\ r.dispatch = Task(t).dispatch
      /\ r.phase = Task(t).phase /\ r.attempt = Task(t).attempt
  BY TaskTyped, FlagSet
<1> HIDE DEF r
<1>2. Calmer(js.task[t], r)
  BY <1>1 DEF Calmer, Task, Writes
<1>3. /\ k \in Projects /\ Calm(js, k)
      /\ k.mode = js.mode /\ k.life = js.life /\ k.prev = js.prev
  BY <1>1, <1>2, WithTaskIs, WithTaskCalm DEF IInv
<1> HIDE DEF k
<1>4. /\ j \in Projects /\ Calm(k, j)
      /\ j.mode = js.mode /\ j.life = js.life /\ j.prev = js.prev
  BY <1>3, PauseTasksCalm
<1>5. Calm(js, j)
  BY <1>3, <1>4, CalmTwice
<1>6. ModeFits(j)
  BY <1>4 DEF IInv, ModeFits
<1>7. NotPassed(t) = j
  BY DEF NotPassed, k, r
<1> QED
  BY <1>4, <1>5, <1>6, <1>7

LEMMA ReleaseFailedGood == ASSUME IInv, NEW l \in Leases, ReleaseFailed(l) PROVE Good
<1> DEFINE t == Lease(l).task
<1>1. Releasable(l) /\ t \in Tasks /\ Commit(Closed(l), NotPassed(t), mem)
  BY DEF ReleaseFailed, requireManagedLease, Releasable, IsLease, Active, Lease,
         IInv, Tables, LeaseRow
<1> QED
  BY <1>1, NotPassedCalm, ClosedGood DEF IInv

LEMMA ReleaseInputsGood ==
  ASSUME IInv, NEW l \in Leases, ReleaseInputsChanged(l) PROVE Good
BY PauseGood DEF ReleaseInputsChanged

-----------------------------------------------------------------------------
\* Acceptance commands.

LEMMA StartValidationGood ==
  ASSUME IInv, NEW l \in Leases, StartValidation(l) PROVE Good
<1> DEFINE t == Lease(l).task
           v == [lease |-> l, result |-> "running"]
           m == [mem EXCEPT !.validating[t] = v]
<1>1. Commit(db, js, m) /\ Lease(l) # None /\ t \in Tasks
  BY DEF StartValidation, IsLease, Lease, IInv, Tables, LeaseRow
<1>2. v \in AcceptanceRun /\ v.lease = l
  BY DEF AcceptanceRun
<1> HIDE DEF v
<1>3. /\ m \in Memories /\ m.recycling = mem.recycling /\ m.releasing = mem.releasing
      /\ m.validating[t] = v /\ \A u \in Tasks \ {t} : m.validating[u] = mem.validating[u]
  BY <1>1, <1>2 DEF IInv, Memories
<1>4. ByHumans(db.lease, js, m) /\ Remembered(db.lease, m)
  <2>1. ByHumans(db.lease, js, mem) /\ Remembered(db.lease, mem)
    BY DEF IInv
  <2>2. ByHumans(db.lease, js, m)
    BY <1>3, <2>1 DEF ByHumans
  <2>3. \A u \in Tasks : m.validating[u] # None =>
          db.lease[m.validating[u].lease] # None /\ db.lease[m.validating[u].lease].task = u
    BY <1>1, <1>2, <1>3, <2>1 DEF Remembered, Lease
  <2>4. Remembered(db.lease, m)
    BY <1>3, <2>1, <2>3 DEF Remembered
  <2> QED
    BY <2>2, <2>4
<1> HIDE DEF m
<1> QED
  BY <1>1, <1>3, <1>4, CalmNever, CalmGood DEF IInv

LEMMA AcceptanceExitsGood ==
  ASSUME IInv, NEW t \in Tasks, NEW result \in {"passed", "failed"}, AcceptanceExits(t, result)
  PROVE  Good
<1> DEFINE v == [mem.validating[t] EXCEPT !.result = result]
<1>1. /\ mem.validating[t] # None /\ mem' = [mem EXCEPT !.validating[t] = v]
      /\ UNCHANGED <<db, js, now, failures>>
  BY DEF AcceptanceExits
<1>2. v \in AcceptanceRun /\ v.lease = mem.validating[t].lease /\ v.result # "running"
  <2>1. mem.validating[t] \in AcceptanceRun
    BY <1>1 DEF IInv, Memories
  <2> QED
    BY <2>1 DEF AcceptanceRun
<1> HIDE DEF v
<1>3. /\ mem' \in Memories /\ mem'.recycling = mem.recycling
      /\ mem'.releasing = mem.releasing /\ mem'.validating[t] = v
      /\ \A u \in Tasks \ {t} : mem'.validating[u] = mem.validating[u]
  BY <1>1, <1>2 DEF IInv, Memories
<1>4. ByHumans(db.lease, js, mem') /\ Remembered(db.lease, mem')
  <2>1. ByHumans(db.lease, js, mem) /\ Remembered(db.lease, mem)
    BY DEF IInv
  <2>2. ByHumans(db.lease, js, mem')
    BY <1>3, <2>1 DEF ByHumans
  <2>3. \A u \in Tasks : mem'.validating[u] # None =>
          db.lease[mem'.validating[u].lease] # None /\ db.lease[mem'.validating[u].lease].task = u
    BY <1>1, <1>2, <1>3, <2>1 DEF Remembered
  <2>4. Remembered(db.lease, mem')
    BY <1>3, <2>1, <2>3 DEF Remembered
  <2> QED
    BY <2>2, <2>4
<1>5. MaxFailures = 0 => ClosedTasksStop'
  <2> SUFFICES ASSUME MaxFailures = 0 PROVE ClosedTasksStop'
    OBVIOUS
  <2>1. ClosedTasksStop
    BY DEF IInv
  <2>2. \A l \in Leases : Active(db'.lease, l) => ~executionClosed(js', db'.lease[l].task)
    BY <1>1, <2>1 DEF ClosedTasksStop, Lease
  <2>3. \A u \in Tasks : mem'.validating[u] # None /\ js'.task[u].paused =>
          mem'.validating[u].result # "running"
    BY <1>1, <1>2, <1>3, <2>1 DEF ClosedTasksStop, Task
  <2> QED
    BY <2>2, <2>3 DEF ClosedTasksStop, Task, Lease, Active
<1> QED
  BY <1>1, <1>3, <1>4, <1>5, Elsewhere DEF IInv

LEMMA ValidatedIs ==
  ASSUME IInv, NEW t \in Tasks
  PROVE  LET m == Validated(t) IN
         /\ m \in Memories /\ m.recycling = mem.recycling /\ m.releasing = mem.releasing
         /\ \A u \in Tasks : m.validating[u] \in {None, mem.validating[u]}
BY DEF IInv, Memories, Validated

LEMMA ReviewIs ==
  ASSUME NEW j \in Projects, ModeFits(j)
  PROVE  LET k == AfterMilestoneReview(j) IN
         k \in Projects /\ k.task = j.task /\ k.mode = j.mode /\ ModeFits(k)
<1> DEFINE k == [j EXCEPT !.life = "awaiting_milestone_acceptance"]
<1>1. ASSUME j.life = "executing"
      PROVE  k \in Projects /\ k.task = j.task /\ k.mode = j.mode /\ ModeFits(k)
  <2>1. "awaiting_milestone_acceptance" \in Lifecycle
    BY DEF Lifecycle
  <2>2. /\ k \in Projects /\ k.task = j.task /\ k.mode = j.mode /\ k.prev = j.prev
        /\ k.life = "awaiting_milestone_acceptance"
    BY <2>1 DEF Projects
  <2> QED
    BY <1>1, <2>2 DEF ModeFits
<1>2. (AfterMilestoneReview(j) = k /\ j.life = "executing") \/ AfterMilestoneReview(j) = j
  BY DEF AfterMilestoneReview
<1> HIDE DEF k
<1> QED
  BY <1>1, <1>2

LEMMA PassedIs ==
  ASSUME IInv, NEW t \in Tasks
  PROVE  LET j == Passed(t) IN
         /\ j \in Projects /\ ModeFits(j) /\ j.mode = js.mode
         /\ j.task[t].dispatch = "done" /\ \A u \in Tasks \ {t} : j.task[u] = js.task[u]
<1> DEFINE p == [Task(t) EXCEPT !.passed = TRUE]
           r == [p EXCEPT !.dispatch = "done"]
           k == WithTask(js, t, r)
<1>1. p \in TaskStates
  BY TaskTyped, FlagSet
<1> HIDE DEF p
<1>2. r \in TaskStates /\ r.dispatch = "done"
  <2>1. "done" \in Dispatches
    BY DEF Dispatches
  <2> QED
    BY <1>1, <2>1, DispatchSet
<1> HIDE DEF r
<1>3. /\ k \in Projects /\ k.task[t] = r /\ \A u \in Tasks \ {t} : k.task[u] = js.task[u]
      /\ k.mode = js.mode /\ k.life = js.life /\ k.prev = js.prev
  BY <1>2, WithTaskIs DEF IInv
<1> HIDE DEF k
<1>4. ModeFits(k)
  BY <1>3 DEF IInv, ModeFits
<1>5. Passed(t) = AfterMilestoneReview(k)
  BY DEF Passed, k, r, p
<1> QED
  BY <1>2, <1>3, <1>4, <1>5, ReviewIs

LEMMA FinishValidationGood ==
  ASSUME IInv, NEW t \in Tasks, FinishValidation(t) PROVE Good
<1> DEFINE v == mem.validating[t]
           m == Validated(t)
<1>1. v # None /\ v.lease \in Leases /\ Lease(v.lease) # None /\ Lease(v.lease).task = t
  BY DEF FinishValidation, IInv, Memories, AcceptanceRun, Remembered, Lease
<1>2. /\ m \in Memories /\ m.recycling = mem.recycling /\ m.releasing = mem.releasing
      /\ \A u \in Tasks : m.validating[u] \in {None, mem.validating[u]}
  BY ValidatedIs
<1>3. CASE /\ requireManagedLease(t, v.lease) /\ Releasable(v.lease) /\ v.result # "passed"
           /\ Commit(Closed(v.lease), NotPassed(t), m)
  BY <1>1, <1>2, <1>3, NotPassedCalm, ClosedGood
<1>4. CASE /\ requireManagedLease(t, v.lease) /\ Releasable(v.lease) /\ v.result = "passed"
           /\ Commit(Closed(v.lease), Passed(t), m)
  <2> DEFINE j == Passed(t)
             d == Closed(v.lease)
  <2>1. /\ j \in Projects /\ ModeFits(j) /\ j.mode = js.mode
        /\ j.task[t].dispatch = "done" /\ \A u \in Tasks \ {t} : j.task[u] = js.task[u]
    BY PassedIs
  <2>2. d \in Tables /\ d.gates = db.gates /\ Kin(db.lease, d.lease)
    BY <1>1, <1>4, ClosedKin
  <2>3. Commit(d, j, m)
    BY <1>4
  <2> HIDE DEF j, d
  <2>4. OneActive(d.lease) /\ ByHumans(d.lease, js, m) /\ Remembered(d.lease, m)
    BY <1>2, <2>2, Forgetful
  <2>5. OneWriter(j)
    BY <2>1 DEF IInv, OneWriter
  <2>6. MaxFailures = 0 => Gated(d.gates, j)
    <3>1. db.gates \subseteq Tasks
      BY DEF IInv, Tables
    <3> QED
      BY <2>1, <2>2, <3>1 DEF IInv, Gated
  <2>7. Fit(d, j, m)
    BY <1>2, <2>1, <2>2, <2>4, <2>5, <2>6 DEF Fit
  <2>8. IInv' /\ js' \in {js, j}
    BY <2>3, <2>7, CommitKeeps
  <2>9. Verified
    <3>1. HasAuthority(v.lease)
      BY <1>1, <1>4 DEF HasAuthority, IsLease, Lease
    <3>2. \A u \in Tasks \ {t} : js'.task[u] = js.task[u]
      BY <2>1, <2>8
    <3>3. v.result = "passed"
      BY <1>4
    <3> QED
      BY <1>1, <3>1, <3>2, <3>3 DEF Verified, Task
  <2>10. NotRetried /\ StaysPaused /\ StaysManaged
    BY <2>1, <2>8 DEF NotRetried, StaysPaused, StaysManaged, Task
  <2> QED
    BY <2>8, <2>9, <2>10 DEF Good
<1>5. CASE mem' = m /\ UNCHANGED <<db, js, now, failures>>
  <2>1. OneActive(db.lease) /\ ByHumans(db.lease, js, m) /\ Remembered(db.lease, m)
    <3>1. Kin(db.lease, db.lease)
      BY DEF Kin
    <3> QED
      BY <1>2, <3>1, Forgetful
  <2>2. MaxFailures = 0 => ClosedTasksStop'
    <3> SUFFICES ASSUME MaxFailures = 0 PROVE ClosedTasksStop'
      OBVIOUS
    <3>1. ClosedTasksStop
      BY DEF IInv
    <3>2. \A l \in Leases : Active(db'.lease, l) => ~executionClosed(js', db'.lease[l].task)
      BY <1>5, <3>1 DEF ClosedTasksStop, Lease
    <3>3. \A u \in Tasks : mem'.validating[u] # None /\ js'.task[u].paused =>
            mem'.validating[u].result # "running"
      BY <1>2, <1>5, <3>1 DEF ClosedTasksStop, Task
    <3> QED
      BY <3>2, <3>3 DEF ClosedTasksStop, Task, Lease, Active
  <2> QED
    BY <1>2, <1>5, <2>1, <2>2, Elsewhere DEF IInv
<1> QED
  BY <1>3, <1>4, <1>5 DEF FinishValidation

-----------------------------------------------------------------------------
\* The server on its own.

LEMMA MaintainGood == ASSUME IInv, Maintain \/ Restart PROVE Good
<1>1. Commit(db, js, mem)
  BY DEF Maintain, Restart, Commit
<1> QED
  BY <1>1, CalmNever, QuietGood DEF IInv

LEMMA TickGood == ASSUME IInv, Tick PROVE Good
<1>1. now' \in 0..MaxTime
  <2>1. now \in 0..MaxTime /\ now < MaxTime /\ now' = now + 1
    BY DEF IInv, Tick
  <2>2. MaxTime \in Nat
    BY DispatchConstants DEF DispatchConstants
  <2> QED
    BY <2>1, <2>2, SMT
<1>2. UNCHANGED <<db, js, mem, failures>>
  BY DEF Tick
<1>3. MaxFailures = 0 => ClosedTasksStop'
  <2>1. Kin(db.lease, db'.lease)
    BY <1>2 DEF Kin
  <2> QED
    BY <1>2, <2>1, StillClosed
<1> QED
  BY <1>1, <1>2, <1>3, Elsewhere DEF IInv

-----------------------------------------------------------------------------
\* Humans.

LEMMA CreateTaskGood == ASSUME IInv, NEW t \in Tasks, CreateTask(t) PROVE Good
<1> DEFINE d == [db EXCEPT !.gates = @ \cup ({t} \ Human)]
           r == NewTask(t)
<1>1. Commit(d, WithTask(js, t, r), mem) /\ Task(t).dispatch = "absent"
  BY DEF CreateTask, Exists, Task
<1>2. /\ r \in TaskStates /\ r.passed = FALSE
      /\ r.dispatch = IF t \in Human THEN "ready" ELSE "awaiting_approval"
  BY DEF NewTask, TaskStates, Dispatches, States, Phases, Attempts
<1>3. d \in Tables /\ d.lease = db.lease /\ d.gates = db.gates \cup ({t} \ Human)
  BY DEF IInv, Tables
<1> HIDE DEF d, r
<1>4. MaxFailures = 0 /\ t \in d.gates => r.dispatch \notin {"ready", "claimed", "released"}
  BY <1>2, <1>3 DEF IInv, Gated
<1>5. Fit(d, WithTask(js, t, r), mem)
  <2>1. r.dispatch # "claimed"
    BY <1>2
  <2> QED
    BY <1>2, <1>3, <1>4, <2>1, OneTaskFits DEF IInv
<1>6. Orderly(WithTask(js, t, r))
  BY <1>1, <1>2, OneTaskOrderly
<1> QED
  BY <1>1, <1>5, <1>6, OrderlyGood

LEMMA ApproveGood == ASSUME IInv, NEW t \in Tasks, Approve(t) PROVE Good
<1> DEFINE d == [db EXCEPT !.gates = @ \ {t}]
           b == t \in Commanded
           p == [Task(t) EXCEPT !.dispatch = "ready"]
           r == [p EXCEPT !.baseline = b]
<1>1. Commit(d, WithTask(js, t, r), mem) /\ t \in db.gates
  BY DEF Approve
<1>2. p \in TaskStates /\ p.dispatch = "ready" /\ p.passed = Task(t).passed
  <2>1. "ready" \in Dispatches
    BY DEF Dispatches
  <2> QED
    BY <2>1, TaskTyped, DispatchSet
<1>3. b \in BOOLEAN
  OBVIOUS
<1> HIDE DEF b, p
<1>4. r \in TaskStates /\ r.dispatch = "ready" /\ r.passed = Task(t).passed
  <2>1. r \in TaskStates /\ r.dispatch = p.dispatch /\ r.passed = p.passed
    BY <1>2, <1>3 DEF TaskStates
  <2> QED
    BY <1>2, <2>1
<1>5. d \in Tables /\ d.lease = db.lease /\ d.gates = db.gates \ {t}
  BY DEF IInv, Tables
<1> HIDE DEF d, r
<1>6. Fit(d, WithTask(js, t, r), mem)
  BY <1>4, <1>5, OneTaskFits DEF IInv
<1>7. Orderly(WithTask(js, t, r))
  <2>1. MaxFailures = 0 => Task(t).dispatch \notin {"claimed", "released"}
    BY <1>1 DEF IInv, Gated, Task
  <2> QED
    BY <1>4, <2>1, OneTaskOrderly
<1> QED
  BY <1>1, <1>6, <1>7, OrderlyGood

LEMMA RejectGood == ASSUME IInv, NEW t \in Tasks, Reject(t) PROVE Good
<1> DEFINE d == [db EXCEPT !.gates = @ \ {t}]
           r == [Task(t) EXCEPT !.dispatch = "none"]
           j == WithTask(js, t, r)
<1>1. Commit(d, j, mem)
  BY DEF Reject
<1>2. r \in TaskStates /\ Calmer(js.task[t], r)
  <2>1. "none" \in Dispatches
    BY DEF Dispatches
  <2> QED
    BY <2>1, TaskTyped, DispatchSet DEF Calmer, Task, Writes
<1>3. d \in Tables /\ d.lease = db.lease /\ d.gates \subseteq db.gates
  BY DEF IInv, Tables
<1> HIDE DEF d, r
<1>4. /\ j \in Projects /\ Calm(js, j)
      /\ j.mode = js.mode /\ j.life = js.life /\ j.prev = js.prev
  BY <1>2, WithTaskIs, WithTaskCalm DEF IInv
<1>5. ModeFits(j)
  BY <1>4 DEF IInv, ModeFits
<1> HIDE DEF j
<1> QED
  BY <1>1, <1>3, <1>4, <1>5, CalmGood DEF IInv

LEMMA EditedIs ==
  ASSUME NEW r \in TaskStates, NEW action
  PROVE  EditedTask(r, action) \in TaskStates /\ Calmer(r, EditedTask(r, action))
<1>1. CASE action = "pause_task"
  <2>1. EditedTask(r, action) = [r EXCEPT !.paused = TRUE]
    BY <1>1 DEF EditedTask
  <2> QED
    BY <2>1 DEF TaskStates, Calmer, Writes
<1>2. CASE action = "resume_task"
  <2>1. EditedTask(r, action) = [r EXCEPT !.paused = FALSE]
    BY <1>2 DEF EditedTask
  <2> QED
    BY <2>1 DEF TaskStates, Calmer, Writes
<1>3. CASE action = "cancel_task"
  <2>1. EditedTask(r, action) = [r EXCEPT !.paused = FALSE, !.state = "cancelled"]
    BY <1>3 DEF EditedTask
  <2> QED
    BY <2>1 DEF TaskStates, States, Calmer, Writes
<1>4. CASE action = "resume_execution"
  <2>1. EditedTask(r, action) = [r EXCEPT !.state = "running"]
    BY <1>4 DEF EditedTask
  <2> QED
    BY <2>1 DEF TaskStates, States, Calmer, Writes
<1>5. CASE action = "edit_contract"
  <2>1. EditedTask(r, action) = [r EXCEPT !.dispatch = "none", !.passed = FALSE]
    BY <1>5 DEF EditedTask
  <2> QED
    BY <2>1 DEF TaskStates, Dispatches, Calmer, Writes
<1>6. CASE action = "edit_risk"
  <2>1. EditedTask(r, action) = [r EXCEPT !.risky = ~@]
    BY <1>6 DEF EditedTask
  <2> QED
    BY <2>1 DEF TaskStates, Calmer, Writes
<1>7. CASE action \notin {"pause_task", "resume_task", "cancel_task", "resume_execution",
                         "edit_contract", "edit_risk"}
  <2>1. EditedTask(r, action) = r
    BY <1>7 DEF EditedTask
  <2> QED
    BY <2>1 DEF Calmer
<1> QED
  BY <1>1, <1>2, <1>3, <1>4, <1>5, <1>6, <1>7

\* A task is stored and the project may be paused over it.
UpdatedProject(t, r, phaseFailed) ==
  LET j == WithTask(js, t, r) IN
  IF js.mode # "active" THEN j
  ELSE IF r.risky THEN PauseProject(j)
  ELSE IF phaseFailed THEN PauseTasks(j, Affected(t)) ELSE j

UpdatedTables(t, r) ==
  IF GateRaised(t, r) THEN [db EXCEPT !.gates = @ \cup {t}] ELSE db

LEMMA UpdatedIs ==
  ASSUME NEW t, NEW r, NEW phaseFailed, Updated(t, r, phaseFailed)
  PROVE  Commit(UpdatedTables(t, r), UpdatedProject(t, r, phaseFailed), mem)
BY DEF Updated, UpdatedTables, UpdatedProject

LEMMA UpdatedTablesAre ==
  ASSUME IInv, NEW t \in Tasks, NEW r
  PROVE  LET d == UpdatedTables(t, r) IN
         /\ d \in Tables /\ d.lease = db.lease
         /\ \A u \in d.gates : u \in db.gates \/ (u = t /\ t \notin Human /\ r.dispatch = "none")
BY DEF IInv, Tables, GateRaised, UpdatedTables

LEMMA UpdatedGood ==
  ASSUME IInv, NEW t \in Tasks, NEW r \in TaskStates, Calmer(js.task[t], r),
         NEW phaseFailed \in BOOLEAN, Updated(t, r, phaseFailed)
  PROVE  Good
<1> DEFINE k == WithTask(js, t, r)
           j == UpdatedProject(t, r, phaseFailed)
           d == UpdatedTables(t, r)
<1>1. Commit(d, j, mem)
  BY UpdatedIs
<1>2. /\ d \in Tables /\ d.lease = db.lease
      /\ \A u \in d.gates : u \in db.gates \/ (u = t /\ t \notin Human /\ r.dispatch = "none")
  BY UpdatedTablesAre
<1>3. /\ k \in Projects /\ Calm(js, k) /\ k.task[t] = r
      /\ k.mode = js.mode /\ k.life = js.life /\ k.prev = js.prev
  BY WithTaskIs, WithTaskCalm DEF IInv
<1>4. ModeFits(k)
  BY <1>3 DEF IInv, ModeFits
<1>5. j \in {PauseProject(k), PauseTasks(k, Affected(t)), k}
  BY DEF UpdatedProject
<1> HIDE DEF k, j, d
<1>6. j \in Projects /\ ModeFits(j) /\ Calm(k, j)
  <2>1. CASE j = PauseProject(k)
    BY <1>3, <1>4, <2>1, PauseProjectCalm
  <2>2. CASE j = PauseTasks(k, Affected(t))
    <3>1. /\ j \in Projects /\ Calm(k, j)
          /\ j.mode = k.mode /\ j.life = k.life /\ j.prev = k.prev
      BY <1>3, <2>2, PauseTasksCalm
    <3> QED
      BY <1>4, <3>1 DEF ModeFits
  <2>3. CASE j = k
    BY <1>3, <1>4, <2>3, CalmNever
  <2> QED
    BY <1>5, <2>1, <2>2, <2>3
<1>7. Calm(js, j)
  BY <1>3, <1>6, CalmTwice
<1>8. MaxFailures = 0 => Gated(d.gates, j)
  <2>1. MaxFailures = 0 => Gated(db.gates, j)
    BY <1>7, CalmOrderly
  <2>2. r.dispatch = "none" => j.task[t].dispatch \notin {"ready", "claimed", "released"}
    BY <1>3, <1>6 DEF Calm, Calmer
  <2> QED
    BY <1>2, <2>1, <2>2 DEF Gated
<1> QED
  BY <1>1, <1>2, <1>6, <1>7, <1>8, CalmGood DEF IInv

LEMMA UpdateTaskGood ==
  ASSUME IInv, NEW t \in Tasks, NEW action, UpdateTask(t, action) PROVE Good
<1> DEFINE r == EditedTask(Task(t), action)
<1>1. Updated(t, r, FALSE)
  BY DEF UpdateTask
<1>2. r \in TaskStates /\ Calmer(js.task[t], r)
  BY TaskTyped, EditedIs DEF Task
<1> HIDE DEF r
<1> QED
  BY <1>1, <1>2, UpdatedGood

\* A task that moves on in its runbook.
Moves(r, a, p, s) == [r EXCEPT !.attempt = a, !.phase = p, !.state = s]

LEMMA MovesIs ==
  ASSUME NEW r \in TaskStates, NEW a \in Attempts, NEW p \in Phases, NEW s \in States
  PROVE  LET q == Moves(r, a, p, s) IN
         /\ q \in TaskStates /\ q.attempt = a /\ q.phase = p /\ q.state = s
         /\ q.dispatch = r.dispatch /\ q.passed = r.passed /\ q.paused = r.paused
         /\ q.risky = r.risky
BY DEF TaskStates, Moves

LEMMA MovesCalmer ==
  ASSUME NEW r \in TaskStates, NEW a \in Attempts, NEW p \in Phases, NEW s \in States,
         a # "project"
  PROVE  Calmer(r, Moves(r, a, p, s))
BY MovesIs DEF Calmer, Writes

LEMMA FailPhaseIs ==
  ASSUME NEW t, FailPhase(t)
  PROVE  Updated(t, Moves(Task(t), "none", "write", "running"), TRUE)
BY DEF FailPhase, Moves

LEMMA FailPhaseGood == ASSUME IInv, NEW t \in Tasks, FailPhase(t) PROVE Good
<1> DEFINE r == Moves(Task(t), "none", "write", "running")
<1>1. "none" \in Attempts /\ "write" \in Phases /\ "running" \in States
  BY DEF Attempts, Phases, States
<1>2. r \in TaskStates /\ Calmer(js.task[t], r)
  BY <1>1, TaskTyped, MovesIs, MovesCalmer DEF Task
<1>3. Updated(t, r, TRUE)
  BY FailPhaseIs
<1> HIDE DEF r
<1> QED
  BY <1>2, <1>3, UpdatedGood

\* A phase that ends leaves no work in the project's directory.
LEMMA CompletePhaseIs ==
  ASSUME NEW t, NEW next \in Phases, NEW autoProgress \in BOOLEAN,
         CompletePhase(t, next, autoProgress)
  PROVE  \E a \in Attempts \ {"project"}, s \in States :
           Updated(t, Moves(Task(t), a, next, s), FALSE)
<1> DEFINE a == IF autoProgress THEN "runtime" ELSE "none"
           s == IF next = "ready_for_acceptance" THEN "execution_complete" ELSE "running"
<1>1. a \in Attempts \ {"project"} /\ s \in States
  BY DEF Attempts, States
<1>2. Updated(t, Moves(Task(t), a, next, s), FALSE)
  BY DEF CompletePhase, Moves
<1> HIDE DEF a, s
<1> QED
  BY <1>1, <1>2

LEMMA CompletePhaseGood ==
  ASSUME IInv, NEW t \in Tasks, NEW next \in Phases, NEW autoProgress \in BOOLEAN,
         CompletePhase(t, next, autoProgress)
  PROVE  Good
<1>1. PICK a \in Attempts \ {"project"}, s \in States :
        Updated(t, Moves(Task(t), a, next, s), FALSE)
  BY CompletePhaseIs
<1> DEFINE r == Moves(Task(t), a, next, s)
<1>2. r \in TaskStates /\ Calmer(js.task[t], r)
  BY TaskTyped, MovesIs, MovesCalmer DEF Task
<1>3. Updated(t, r, FALSE)
  BY <1>1
<1> HIDE DEF r
<1> QED
  BY <1>2, <1>3, UpdatedGood

\* A phase that starts: under takeover its task is not risky, or the project is
\* in its humans' hands, so that nothing is paused over it.
LEMMA StartPhaseIs ==
  ASSUME IInv, NEW t \in Tasks, StartPhase(t)
  PROVE  LET a == IF Managed(js) THEN "project" ELSE "runtime"
             r == Moves(Task(t), a, Task(t).phase, "running")
         IN /\ a \in Attempts /\ r \in TaskStates /\ r.attempt = a
            /\ r.phase = Task(t).phase /\ r.dispatch = Task(t).dispatch
            /\ r.passed = Task(t).passed /\ r.paused = Task(t).paused
            /\ Commit(db, WithTask(js, t, r), mem)
<1> DEFINE a == IF Managed(js) THEN "project" ELSE "runtime"
           r == Moves(Task(t), a, Task(t).phase, "running")
<1>1. a \in Attempts /\ "running" \in States /\ Task(t) \in TaskStates /\ Task(t).phase \in Phases
  BY TaskTyped DEF Attempts, States, TaskStates
<1>2. r = [Task(t) EXCEPT !.attempt = a, !.state = "running"]
  BY <1>1 DEF TaskStates, Moves
<1>3. Updated(t, r, FALSE)
  BY <1>2 DEF StartPhase, PhaseStarted
<1>4. /\ r \in TaskStates /\ r.attempt = a /\ r.phase = Task(t).phase
      /\ r.dispatch = Task(t).dispatch /\ r.passed = Task(t).passed
      /\ r.paused = Task(t).paused /\ r.state = "running" /\ r.risky = Task(t).risky
  BY <1>1, MovesIs
<1> HIDE DEF r, a
<1>5. js.mode # "active" \/ ~r.risky
  BY <1>4 DEF StartPhase, CanStartPhase, executionGate, taskClaimAllowed, Managed, Task
<1>6. UpdatedProject(t, r, FALSE) = WithTask(js, t, r)
  BY <1>5 DEF UpdatedProject
<1>7. UpdatedTables(t, r) = db
  BY <1>4 DEF UpdatedTables, GateRaised
<1>8. Commit(db, WithTask(js, t, r), mem)
  BY <1>3, <1>6, <1>7, UpdatedIs
<1> QED
  BY <1>1, <1>4, <1>8 DEF r, a

LEMMA StartPhaseGood == ASSUME IInv, NEW t \in Tasks, StartPhase(t) PROVE Good
<1> DEFINE a == IF Managed(js) THEN "project" ELSE "runtime"
           r == Moves(Task(t), a, Task(t).phase, "running")
           j == WithTask(js, t, r)
<1>1. /\ r \in TaskStates /\ r.attempt = a /\ r.phase = Task(t).phase
      /\ r.dispatch = Task(t).dispatch /\ r.passed = Task(t).passed
      /\ r.paused = Task(t).paused /\ Commit(db, j, mem)
  BY StartPhaseIs
<1>2. a = "project" => ~sharedDirectoryConflict(js, t)
  BY DEF StartPhase
<1> HIDE DEF r, a
<1>3. /\ j \in Projects /\ j.task[t] = r /\ \A u \in Tasks \ {t} : j.task[u] = js.task[u]
      /\ j.mode = js.mode /\ j.life = js.life /\ j.prev = js.prev
  BY <1>1, WithTaskIs DEF IInv
<1> HIDE DEF j
<1>4. ModeFits(j)
  BY <1>3 DEF IInv, ModeFits
<1>5. OneWriter(j)
  <2>1. Writes(r) =>
          \A u \in Tasks \ {t} : ~(js.task[u].dispatch = "claimed" /\ Writes(js.task[u]))
    BY <1>1, <1>2 DEF sharedDirectoryConflict, writable, Writes, Task
  <2>2. ASSUME NEW u \in Tasks, NEW v \in Tasks,
               j.task[u].dispatch = "claimed", j.task[v].dispatch = "claimed",
               Writes(j.task[u]), Writes(j.task[v])
        PROVE  u = v
    BY <1>3, <2>1, <2>2 DEF IInv, OneWriter
  <2> QED
    BY <2>2 DEF OneWriter
<1>6. MaxFailures = 0 => Gated(db.gates, j)
  <2>1. db.gates \subseteq Tasks
    BY DEF IInv, Tables
  <2> QED
    BY <1>1, <1>3, <2>1 DEF IInv, Gated, Task
<1>7. Fit(db, j, mem)
  BY <1>3, <1>4, <1>5, <1>6 DEF IInv, Fit
<1>8. Orderly(j)
  <2>1. \A u \in Tasks : /\ j.task[u].dispatch = Task(u).dispatch
                        /\ j.task[u].passed = Task(u).passed
    BY <1>1, <1>3 DEF Task
  <2> QED
    BY <2>1 DEF Orderly
<1> QED
  BY <1>1, <1>7, <1>8, OrderlyGood

LEMMA StartTakeoverGood == ASSUME IInv, StartTakeover PROVE Good
<1> DEFINE j == [js EXCEPT !.mode = "active"]
<1>1. Commit(db, j, mem) /\ js.life = "executing"
  BY DEF StartTakeover
<1>2. /\ j \in Projects /\ j.mode = "active" /\ j.life = js.life /\ j.prev = js.prev
      /\ j.task = js.task
  <2>1. "active" \in TakeoverModes /\ js \in Projects
    BY DEF TakeoverModes, IInv
  <2> QED
    BY <2>1 DEF Projects
<1>3. ModeFits(j)
  BY <1>1, <1>2 DEF IInv, ModeFits
<1>4. Calm(js, j)
  BY <1>2 DEF Calm, Calmer
<1> HIDE DEF j
<1> QED
  BY <1>1, <1>2, <1>3, <1>4, QuietGood

LEMMA PauseTakeoverGood ==
  ASSUME IInv, NEW t \in Tasks, NEW projectWide \in BOOLEAN, PauseTakeover(t, projectWide)
  PROVE  Good
<1>1. CASE Commit(db, PauseProject(js), mem)
  BY <1>1, PauseProjectCalm, QuietGood DEF IInv
<1>2. CASE Commit(db, PauseTasks(js, Affected(t)), mem)
  BY <1>2, PauseGood
<1> QED
  BY <1>1, <1>2 DEF PauseTakeover, pauseControlState

\* A project goes on where it was blocked.
LEMMA Unblocked ==
  ASSUME NEW j \in Projects, ModeFits(j), NEW m \in {"active", "manual"},
         j.life = "blocked"
  PROVE  LET i == Moved(j, m, j.prev, "") IN
         i \in Projects /\ ModeFits(i) /\ i.task = j.task /\ i.mode = m
<1> DEFINE i == Moved(j, m, j.prev, "")
<1>1. j.prev \in Lifecycle \ {"blocked"}
  <2>1. j.prev \in Previous
    BY DEF Projects
  <2>2. j.prev # ""
    BY DEF ModeFits
  <2> QED
    BY <2>1, <2>2 DEF Previous, Lifecycle
<1> DEFINE none == ""
<1>2. m \in TakeoverModes /\ m # "paused" /\ none \in Previous
  BY DEF TakeoverModes, Previous
<1>3. /\ i \in Projects /\ i.task = j.task
      /\ i.mode = m /\ i.life = j.prev /\ i.prev = none
  <2>1. j.prev \in Lifecycle /\ m \in TakeoverModes
    BY <1>1, <1>2
  <2>2. i = Moved(j, m, j.prev, none)
    OBVIOUS
  <2> HIDE DEF i, none
  <2> QED
    BY <1>2, <2>1, <2>2, MovedIs
<1> HIDE DEF i
<1>4. ModeFits(i)
  BY <1>1, <1>2, <1>3 DEF ModeFits
<1> QED
  BY <1>3, <1>4 DEF i

LEMMA StoppedIs ==
  ASSUME NEW r \in TaskStates
  PROVE  LET q == StoppedTask(r) IN
         /\ q \in TaskStates /\ q.passed = r.passed /\ q.attempt = "none"
         /\ q.dispatch = IF r.dispatch \in {"claimed", "ready"} THEN "released" ELSE r.dispatch
<1> DEFINE e == IF r.dispatch \in {"claimed", "ready"} THEN "released" ELSE r.dispatch
           p == [r EXCEPT !.paused = FALSE]
           o == [p EXCEPT !.dispatch = e]
           q == [o EXCEPT !.attempt = "none"]
<1>1. e \in Dispatches /\ "none" \in Attempts
  BY DEF TaskStates, Dispatches, Attempts
<1>2. StoppedTask(r) = q
  BY DEF StoppedTask
<1>3. p \in TaskStates /\ p.passed = r.passed
  BY FlagSet
<1> HIDE DEF p
<1>4. o \in TaskStates /\ o.dispatch = e /\ o.passed = r.passed
  <2> HIDE DEF e
  <2> QED
    BY <1>1, <1>3, DispatchSet
<1> HIDE DEF o
<1>5. q \in TaskStates /\ q.dispatch = e /\ q.passed = r.passed /\ q.attempt = "none"
  <2> HIDE DEF e
  <2> QED
    BY <1>1, <1>4, AttemptSet
<1> QED
  BY <1>2, <1>5

LEMMA StoppedCalm ==
  ASSUME NEW r \in TaskStates
  PROVE  StoppedTask(r) \in TaskStates /\ Calmer(r, StoppedTask(r))
BY StoppedIs DEF Calmer, Writes

LEMMA StopTakeoverGood == ASSUME IInv, StopTakeover PROVE Good
<1> DEFINE f == [u \in Tasks |-> StoppedTask(js.task[u])]
           j == [js EXCEPT !.mode = "manual", !.task = f]
<1>1. ASSUME NEW u \in Tasks
      PROVE  StoppedTask(js.task[u]) \in TaskStates /\ Calmer(js.task[u], StoppedTask(js.task[u]))
  BY StoppedCalm DEF IInv, Projects
<1>2. Commit(db, IF js.life = "blocked"
                 THEN [j EXCEPT !.life = js.prev, !.prev = ""] ELSE j, mem)
  BY DEF StopTakeover
<1>3. f \in [Tasks -> TaskStates] /\ \A u \in Tasks : Calmer(js.task[u], f[u])
  BY <1>1
<1> HIDE DEF f
<1>4. /\ j \in Projects /\ j.mode = "manual" /\ j.task = f
      /\ j.life = js.life /\ j.prev = js.prev
  <2>1. "manual" \in TakeoverModes /\ js \in Projects
    BY DEF TakeoverModes, IInv
  <2> QED
    BY <1>3, <2>1 DEF Projects
<1> HIDE DEF j
<1>5. CASE js.life = "blocked"
  <2> DEFINE k == [js EXCEPT !.task = f]
             i == Moved(k, "manual", k.prev, "")
  <2>1. k \in Projects /\ k.task = f /\ k.mode = js.mode /\ k.life = js.life /\ k.prev = js.prev
    BY <1>3 DEF IInv, Projects
  <2>2. ModeFits(k) /\ k.life = "blocked"
    BY <1>5, <2>1 DEF IInv, ModeFits
  <2>3. [j EXCEPT !.life = js.prev, !.prev = ""] = i
    BY <2>1 DEF j, Moved, IInv, Projects
  <2> HIDE DEF k
  <2>4. i \in Projects /\ ModeFits(i) /\ i.task = f /\ i.mode = "manual"
    BY <2>1, <2>2, Unblocked
  <2> HIDE DEF i
  <2>5. Calm(js, i)
    BY <1>3, <2>4 DEF Calm
  <2> QED
    BY <1>2, <1>5, <2>3, <2>4, <2>5, QuietGood
<1>6. CASE js.life # "blocked"
  <2>1. ModeFits(j)
    BY <1>4, <1>6 DEF IInv, ModeFits
  <2>2. Calm(js, j)
    BY <1>3, <1>4 DEF Calm
  <2> QED
    BY <1>2, <1>4, <1>6, <2>1, <2>2, QuietGood
<1> QED
  BY <1>5, <1>6

\* A human's resume makes claimable what was released, and was paused.
LEMMA ResumedIs ==
  ASSUME NEW t \in Tasks, NEW r \in TaskStates, NEW restart \in BOOLEAN
  PROVE  LET q == Resumed(t, r, restart) IN
         /\ q \in TaskStates /\ q.passed = r.passed
         /\ q.phase = r.phase /\ q.attempt = r.attempt
         /\ q.dispatch = "claimed" => r.dispatch = "claimed"
         /\ q.dispatch = "ready" => r.dispatch = "ready" \/ (r.paused /\ ~q.paused)
         /\ q.dispatch \in {"ready", "claimed", "released"} =>
              r.dispatch \in {"ready", "claimed", "released"}
<1> DEFINE e == IF r.dispatch = "released" THEN "ready" ELSE r.dispatch
           b == IF restart THEN t \in Commanded ELSE r.baseline
           p == [r EXCEPT !.paused = FALSE]
           o == [p EXCEPT !.dispatch = e]
           q == [o EXCEPT !.baseline = b]
<1>1. CASE ~r.paused
  <2>1. Resumed(t, r, restart) = r
    BY <1>1 DEF Resumed
  <2> QED
    BY <2>1
<1>2. CASE r.paused
  <2>1. e \in Dispatches /\ b \in BOOLEAN
    <3>1. r.dispatch \in Dispatches /\ r.baseline \in BOOLEAN
      BY DEF TaskStates
    <3>2. e \in Dispatches
      BY <3>1 DEF Dispatches
    <3>3. b \in BOOLEAN
      <4>1. CASE restart
        BY <4>1
      <4>2. CASE ~restart
        BY <3>1, <4>2
      <4> QED
        BY <4>1, <4>2
    <3> QED
      BY <3>2, <3>3
  <2>2. Resumed(t, r, restart) = q
    BY <1>2 DEF Resumed
  <2>3. /\ e = "claimed" => r.dispatch = "claimed"
        /\ e \in {"ready", "claimed", "released"} =>
             r.dispatch \in {"ready", "claimed", "released"}
    OBVIOUS
  <2> HIDE DEF e, b
  <2>4. /\ p \in TaskStates /\ p.paused = FALSE /\ p.passed = r.passed
        /\ p.phase = r.phase /\ p.attempt = r.attempt
    BY FlagSet
  <2> HIDE DEF p
  <2>5. /\ o \in TaskStates /\ o.dispatch = e /\ o.passed = r.passed /\ o.paused = FALSE
        /\ o.phase = r.phase /\ o.attempt = r.attempt
    BY <2>1, <2>4, DispatchSet
  <2> HIDE DEF o
  <2>6. /\ q \in TaskStates /\ q.dispatch = e /\ q.passed = r.passed /\ q.paused = FALSE
        /\ q.phase = r.phase /\ q.attempt = r.attempt
    BY <2>1, <2>5 DEF TaskStates
  <2> HIDE DEF q
  <2> QED
    BY <1>2, <2>2, <2>3, <2>6
<1> QED
  BY <1>1, <1>2

LEMMA ResumeTakeoverGood ==
  ASSUME IInv, NEW ts, NEW restart \in BOOLEAN, ResumeTakeover(ts, restart)
  PROVE  Good
<1> DEFINE f == [u \in Tasks |-> IF u \in ts THEN Resumed(u, js.task[u], restart)
                                ELSE js.task[u]]
           k == [js EXCEPT !.task = f]
           i == Moved(k, "active", k.prev, "")
           j == IF js.mode = "paused" THEN i ELSE k
<1>1. ASSUME NEW u \in Tasks
      PROVE  /\ f[u] \in TaskStates /\ f[u].passed = js.task[u].passed
             /\ Writes(f[u]) => Writes(js.task[u])
             /\ f[u].dispatch = "claimed" => js.task[u].dispatch = "claimed"
             /\ f[u].dispatch = "ready" =>
                  js.task[u].dispatch = "ready" \/ (js.task[u].paused /\ ~f[u].paused)
             /\ f[u].dispatch \in {"ready", "claimed", "released"} =>
                  js.task[u].dispatch \in {"ready", "claimed", "released"}
  <2>1. js.task[u] \in TaskStates
    BY DEF IInv, Projects
  <2>2. CASE u \in ts
    BY <2>1, <2>2, ResumedIs DEF Writes
  <2>3. CASE u \notin ts
    BY <2>1, <2>3
  <2> QED
    BY <2>2, <2>3
<1>2. Commit(db, IF js.mode = "paused"
                 THEN [k EXCEPT !.mode = "active", !.life = js.prev, !.prev = ""] ELSE k, mem)
  BY DEF ResumeTakeover
<1>3. f \in [Tasks -> TaskStates]
  BY <1>1
<1> HIDE DEF f
<1>4. k \in Projects /\ k.task = f /\ k.mode = js.mode /\ k.life = js.life /\ k.prev = js.prev
  BY <1>3 DEF IInv, Projects
<1> HIDE DEF k
<1>5. Commit(db, j, mem)
  BY <1>2, <1>4 DEF Moved
<1>6. ModeFits(k)
  BY <1>4 DEF IInv, ModeFits
<1>7. /\ j \in Projects /\ ModeFits(j) /\ j.task = f
      /\ js.mode = "paused" => j.mode = "active" /\ (js.mode # "paused" => j.mode = js.mode)
  <2>1. CASE js.mode = "paused"
    <3>1. k.life = "blocked"
      BY <1>4, <1>6, <2>1 DEF ModeFits
    <3>2. i \in Projects /\ ModeFits(i) /\ i.task = f /\ i.mode = "active"
      BY <1>4, <1>6, <3>1, Unblocked
    <3> HIDE DEF i
    <3> QED
      BY <2>1, <3>2
  <2>2. CASE js.mode # "paused"
    BY <1>4, <1>6, <2>2
  <2> QED
    BY <2>1, <2>2
<1>8. j.mode = "" => js.mode = ""
  <2>1. CASE js.mode = "paused"
    BY <1>7, <2>1
  <2>2. CASE js.mode # "paused"
    BY <1>4, <2>2
  <2> QED
    BY <2>1, <2>2
<1> HIDE DEF j
<1>9. OneWriter(j)
  BY <1>1, <1>7 DEF IInv, OneWriter
<1>10. MaxFailures = 0 => Gated(db.gates, j)
  <2>1. db.gates \subseteq Tasks
    BY DEF IInv, Tables
  <2> QED
    BY <1>1, <1>7, <2>1 DEF IInv, Gated
<1>11. Fit(db, j, mem)
  BY <1>7, <1>8, <1>9, <1>10 DEF IInv, Fit
<1>12. Orderly(j)
  <2>1. \A u \in Tasks : j.task[u].passed => Task(u).passed
    BY <1>1, <1>7 DEF Task
  <2>2. ASSUME NEW u \in Tasks, Task(u).dispatch \in {"claimed", "released"},
               j.task[u].dispatch = "ready"
        PROVE  Task(u).paused /\ ~j.task[u].paused
    BY <1>1, <1>7, <2>2 DEF Task
  <2>3. ~(js.mode = "paused" /\ j.mode = "paused")
    BY <1>7
  <2> QED
    BY <2>1, <2>2, <2>3 DEF Orderly
<1> QED
  BY <1>5, <1>11, <1>12, OrderlyGood

-----------------------------------------------------------------------------
\* The whole system.

LEMMA InitOK == Init => IInv
<1> SUFFICES ASSUME Init PROVE IInv
  OBVIOUS
<1> DEFINE f == [t \in Tasks |-> IF t \in FirstTasks THEN NewTask(t)
                                ELSE [NewTask(t) EXCEPT !.dispatch = "absent"]]
<1>1. PICK m \in Modes : js = [mode |-> m, life |-> "executing", prev |-> "", task |-> f]
  BY DEF Init
<1>2. /\ db = [lease |-> [l \in Leases |-> None], gates |-> FirstTasks \ Human]
      /\ mem = Idle /\ now = 0 /\ failures = 0
  BY DEF Init
<1>3. ASSUME NEW t \in Tasks
      PROVE  /\ f[t] \in TaskStates /\ f[t].dispatch # "claimed"
             /\ t \notin Human => f[t].dispatch \notin {"ready", "claimed", "released"}
  <2>1. NewTask(t) \in TaskStates
    BY DEF NewTask, TaskStates, Dispatches, States, Phases, Attempts
  <2>2. /\ NewTask(t).dispatch = IF t \in Human THEN "ready" ELSE "awaiting_approval"
    BY DEF NewTask
  <2>3. CASE t \in FirstTasks
    BY <2>1, <2>2, <2>3
  <2>4. CASE t \notin FirstTasks
    <3>1. "absent" \in Dispatches
      BY DEF Dispatches
    <3>2. LET q == [NewTask(t) EXCEPT !.dispatch = "absent"] IN
          q \in TaskStates /\ q.dispatch = "absent"
      BY <2>1, <3>1, DispatchSet
    <3> QED
      BY <2>4, <3>2
  <2> QED
    BY <2>3, <2>4
<1>4. f \in [Tasks -> TaskStates]
  BY <1>3
<1> HIDE DEF f
<1>5. js \in Projects /\ js.life = "executing" /\ js.prev = "" /\ js.mode # "paused" /\ js.task = f
  BY <1>1, <1>4, DispatchConstants
  DEF DispatchConstants, Projects, TakeoverModes, Lifecycle, Previous
<1>6. FirstTasks \subseteq Tasks
  BY DispatchConstants DEF DispatchConstants
<1>7. db \in Tables /\ mem \in Memories
  BY <1>2, <1>6, IdleFits DEF Tables
<1>8. now \in 0..MaxTime /\ failures \in 0..MaxFailures
  <2>1. MaxTime \in Nat /\ MaxFailures \in Nat
    BY DispatchConstants DEF DispatchConstants
  <2> QED
    BY <1>2, <2>1, SMT
<1>9. ModeFits(js)
  BY <1>5 DEF ModeFits
<1>10. OneWriter(js) /\ OneActive(db.lease)
  BY <1>2, <1>3, <1>5, <1>6 DEF OneWriter, OneActive, Active
<1>11. ByHumans(db.lease, js, mem) /\ Remembered(db.lease, mem)
  BY <1>2, IdleFits DEF ByHumans, Idle
<1>12. Gated(db.gates, js)
  BY <1>2, <1>3, <1>5, <1>6 DEF Gated
<1>13. ClosedTasksStop
  BY <1>2 DEF ClosedTasksStop, Active, Idle
<1> QED
  BY <1>5, <1>7, <1>8, <1>9, <1>10, <1>11, <1>12, <1>13 DEF IInv

LEMMA StepGood == IInv /\ [Next]_vars => Good
<1> SUFFICES ASSUME IInv, [Next]_vars PROVE Good
  OBVIOUS
<1>1. CASE RuntimeNext
  BY <1>1, ClaimHighRiskGood, ClaimConflictGood, ClaimGood, ClaimNothingGood,
     HeartbeatGood, ReleaseDoneGood, ReleaseFailedGood, ReleaseInputsGood,
     StartValidationGood, ReleaseClaimGood DEF RuntimeNext
<1>2. CASE ServerNext
  BY <1>2, ExpireGood, ApplyExpiredGood, ApplyReleaseGood, AcceptanceExitsGood,
     FinishValidationGood, MaintainGood DEF ServerNext
<1>3. CASE HumanNext
  BY <1>3, CreateTaskGood, ApproveGood, RejectGood, UpdateTaskGood, StartPhaseGood,
     CompletePhaseGood, FailPhaseGood, StartTakeoverGood, StopTakeoverGood,
     PauseTakeoverGood, ResumeTakeoverGood DEF HumanNext
<1>4. CASE Tick
  BY <1>4, TickGood
<1>5. CASE UNCHANGED vars
  <2>1. IInv'
    BY <1>5 DEF vars, IInv, ClosedTasksStop, Task, Lease, Active
  <2>2. Verified /\ NotRetried /\ StaysPaused /\ StaysManaged
    BY <1>5 DEF vars, Verified, NotRetried, StaysPaused, StaysManaged, Task
  <2> QED
    BY <2>1, <2>2 DEF Good
<1> QED
  BY <1>1, <1>2, <1>3, <1>4, <1>5 DEF Next

LEMMA Invariance == Spec => []IInv
<1>1. IInv /\ [Next]_vars => IInv'
  BY StepGood DEF Good
<1> QED
  BY <1>1, InitOK, PTL DEF Spec

-----------------------------------------------------------------------------
\* What the invariant and the steps give.

\* Leases, project and handlers hold what they can hold; what handlers
\* remember of a lease stays true of it until they act on it.
THEOREM TypeCorrect == Spec => []TypeOK
<1>1. IInv => TypeOK
  <2> SUFFICES ASSUME IInv PROVE TypeOK
    OBVIOUS
  <2>1. db \in [lease : [Leases -> {None} \cup LeaseRow], gates : SUBSET Tasks]
    BY DEF IInv, Tables
  <2>2. js \in Projects /\ mem \in Memories /\ Remembered(db.lease, mem)
    BY DEF IInv
  <2>3. mem.recycling \subseteq {l \in Leases : IsLease(l) /\ Lease(l).status = "expired"}
    BY <2>2 DEF Memories, Remembered, IsLease, Lease
  <2>4. \A x \in mem.releasing : IsLease(x.lease) /\ x.next \in {"ready", "done"}
    BY <2>2 DEF Memories, Remembered, IsLease
  <2>5. \A t \in Tasks : mem.validating[t] # None =>
          mem.validating[t] \in AcceptanceRun /\ mem.validating[t].lease \in LeasesOf(t)
    BY <2>2 DEF Memories, Remembered, AcceptanceRun, LeasesOf, IsLease, Lease
  <2> QED
    BY <2>1, <2>2, <2>3, <2>4, <2>5
    DEF TypeOK, IInv, Projects, TakeoverModes, Lifecycle, Previous, TaskStates, Dispatches, States,
        Attempts
<1> QED
  BY <1>1, Invariance, PTL

\* Whatever crashes, and however many runtimes, leases and tasks there are, no
\* two leases give authority over one task, and of the tasks that runtimes hold
\* one at most has a writing phase at work in the project's directory. That is
\* less than the comment of sharedDirectoryConflict says, and what is true.
THEOREM SingleAuthority == Spec => []OneAuthority
<1>1. IInv => OneAuthority
  <2> SUFFICES ASSUME IInv PROVE OneAuthority
    OBVIOUS
  <2>1. ASSUME NEW l \in Leases, NEW k \in Leases, HasAuthority(l), HasAuthority(k), l # k
        PROVE  Lease(l).task # Lease(k).task
    <3>1. Active(db.lease, l) /\ Active(db.lease, k)
      BY <2>1 DEF HasAuthority, Releasable
    <3> QED
      BY <2>1, <3>1 DEF IInv, OneActive, Lease
  <2>2. ASSUME NEW t \in Tasks, NEW u \in Tasks,
               Task(t).dispatch = "claimed", Task(u).dispatch = "claimed",
               Writing(js, t), Writing(js, u)
        PROVE  t = u
    BY <2>2 DEF IInv, OneWriter, Writes, Writing, Task
  <2> QED
    BY <2>1, <2>2 DEF OneAuthority
<1> QED
  BY <1>1, Invariance, PTL

\* Only an acceptance command, run and answered under a lease that still has
\* authority, makes a task verified.
THEOREM VerifiedUnderLease == Spec => PassedUnderLease
<1>1. IInv /\ [Next]_vars => Verified
  BY StepGood DEF Good
<1> QED
  BY <1>1, Invariance, PTL DEF Spec, PassedUnderLease, Verified

\* As long as no session is cut short, closed executions hold no lease, and
\* the acceptance commands of paused tasks are killed.
THEOREM ClosedExecutionsStop ==
  ASSUME MaxFailures = 0 PROVE Spec => []ClosedTasksStop
<1>1. IInv => ClosedTasksStop
  BY DEF IInv
<1> QED
  BY <1>1, Invariance, PTL

\* As long as no session is cut short, what was claimed or handed back under
\* takeover is ready again only by a human's resume.
THEOREM NothingRetried ==
  ASSUME MaxFailures = 0 PROVE Spec => NoBlindRetry
<1>1. IInv /\ [Next]_vars => NotRetried
  BY StepGood DEF Good
<1> QED
  BY <1>1, Invariance, PTL DEF Spec, NoBlindRetry, NotRetried

\* As long as no session is cut short, no released task of a paused project
\* becomes claimable before the project's resume or stop.
THEOREM PauseLasts ==
  ASSUME MaxFailures = 0 PROVE Spec => PausePersists
<1>1. IInv /\ [Next]_vars => StaysPaused
  BY StepGood DEF Good
<1> QED
  BY <1>1, Invariance, PTL DEF Spec, PausePersists, StaysPaused
-----------------------------------------------------------------------------
\* What a claimed task waited for stays done: the second invariant.

Dispatched == {"ready", "claimed", "released", "done"}

\* Humans are asked about tasks of agents that are not dispatched.
Asked(gates, j) ==
  \A t \in gates : t \notin Human /\ j.task[t].dispatch \notin Dispatched

\* What is leased was dispatched.
Known(ls, j) == \A l \in Leases : ls[l] # None => j.task[ls[l].task].dispatch \in Dispatched

Waited(j) ==
  \A t \in Tasks : j.task[t].dispatch = "claimed" =>
    \A u \in DependsOn[t] :
      j.task[u].dispatch = "done" /\ (u \in Commanded => j.task[u].passed)

Settled(gates, ls, j) == Asked(gates, j) /\ Known(ls, j) /\ Waited(j)

\* Commands run, and tasks become verified, under takeover only.
UnderTakeover == \A t \in Tasks : mem.validating[t] # None \/ js.task[t].passed => Managed(js)

\* A project that no takeover has reached yet.
WithoutTakeover == "" \in Modes

DInv ==
  /\ UnderTakeover /\ Settled(db.gates, db.lease, js)
  /\ Managed(js) \/ WithoutTakeover

\* Contracts that stay as they are, and dependencies that only a command run
\* under takeover can settle, unless the project starts under takeover.
SettledContracts ==
  /\ "edit_contract" \notin TaskActions
  /\ WithoutTakeover => \A t \in Tasks : DependsOn[t] \subseteq Commanded

\* A session settles that leaves it so.
Settles ==
  /\ Settled(db'.gates, db'.lease, js')
  /\ \A t \in Tasks : mem'.validating[t] # None => Managed(js)

\* What was done stays so, as verified as it was; nothing else is claimed.
Firm(r, q) ==
  /\ q.dispatch = "claimed" => r.dispatch = "claimed"
  /\ r.dispatch = "done" => q.dispatch = "done" /\ (r.passed => q.passed)

Steady(i, j) ==
  \A t \in Tasks :
    /\ Firm(i.task[t], j.task[t])
    /\ i.task[t].dispatch \in Dispatched <=> j.task[t].dispatch \in Dispatched

\* Leases of the same tasks.
Heirs(ls, ks) ==
  \A l \in Leases : ks[l] # None => ls[l] # None /\ ks[l].task = ls[l].task

LEMMA SteadyTwice ==
  ASSUME NEW i, NEW j, NEW k, Steady(i, j), Steady(j, k) PROVE Steady(i, k)
BY DEF Steady, Firm

LEMMA SteadyNever == ASSUME NEW j PROVE Steady(j, j)
BY DEF Steady, Firm

LEMMA StillWaited ==
  ASSUME NEW i, NEW j, Waited(i),
         \A t \in Tasks : Firm(i.task[t], j.task[t])
  PROVE  Waited(j)
<1>1. \A t \in Tasks : DependsOn[t] \subseteq Tasks
  BY DispatchConstants DEF DispatchConstants
<1> QED
  BY <1>1 DEF Waited, Firm

LEMMA StillSettled ==
  ASSUME NEW i, NEW j, NEW gates, NEW es, gates \subseteq es, es \subseteq Tasks,
         NEW ls \in Rows, NEW ks, Heirs(ls, ks),
         Settled(es, ls, i), Steady(i, j)
  PROVE  Settled(gates, ks, j)
<1>1. Asked(gates, j)
  BY DEF Settled, Asked, Steady
<1>2. Known(ks, j)
  <2> SUFFICES ASSUME NEW l \in Leases, ks[l] # None
               PROVE  j.task[ks[l].task].dispatch \in Dispatched
    BY DEF Known
  <2>1. ls[l] # None /\ ks[l].task = ls[l].task
    BY DEF Heirs
  <2>2. ls[l].task \in Tasks
    BY <2>1 DEF Rows, LeaseRow
  <2>3. i.task[ls[l].task].dispatch \in Dispatched
    BY <2>1 DEF Settled, Known
  <2> QED
    BY <2>1, <2>2, <2>3 DEF Steady
<1>3. Waited(j)
  BY StillWaited DEF Settled, Steady
<1> QED
  BY <1>1, <1>2, <1>3 DEF Settled

LEMMA KinHeirs == ASSUME NEW ls, NEW ks, Kin(ls, ks) PROVE Heirs(ls, ks)
BY DEF Kin, Heirs

\* Whether the server survives it or not.
LEMMA CommitSettles ==
  ASSUME IInv, DInv, NEW d \in Tables, NEW j, NEW m \in Memories, Commit(d, j, m),
         Settled(d.gates, d.lease, js), Settled(d.gates, d.lease, j),
         \A t \in Tasks : m.validating[t] # None => Managed(js)
  PROVE  Settles
<1>1. d.lease \in Rows /\ d.gates \subseteq Tasks
  BY DEF Tables, Rows
<1>2. /\ js' \in {js, j} /\ db'.gates = d.gates /\ Heirs(d.lease, db'.lease)
      /\ \A t \in Tasks : mem'.validating[t] # None => m.validating[t] # None
  <2>1. CASE /\ js' = j /\ db' = [d EXCEPT !.lease = Revoke(@, j)]
             /\ mem' = [m EXCEPT !.validating = Interrupt(@, j)]
    <3>1. Kin(d.lease, Revoke(d.lease, j))
      BY <1>1, RevokeKin
    <3>2. db'.lease = Revoke(d.lease, j) /\ db'.gates = d.gates
      BY <2>1 DEF Tables
    <3>3. \A t \in Tasks : mem'.validating[t] # None => m.validating[t] # None
      BY <2>1, InterruptKeeps
    <3> QED
      BY <2>1, <3>1, <3>2, <3>3, KinHeirs
  <2>2. CASE Crash /\ js' \in {js, j} /\ db' = d
    <3>1. \A t \in Tasks : mem'.validating[t] = None
      BY <2>2 DEF Crash, Idle
    <3> QED
      BY <2>2, <3>1 DEF Heirs
  <2> QED
    BY <2>1, <2>2 DEF Commit
<1>3. Settled(d.gates, d.lease, js')
  BY <1>2
<1>4. Steady(js', js')
  BY SteadyNever
<1>5. Settled(db'.gates, db'.lease, js')
  BY <1>1, <1>2, <1>3, <1>4, StillSettled
<1> QED
  BY <1>2, <1>5 DEF Settles

\* Sessions that keep their gates, their tasks' leases and what was done.
LEMMA SteadySettles ==
  ASSUME IInv, DInv, NEW d \in Tables, NEW j, NEW m \in Memories, Commit(d, j, m),
         d.gates \subseteq db.gates, Heirs(db.lease, d.lease), Steady(js, j),
         \A t \in Tasks : m.validating[t] # None => Managed(js)
  PROVE  Settles
<1>1. db.lease \in Rows /\ db.gates \subseteq Tasks /\ Settled(db.gates, db.lease, js)
  BY DEF IInv, DInv, Tables, Rows
<1>2. Settled(d.gates, d.lease, js) /\ Settled(d.gates, d.lease, j)
  BY <1>1, SteadyNever, StillSettled
<1> QED
  BY <1>2, CommitSettles

LEMMA QuietSettles ==
  ASSUME IInv, DInv, NEW j, Commit(db, j, mem), Steady(js, j) PROVE Settles
<1>1. Heirs(db.lease, db.lease) /\ db \in Tables /\ mem \in Memories
  BY DEF Heirs, IInv
<1>2. \A t \in Tasks : mem.validating[t] # None => Managed(js)
  BY DEF DInv, UnderTakeover
<1> QED
  BY <1>1, <1>2, SteadySettles

LEMMA ElsewhereSettles ==
  ASSUME IInv, DInv, js' = js, db'.gates = db.gates, Heirs(db.lease, db'.lease),
         \A t \in Tasks : mem'.validating[t] # None => mem.validating[t] # None
  PROVE  Settles
<1>1. db.lease \in Rows /\ db.gates \subseteq Tasks /\ Settled(db.gates, db.lease, js)
  BY DEF IInv, DInv, Tables, Rows
<1>2. Settled(db'.gates, db'.lease, js)
  BY <1>1, SteadyNever, StillSettled
<1>3. \A t \in Tasks : mem'.validating[t] # None => Managed(js)
  BY DEF DInv, UnderTakeover
<1> QED
  BY <1>2, <1>3 DEF Settles

\* Pausing loses nothing that is done.
LEMMA PausedTaskFirm ==
  ASSUME NEW r \in TaskStates
  PROVE  LET q == PausedTask(r) IN
         Firm(r, q) /\ (r.dispatch \in Dispatched <=> q.dispatch \in Dispatched)
<1>1. CASE r.dispatch = "absent"
  BY <1>1 DEF PausedTask, Firm
<1>2. CASE r.dispatch # "absent"
  BY <1>2, PausedTaskIs DEF Firm, Dispatched
<1> QED
  BY <1>1, <1>2

LEMMA PauseTasksSteady ==
  ASSUME NEW j \in Projects, NEW ts PROVE Steady(j, PauseTasks(j, ts))
<1> DEFINE f == [u \in Tasks |-> IF u \in ts THEN PausedTask(j.task[u]) ELSE j.task[u]]
<1>1. PauseTasks(j, ts).task = f
  BY DEF PauseTasks, Projects
<1>2. ASSUME NEW u \in Tasks
      PROVE  /\ Firm(j.task[u], f[u])
             /\ j.task[u].dispatch \in Dispatched <=> f[u].dispatch \in Dispatched
  <2>1. CASE u \in ts
    BY <2>1, PausedTaskFirm DEF Projects
  <2>2. CASE u \notin ts
    BY <2>2 DEF Firm
  <2> QED
    BY <2>1, <2>2
<1> HIDE DEF f
<1> QED
  BY <1>1, <1>2 DEF Steady

LEMMA PauseProjectSteady ==
  ASSUME NEW j \in Projects PROVE Steady(j, PauseProject(j))
<1> DEFINE k == PauseTasks(j, Tasks)
           p == IF j.life # "blocked" THEN j.life ELSE k.prev
<1>1. k \in Projects /\ Steady(j, k)
  BY PauseTasksCalm, PauseTasksSteady
<1>2. PauseProject(j) = Moved(k, "paused", "blocked", p)
  BY DEF PauseProject, Moved
<1> HIDE DEF k, p
<1>3. PauseProject(j).task = k.task
  BY <1>1, <1>2 DEF Moved, Projects
<1> QED
  BY <1>1, <1>3 DEF Steady

LEMMA WithTaskSteady ==
  ASSUME NEW j \in Projects, NEW t \in Tasks, NEW r \in TaskStates, Firm(j.task[t], r),
         j.task[t].dispatch \in Dispatched <=> r.dispatch \in Dispatched
  PROVE  Steady(j, WithTask(j, t, r))
<1> DEFINE k == WithTask(j, t, r)
<1>1. k.task[t] = r /\ \A u \in Tasks \ {t} : k.task[u] = j.task[u]
  BY WithTaskIs
<1> HIDE DEF k
<1>2. Steady(j, k)
  BY <1>1 DEF Steady, Firm
<1> QED
  BY <1>2 DEF k
-----------------------------------------------------------------------------
\* Every step settles: runtimes.

LEMMA ClaimHighRiskSettles == ASSUME IInv, DInv, ClaimHighRisk PROVE Settles
BY PauseProjectSteady, QuietSettles DEF IInv, ClaimHighRisk

LEMMA PauseSettles ==
  ASSUME IInv, DInv, NEW ts, Commit(db, PauseTasks(js, ts), mem) PROVE Settles
BY PauseTasksSteady, QuietSettles DEF IInv

LEMMA ClaimNothingSettles ==
  ASSUME IInv, DInv, NEW failed \in SUBSET Tasks, ClaimNothing(failed) PROVE Settles
BY PauseSettles DEF ClaimNothing

LEMMA ScannedSteady ==
  ASSUME IInv, NEW failed, NEW t PROVE Steady(js, Scanned(failed, t))
<1> DEFINE j == Scanned(failed, t)
           k == ScanState(failed, t)
<1>1. \A u \in Tasks : j.task[u].dispatch = k.task[u].dispatch /\ j.task[u].passed = k.task[u].passed
  BY ScannedCalm
<1>2. Steady(js, k)
  BY PauseTasksSteady DEF IInv, ScanState
<1> HIDE DEF j, k
<1>3. Steady(js, j)
  BY <1>1, <1>2 DEF Steady, Firm
<1> QED
  BY <1>3 DEF j

LEMMA ClaimConflictSettles ==
  ASSUME IInv, DInv, NEW t \in Tasks, NEW failed \in SUBSET Tasks, ClaimConflict(t, failed)
  PROVE  Settles
<1>1. Scanned(failed, t) \in Projects /\ Steady(js, Scanned(failed, t))
  BY ScannedCalm, ScannedSteady
<1>2. Steady(js, PauseProject(Scanned(failed, t)))
  BY <1>1, PauseProjectSteady, SteadyTwice
<1> QED
  BY <1>2, QuietSettles DEF ClaimConflict

\* What is claimed has what it depends on.
LEMMA ClaimSettles ==
  ASSUME IInv, DInv, NEW t \in Tasks, NEW l \in Leases, NEW failed \in SUBSET Tasks,
         Claim(t, l, failed)
  PROVE  Settles
<1> DEFINE k == Scanned(failed, t)
           i == ScanState(failed, t)
           q == WithBaseline(t, k.task[t])
           r == [q EXCEPT !.dispatch = "claimed"]
           j == WithTask(k, t, r)
           d == WithLease(l, NewLease(t))
           e == WithLease(l, RowAs(NewLease(t), "released"))
<1>1. /\ k \in Projects /\ Calm(js, k) /\ Steady(js, k)
      /\ \A u \in Tasks : /\ k.task[u].dispatch = i.task[u].dispatch
                         /\ k.task[u].passed = i.task[u].passed
  BY ScannedCalm, ScannedSteady
<1>2. i.task[t].dispatch = "ready" /\ taskDependenciesPassed(i, t)
  BY DEF Claim, Candidate, taskClaimAllowed
<1>3. \/ Commit(d, j, mem)
      \/ db' = e /\ js' \in {js, j} /\ UNCHANGED mem
  BY DEF Claim, RowAs
<1> HIDE DEF i
<1>4. k.task[t] \in TaskStates /\ k.task[t].dispatch = "ready" /\ js.task[t].dispatch = "ready"
  BY <1>1, <1>2 DEF Projects, Calm, Calmer
<1> HIDE DEF k
<1>5. r \in TaskStates /\ r.dispatch = "claimed"
  <2>1. q \in TaskStates
    BY <1>4, WithBaselineIs
  <2>2. "claimed" \in Dispatches
    BY DEF Dispatches
  <2> HIDE DEF q
  <2> QED
    BY <2>1, <2>2, DispatchSet
<1> HIDE DEF r
<1>6. j.task[t] = r /\ \A u \in Tasks \ {t} : j.task[u] = k.task[u]
  BY <1>1, <1>5, WithTaskIs
<1> HIDE DEF j
<1>7. /\ NewLease(t) \in LeaseRow /\ NewLease(t).task = t
      /\ RowAs(NewLease(t), "released") \in LeaseRow
      /\ RowAs(NewLease(t), "released").task = t
  <2>1. NewLease(t) \in LeaseRow /\ NewLease(t).task = t
    BY NewLeaseIs DEF NewLease
  <2> QED
    BY <2>1, RowClosed
<1>8. /\ d \in Tables /\ d.gates = db.gates /\ d.lease[l].task = t
      /\ \A n \in Leases \ {l} : d.lease[n] = db.lease[n]
  BY <1>7 DEF WithLease, IInv, Tables
<1>9. /\ e.gates = db.gates /\ e.lease[l].task = t
      /\ \A n \in Leases \ {l} : e.lease[n] = db.lease[n]
  BY <1>7 DEF WithLease, IInv, Tables
<1> HIDE DEF d, e
<1>10. Waited(js) /\ Waited(j)
  <2>1. Waited(js) /\ Waited(k)
    BY <1>1, StillWaited DEF DInv, Settled, Steady
  <2>2. \A u \in Tasks : DependsOn[u] \subseteq Tasks
    BY DispatchConstants DEF DispatchConstants
  <2>3. \A u \in DependsOn[t] : j.task[u].dispatch = "done" /\ (u \in Commanded => j.task[u].passed)
    BY <1>1, <1>2, <1>4, <1>6, <2>2 DEF taskDependenciesPassed
  <2>4. ASSUME NEW u \in Tasks \ {t}, j.task[u].dispatch = "claimed", NEW v \in DependsOn[u]
        PROVE  j.task[v].dispatch = "done" /\ (v \in Commanded => j.task[v].passed)
    <3>1. k.task[v].dispatch = "done" /\ (v \in Commanded => k.task[v].passed)
      BY <1>6, <2>1, <2>4 DEF Waited
    <3> QED
      BY <1>4, <1>6, <2>2, <3>1
  <2> QED
    BY <2>1, <2>3, <2>4 DEF Waited
<1>11. /\ db.gates \subseteq Tasks /\ Asked(db.gates, js) /\ Known(db.lease, js)
       /\ \A n \in Leases : db.lease[n] # None => db.lease[n].task \in Tasks
  BY DEF IInv, DInv, Settled, Tables, LeaseRow
<1>12. \A u \in Tasks : js.task[u].dispatch \in Dispatched <=> j.task[u].dispatch \in Dispatched
  BY <1>1, <1>4, <1>5, <1>6 DEF Steady, Dispatched
<1>13. Asked(db.gates, js) /\ Asked(db.gates, j)
  BY <1>11, <1>12 DEF Asked
<1>14. ASSUME NEW ls, ls[l].task = t, \A n \in Leases \ {l} : ls[n] = db.lease[n]
       PROVE  Known(ls, js) /\ Known(ls, j)
  <2>1. js.task[t].dispatch \in Dispatched
    BY <1>4 DEF Dispatched
  <2> QED
    BY <1>11, <1>12, <1>14, <2>1 DEF Known
<1>15. \A u \in Tasks : mem.validating[u] # None => Managed(js)
  BY DEF DInv, UnderTakeover
<1>16. CASE Commit(d, j, mem)
  <2>1. Settled(d.gates, d.lease, js) /\ Settled(d.gates, d.lease, j)
    BY <1>8, <1>10, <1>13, <1>14 DEF Settled
  <2> QED
    BY <1>8, <1>15, <1>16, <2>1, CommitSettles DEF IInv
<1>17. CASE db' = e /\ js' \in {js, j} /\ UNCHANGED mem
  BY <1>9, <1>10, <1>13, <1>14, <1>15, <1>17 DEF Settles, Settled
<1> QED
  BY <1>3, <1>16, <1>17

LEMMA HeartbeatSettles ==
  ASSUME IInv, DInv, NEW l \in Leases, HeartbeatClaim(l) PROVE Settles
<1> DEFINE r == RowUntil(Lease(l), now + LeaseTTL)
           d == [db EXCEPT !.lease[l].expires = now + LeaseTTL]
<1>1. Lease(l) \in LeaseRow /\ Lease(l) # None
  BY DEF IInv, Tables, HeartbeatClaim, IsLease, Lease
<1>2. r \in LeaseRow /\ r.task = Lease(l).task
  BY <1>1, TermIs, RowTerm
<1>3. d = [db EXCEPT !.lease[l] = r]
  BY DEF Lease, RowUntil
<1>4. Commit(d, js, mem)
  BY DEF HeartbeatClaim
<1> HIDE DEF r, d
<1>5. /\ d \in Tables /\ d.gates = db.gates /\ d.lease[l] = r
      /\ \A k \in Leases \ {l} : d.lease[k] = db.lease[k]
  BY <1>2, <1>3 DEF IInv, Tables
<1>6. Heirs(db.lease, d.lease)
  BY <1>1, <1>2, <1>5 DEF Heirs, Lease
<1>7. mem \in Memories /\ \A t \in Tasks : mem.validating[t] # None => Managed(js)
  BY DEF IInv, DInv, UnderTakeover
<1> QED
  BY <1>4, <1>5, <1>6, <1>7, SteadyNever, SteadySettles

LEMMA ReleaseClaimSettles ==
  ASSUME IInv, DInv, NEW l \in Leases, NEW next, ReleaseClaim(l, next) PROVE Settles
<1>1. db' = Closed(l) /\ js' = js /\ Releasable(l) /\ mem'.validating = mem.validating
  BY DEF ReleaseClaim, IInv, Memories
<1>2. db'.gates = db.gates /\ Heirs(db.lease, db'.lease)
  BY <1>1, ClosedKin, KinHeirs
<1> QED
  BY <1>1, <1>2, ElsewhereSettles

\* A lease is closed and its task is told so.
LEMMA ClosedSettles ==
  ASSUME IInv, DInv, NEW l \in Leases, Releasable(l), NEW j, Steady(js, j),
         NEW m \in Memories, \A t \in Tasks : m.validating[t] \in {None, mem.validating[t]},
         Commit(Closed(l), j, m)
  PROVE  Settles
<1>1. Closed(l) \in Tables /\ Closed(l).gates = db.gates /\ Heirs(db.lease, Closed(l).lease)
  BY ClosedKin, KinHeirs
<1>2. \A t \in Tasks : m.validating[t] # None => Managed(js)
  BY DEF DInv, UnderTakeover
<1> QED
  BY <1>1, <1>2, SteadySettles

\* The task of a lease is a task, and dispatched.
LEMMA LeasedKnown ==
  ASSUME IInv, DInv, NEW l \in Leases, IsLease(l)
  PROVE  LET t == Lease(l).task IN
         t \in Tasks /\ Task(t) \in TaskStates /\ js.task[t].dispatch \in Dispatched
<1>1. Lease(l).task \in Tasks
  BY DEF IInv, Tables, IsLease, Lease, LeaseRow
<1> QED
  BY <1>1, TaskTyped DEF DInv, Settled, Known, IsLease, Lease

LEMMA ReleaseDoneSettles ==
  ASSUME IInv, DInv, NEW l \in Leases, ReleaseDone(l) PROVE Settles
<1> DEFINE t == Lease(l).task
           p == [Task(t) EXCEPT !.dispatch = "done"]
           r == [p EXCEPT !.state = "execution_complete"]
           j == WithTask(js, t, r)
<1>1. /\ Releasable(l) /\ t \in Tasks /\ Task(t) \in TaskStates
      /\ js.task[t].dispatch \in Dispatched
  BY LeasedKnown DEF ReleaseDone, Releasable
<1>2. Commit(Closed(l), j, mem)
  BY DEF ReleaseDone
<1>3. p \in TaskStates /\ p.dispatch = "done" /\ p.passed = Task(t).passed
  <2>1. "done" \in Dispatches
    BY DEF Dispatches
  <2> QED
    BY <1>1, <2>1, DispatchSet
<1> HIDE DEF p
<1>4. r \in TaskStates /\ r.dispatch = "done" /\ r.passed = Task(t).passed
  <2>1. "execution_complete" \in States
    BY DEF States
  <2> QED
    BY <1>3, <2>1, StateSet
<1> HIDE DEF r
<1>5. Steady(js, j)
  <2>1. Firm(js.task[t], r) /\ r.dispatch \in Dispatched
    BY <1>4 DEF Firm, Task, Dispatched
  <2> QED
    BY <1>1, <1>4, <2>1, WithTaskSteady DEF IInv
<1> QED
  BY <1>1, <1>2, <1>5, ClosedSettles DEF IInv

\* What fails was claimed, not done.
LEMMA NotPassedSteady ==
  ASSUME IInv, NEW t \in Tasks, Task(t).dispatch = "claimed" PROVE Steady(js, NotPassed(t))
<1> DEFINE r == [Task(t) EXCEPT !.passed = FALSE]
           k == WithTask(js, t, r)
<1>1. r \in TaskStates /\ r.dispatch = Task(t).dispatch
  BY TaskTyped, FlagSet
<1>2. NotPassed(t) = PauseTasks(k, Affected(t))
  BY DEF NotPassed
<1> HIDE DEF r
<1>3. Firm(js.task[t], r)
  BY <1>1 DEF Firm, Task
<1>4. k \in Projects /\ Steady(js, k)
  BY <1>1, <1>3, WithTaskIs, WithTaskSteady DEF IInv, Task
<1> HIDE DEF k
<1> QED
  BY <1>2, <1>4, PauseTasksSteady, SteadyTwice

LEMMA ReleaseFailedSettles ==
  ASSUME IInv, DInv, NEW l \in Leases, ReleaseFailed(l) PROVE Settles
<1> DEFINE t == Lease(l).task
<1>1. /\ Releasable(l) /\ t \in Tasks /\ Task(t).dispatch = "claimed"
      /\ Commit(Closed(l), NotPassed(t), mem)
  BY LeasedKnown DEF ReleaseFailed, requireManagedLease, Releasable
<1> QED
  BY <1>1, NotPassedSteady, ClosedSettles DEF IInv

LEMMA ReleaseInputsSettles ==
  ASSUME IInv, DInv, NEW l \in Leases, ReleaseInputsChanged(l) PROVE Settles
BY PauseSettles DEF ReleaseInputsChanged

LEMMA StartValidationSettles ==
  ASSUME IInv, DInv, NEW l \in Leases, StartValidation(l) PROVE Settles
<1> DEFINE t == Lease(l).task
           v == [lease |-> l, result |-> "running"]
           m == [mem EXCEPT !.validating[t] = v]
<1>1. Commit(db, js, m) /\ Managed(js) /\ t \in Tasks
  BY LeasedKnown DEF StartValidation
<1>2. v \in AcceptanceRun
  BY DEF AcceptanceRun
<1> HIDE DEF v
<1>3. m \in Memories
  BY <1>1, <1>2 DEF IInv, Memories
<1> HIDE DEF m
<1>4. Heirs(db.lease, db.lease) /\ db \in Tables
  BY DEF Heirs, IInv
<1> QED
  BY <1>1, <1>3, <1>4, SteadyNever, SteadySettles
-----------------------------------------------------------------------------
\* Every step settles: the server.

\* Without takeover nothing that a task waits for can be done.
LEMMA NobodyWaits ==
  ASSUME DInv, SettledContracts, ~Managed(js), NEW t \in Tasks, Task(t).dispatch = "claimed"
  PROVE  DependsOn[t] = {}
<1>1. \A u \in DependsOn[t] : u \in Commanded /\ ~js.task[u].passed
  BY DispatchConstants DEF DInv, SettledContracts, UnderTakeover, DispatchConstants
<1> QED
  BY <1>1 DEF DInv, Settled, Waited, Task

\* Without takeover a task is told that its lease is over.
LEMMA RedispatchedSettles ==
  ASSUME IInv, DInv, SettledContracts, ~Managed(js), NEW t \in Tasks,
         js.task[t].dispatch \in Dispatched, NEW e \in {"ready", "done"},
         NEW m \in Memories, m.validating = mem.validating,
         Commit(db, WithTask(js, t, [Task(t) EXCEPT !.dispatch = e]), m)
  PROVE  Settles
<1> DEFINE r == [Task(t) EXCEPT !.dispatch = e]
           j == WithTask(js, t, r)
<1>1. e \in Dispatches /\ e # "claimed" /\ e \in Dispatched
  BY DEF Dispatches, Dispatched
<1>2. r \in TaskStates /\ r.dispatch = e
  BY <1>1, TaskTyped, DispatchSet
<1>3. Commit(db, j, m)
  OBVIOUS
<1> HIDE DEF r
<1>4. j.task[t] = r /\ \A u \in Tasks \ {t} : j.task[u] = js.task[u]
  BY <1>2, WithTaskIs DEF IInv
<1> HIDE DEF j
<1>5. Waited(j)
  <2> SUFFICES ASSUME NEW u \in Tasks, j.task[u].dispatch = "claimed" PROVE DependsOn[u] = {}
    BY DEF Waited
  <2>1. Task(u).dispatch = "claimed"
    BY <1>1, <1>2, <1>4 DEF Task
  <2> QED
    BY <2>1, NobodyWaits
<1>6. /\ db.gates \subseteq Tasks /\ Settled(db.gates, db.lease, js)
      /\ \A l \in Leases : db.lease[l] # None => db.lease[l].task \in Tasks
  BY DEF IInv, DInv, Tables, LeaseRow
<1>7. Settled(db.gates, db.lease, j)
  <2>1. \A u \in Tasks : js.task[u].dispatch \in Dispatched <=> j.task[u].dispatch \in Dispatched
    BY <1>1, <1>2, <1>4
  <2>2. Asked(db.gates, j) /\ Known(db.lease, j)
    BY <1>6, <2>1 DEF Settled, Asked, Known
  <2> QED
    BY <1>5, <2>2 DEF Settled
<1>8. \A u \in Tasks : m.validating[u] # None => Managed(js)
  BY DEF DInv, UnderTakeover
<1> QED
  BY <1>3, <1>6, <1>7, <1>8, CommitSettles DEF IInv

\* A handler that only forgets a lease.
LEMMA ForgetfulSettles ==
  ASSUME IInv, DInv, NEW m \in Memories, m.validating = mem.validating,
         NEW j, Steady(js, j), Commit(db, j, m)
  PROVE  Settles
<1>1. Heirs(db.lease, db.lease) /\ db \in Tables
  BY DEF Heirs, IInv
<1>2. \A t \in Tasks : m.validating[t] # None => Managed(js)
  BY DEF DInv, UnderTakeover
<1> QED
  BY <1>1, <1>2, SteadySettles

LEMMA ExpireSettles == ASSUME IInv, DInv, ExpireStaleClaims PROVE Settles
<1> DEFINE stale == {l \in Leases : Active(db.lease, l) /\ ~Unexpired(l)}
           ls == [l \in Leases |->
                    IF l \in stale THEN RowAs(db.lease[l], "expired")
                    ELSE db.lease[l]]
<1>1. db' = [db EXCEPT !.lease = ls] /\ js' = js /\ mem'.validating = mem.validating
  BY DEF ExpireStaleClaims, RowAs, IInv, Memories
<1>2. ASSUME NEW l \in stale
      PROVE  db.lease[l] # None /\ ls[l].task = db.lease[l].task
  <2>1. db.lease[l] \in LeaseRow /\ db.lease[l] # None
    BY DEF Active, IInv, Tables
  <2> QED
    BY <2>1, RowClosed
<1>3. \A l \in Leases \ stale : ls[l] = db.lease[l]
  OBVIOUS
<1> HIDE DEF ls, stale
<1>4. Heirs(db.lease, ls)
  BY <1>2, <1>3 DEF Heirs
<1>5. db'.lease = ls /\ db'.gates = db.gates
  BY <1>1 DEF IInv, Tables
<1> QED
  BY <1>1, <1>4, <1>5, ElsewhereSettles

LEMMA ApplyExpiredSettles ==
  ASSUME IInv, DInv, SettledContracts, NEW l \in Leases, ApplyExpiredClaim(l) PROVE Settles
<1> DEFINE t == Lease(l).task
           m == Recycled(l)
<1>1. t \in Tasks /\ js.task[t].dispatch \in Dispatched
  BY LeasedKnown DEF ApplyExpiredClaim, IInv, Remembered, IsLease
<1>2. m \in Memories /\ m.validating = mem.validating
  BY DEF IInv, Memories, Recycled
<1>3. CASE Leased(t)
  BY <1>2, <1>3, SteadyNever, ForgetfulSettles DEF ApplyExpiredClaim
<1>4. CASE ~Leased(t) /\ Managed(js)
  <2>1. Commit(db, PauseTasks(js, Affected(t)), m)
    BY <1>4 DEF ApplyExpiredClaim
  <2>2. Steady(js, PauseTasks(js, Affected(t)))
    BY PauseTasksSteady DEF IInv
  <2> HIDE DEF m
  <2> QED
    BY <1>2, <2>1, <2>2, ForgetfulSettles
<1>5. CASE ~Leased(t) /\ ~Managed(js)
  <2>1. Commit(db, WithTask(js, t, [Task(t) EXCEPT !.dispatch = "ready"]), m)
    BY <1>5 DEF ApplyExpiredClaim
  <2> HIDE DEF m
  <2> QED
    BY <1>1, <1>2, <1>5, <2>1, RedispatchedSettles
<1> QED
  BY <1>3, <1>4, <1>5

LEMMA ApplyReleaseSettles ==
  ASSUME IInv, DInv, SettledContracts, NEW x \in mem.releasing, ApplyRelease(x) PROVE Settles
<1> DEFINE t == Lease(x.lease).task
           m == [mem EXCEPT !.releasing = @ \ {x}]
<1>1. x.lease \in Leases /\ IsLease(x.lease) /\ x.next \in {"ready", "done"}
  BY DEF IInv, Memories, Remembered, IsLease
<1>2. t \in Tasks /\ js.task[t].dispatch \in Dispatched
  BY <1>1, LeasedKnown
<1>3. m \in Memories /\ m.validating = mem.validating
  BY DEF IInv, Memories
<1>4. Commit(db, IF x.next = "ready" /\ Managed(js) THEN PauseTasks(js, Affected(t))
                 ELSE WithTask(js, t, [Task(t) EXCEPT !.dispatch = x.next]), m)
  BY DEF ApplyRelease
<1> HIDE DEF m
<1>5. CASE x.next = "ready" /\ Managed(js)
  <2>1. Commit(db, PauseTasks(js, Affected(t)), m)
    BY <1>4, <1>5
  <2>2. Steady(js, PauseTasks(js, Affected(t)))
    BY PauseTasksSteady DEF IInv
  <2> QED
    BY <1>3, <2>1, <2>2, ForgetfulSettles
<1>6. CASE x.next = "done" /\ Managed(js)
  <2> DEFINE r == [Task(t) EXCEPT !.dispatch = "done"]
             j == WithTask(js, t, r)
  <2>1. Commit(db, j, m)
    BY <1>4, <1>6
  <2>2. r \in TaskStates /\ r.dispatch = "done" /\ r.passed = Task(t).passed
    <3>1. "done" \in Dispatches
      BY DEF Dispatches
    <3> QED
      BY <1>2, <3>1, TaskTyped, DispatchSet
  <2> HIDE DEF r
  <2>3. Firm(js.task[t], r) /\ r.dispatch \in Dispatched
    BY <2>2 DEF Firm, Task, Dispatched
  <2>4. Steady(js, j)
    BY <1>2, <2>2, <2>3, WithTaskSteady DEF IInv
  <2> HIDE DEF j
  <2> QED
    BY <1>3, <2>1, <2>4, ForgetfulSettles
<1>7. CASE ~Managed(js)
  <2>1. Commit(db, WithTask(js, t, [Task(t) EXCEPT !.dispatch = x.next]), m)
    BY <1>4, <1>7
  <2> QED
    BY <1>1, <1>2, <1>3, <1>7, <2>1, RedispatchedSettles
<1> QED
  BY <1>1, <1>5, <1>6, <1>7

LEMMA AcceptanceExitsSettles ==
  ASSUME IInv, DInv, NEW t \in Tasks, NEW result, AcceptanceExits(t, result) PROVE Settles
<1> DEFINE v == [mem.validating[t] EXCEPT !.result = result]
<1>1. /\ mem.validating[t] # None /\ mem' = [mem EXCEPT !.validating[t] = v]
      /\ db' = db /\ js' = js
  BY DEF AcceptanceExits
<1> HIDE DEF v
<1>2. \A u \in Tasks : mem'.validating[u] # None => mem.validating[u] # None
  BY <1>1 DEF IInv, Memories
<1> QED
  BY <1>1, <1>2, ElsewhereSettles DEF Heirs

LEMMA FinishValidationSettles ==
  ASSUME IInv, DInv, NEW t \in Tasks, FinishValidation(t) PROVE Settles
<1> DEFINE v == mem.validating[t]
           m == Validated(t)
<1>1. v # None /\ v.lease \in Leases /\ Managed(js)
  BY DEF FinishValidation, IInv, Memories, AcceptanceRun, DInv, UnderTakeover
<1>2. m \in Memories /\ \A u \in Tasks : m.validating[u] \in {None, mem.validating[u]}
  BY ValidatedIs
<1>3. requireManagedLease(t, v.lease) => Task(t).dispatch = "claimed"
  BY <1>1 DEF requireManagedLease
<1>4. \/ /\ requireManagedLease(t, v.lease) /\ Releasable(v.lease)
         /\ Commit(Closed(v.lease), Passed(t), m) \/ Commit(Closed(v.lease), NotPassed(t), m)
      \/ mem' = m /\ UNCHANGED <<db, js, now, failures>>
  BY DEF FinishValidation
<1> HIDE DEF m
<1>5. CASE /\ requireManagedLease(t, v.lease) /\ Releasable(v.lease)
           /\ Commit(Closed(v.lease), Passed(t), m)
  <2> DEFINE j == Passed(t)
  <2>1. j.task[t].dispatch = "done" /\ \A u \in Tasks \ {t} : j.task[u] = js.task[u]
    BY PassedIs
  <2>2. Commit(Closed(v.lease), j, m)
    BY <1>5
  <2> HIDE DEF j
  <2>3. Steady(js, j)
    BY <1>3, <1>5, <2>1 DEF Steady, Firm, Task, Dispatched
  <2> QED
    BY <1>1, <1>2, <1>5, <2>2, <2>3, ClosedSettles
<1>6. CASE /\ requireManagedLease(t, v.lease) /\ Releasable(v.lease)
           /\ Commit(Closed(v.lease), NotPassed(t), m)
  BY <1>1, <1>2, <1>3, <1>6, NotPassedSteady, ClosedSettles
<1>7. CASE mem' = m /\ UNCHANGED <<db, js, now, failures>>
  BY <1>2, <1>7, ElsewhereSettles DEF Heirs
<1> QED
  BY <1>4, <1>5, <1>6, <1>7

LEMMA MaintainSettles == ASSUME IInv, DInv, Maintain \/ Restart PROVE Settles
<1>1. Commit(db, js, mem)
  BY DEF Maintain, Restart, Commit
<1> QED
  BY <1>1, SteadyNever, QuietSettles

-----------------------------------------------------------------------------
\* Every step settles: humans, who do not edit contracts.

LEMMA CreateTaskSettles == ASSUME IInv, DInv, NEW t \in Tasks, CreateTask(t) PROVE Settles
<1> DEFINE d == [db EXCEPT !.gates = @ \cup ({t} \ Human)]
           r == NewTask(t)
           j == WithTask(js, t, r)
<1>1. Commit(d, j, mem) /\ js.task[t].dispatch = "absent"
  BY DEF CreateTask, Exists
<1>2. /\ r \in TaskStates
      /\ r.dispatch = IF t \in Human THEN "ready" ELSE "awaiting_approval"
  BY DEF NewTask, TaskStates, Dispatches, States, Phases, Attempts
<1>3. d \in Tables /\ d.lease = db.lease /\ d.gates = db.gates \cup ({t} \ Human)
  BY DEF IInv, Tables
<1> HIDE DEF d, r
<1>4. j.task[t] = r /\ \A u \in Tasks \ {t} : j.task[u] = js.task[u]
  BY <1>2, WithTaskIs DEF IInv
<1> HIDE DEF j
<1>5. /\ db.gates \subseteq Tasks
      /\ Asked(db.gates, js) /\ Known(db.lease, js) /\ Waited(js)
      /\ \A l \in Leases : db.lease[l] # None => db.lease[l].task \in Tasks
  BY DEF IInv, DInv, Settled, Tables, LeaseRow
<1>6. Asked(d.gates, js) /\ Asked(d.gates, j)
  <2>1. r.dispatch \in Dispatched => t \in Human
    BY <1>2 DEF Dispatched
  <2>2. js.task[t].dispatch \notin Dispatched
    BY <1>1 DEF Dispatched
  <2> QED
    BY <1>3, <1>4, <1>5, <2>1, <2>2 DEF Asked
<1>7. Known(d.lease, js) /\ Known(d.lease, j)
  <2>1. js.task[t].dispatch \notin Dispatched
    BY <1>1 DEF Dispatched
  <2> QED
    BY <1>3, <1>4, <1>5, <2>1 DEF Known
<1>8. Waited(j)
  <2>1. ASSUME NEW u \in Tasks PROVE Firm(js.task[u], j.task[u])
    BY <1>1, <1>2, <1>4 DEF Firm
  <2> QED
    BY <1>5, <2>1, StillWaited
<1>9. \A u \in Tasks : mem.validating[u] # None => Managed(js)
  BY DEF DInv, UnderTakeover
<1> QED
  BY <1>1, <1>3, <1>5, <1>6, <1>7, <1>8, <1>9, CommitSettles DEF IInv, Settled

\* A human was asked: the task is not dispatched, and nobody waited for it.
LEMMA ApproveSettles == ASSUME IInv, DInv, NEW t \in Tasks, Approve(t) PROVE Settles
<1> DEFINE d == [db EXCEPT !.gates = @ \ {t}]
           b == t \in Commanded
           p == [Task(t) EXCEPT !.dispatch = "ready"]
           r == [p EXCEPT !.baseline = b]
           j == WithTask(js, t, r)
<1>1. Commit(d, j, mem) /\ t \in db.gates
  BY DEF Approve
<1>2. p \in TaskStates /\ p.dispatch = "ready"
  <2>1. "ready" \in Dispatches
    BY DEF Dispatches
  <2> QED
    BY <2>1, TaskTyped, DispatchSet
<1>3. b \in BOOLEAN
  OBVIOUS
<1> HIDE DEF b, p
<1>4. r \in TaskStates /\ r.dispatch = "ready"
  <2>1. r \in TaskStates /\ r.dispatch = p.dispatch
    BY <1>2, <1>3 DEF TaskStates
  <2> QED
    BY <1>2, <2>1
<1>5. d \in Tables /\ d.lease = db.lease /\ d.gates = db.gates \ {t}
  BY DEF IInv, Tables
<1> HIDE DEF d, r
<1>6. j.task[t] = r /\ \A u \in Tasks \ {t} : j.task[u] = js.task[u]
  BY <1>4, WithTaskIs DEF IInv
<1> HIDE DEF j
<1>7. /\ db.gates \subseteq Tasks
      /\ Asked(db.gates, js) /\ Known(db.lease, js) /\ Waited(js)
      /\ \A l \in Leases : db.lease[l] # None => db.lease[l].task \in Tasks
  BY DEF IInv, DInv, Settled, Tables, LeaseRow
<1>8. js.task[t].dispatch \notin Dispatched
  BY <1>1, <1>7 DEF Asked
<1>9. Asked(d.gates, js) /\ Asked(d.gates, j)
  BY <1>5, <1>6, <1>7 DEF Asked
<1>10. Known(d.lease, js) /\ Known(d.lease, j)
  BY <1>5, <1>6, <1>7, <1>8 DEF Known
<1>11. Waited(j)
  <2>1. js.task[t].dispatch # "done"
    BY <1>8 DEF Dispatched
  <2>2. ASSUME NEW u \in Tasks PROVE Firm(js.task[u], j.task[u])
    BY <1>4, <1>6, <2>1 DEF Firm
  <2> QED
    BY <1>7, <2>2, StillWaited
<1>12. \A u \in Tasks : mem.validating[u] # None => Managed(js)
  BY DEF DInv, UnderTakeover
<1> QED
  BY <1>1, <1>5, <1>7, <1>9, <1>10, <1>11, <1>12, CommitSettles DEF IInv, Settled

LEMMA RejectSettles == ASSUME IInv, DInv, NEW t \in Tasks, Reject(t) PROVE Settles
<1> DEFINE d == [db EXCEPT !.gates = @ \ {t}]
           r == [Task(t) EXCEPT !.dispatch = "none"]
           j == WithTask(js, t, r)
<1>1. Commit(d, j, mem) /\ t \in db.gates
  BY DEF Reject
<1>2. r \in TaskStates /\ r.dispatch = "none"
  <2>1. "none" \in Dispatches
    BY DEF Dispatches
  <2> QED
    BY <2>1, TaskTyped, DispatchSet
<1>3. d \in Tables /\ d.lease = db.lease /\ d.gates \subseteq db.gates
  BY DEF IInv, Tables
<1> HIDE DEF d, r
<1>4. js.task[t].dispatch \notin Dispatched
  BY <1>1 DEF DInv, Settled, Asked
<1>5. Firm(js.task[t], r) /\ r.dispatch \notin Dispatched
  BY <1>2, <1>4 DEF Firm, Dispatched
<1>6. Steady(js, j)
  BY <1>2, <1>4, <1>5, WithTaskSteady DEF IInv
<1> HIDE DEF j
<1>7. Heirs(db.lease, d.lease) /\ \A u \in Tasks : mem.validating[u] # None => Managed(js)
  BY <1>3 DEF Heirs, DInv, UnderTakeover
<1> QED
  BY <1>1, <1>3, <1>6, <1>7, SteadySettles DEF IInv

LEMMA EditedFirm ==
  ASSUME NEW r \in TaskStates, NEW action, action # "edit_contract"
  PROVE  LET q == EditedTask(r, action) IN q.dispatch = r.dispatch /\ q.passed = r.passed
<1>1. EditedTask(r, action) \in
        {[r EXCEPT !.paused = TRUE], [r EXCEPT !.paused = FALSE],
         [r EXCEPT !.paused = FALSE, !.state = "cancelled"],
         [r EXCEPT !.state = "running"], [r EXCEPT !.risky = ~@], r}
  BY DEF EditedTask
<1> QED
  BY <1>1 DEF TaskStates

LEMMA UpdatedSettles ==
  ASSUME IInv, DInv, NEW t \in Tasks, NEW r \in TaskStates,
         r.dispatch = js.task[t].dispatch, r.passed = js.task[t].passed,
         NEW phaseFailed \in BOOLEAN, Updated(t, r, phaseFailed)
  PROVE  Settles
<1> DEFINE k == WithTask(js, t, r)
           j == UpdatedProject(t, r, phaseFailed)
           d == UpdatedTables(t, r)
<1>1. Commit(d, j, mem)
  BY UpdatedIs
<1>2. /\ d \in Tables /\ d.lease = db.lease
      /\ \A u \in d.gates : u \in db.gates \/ (u = t /\ t \notin Human /\ r.dispatch = "none")
  BY UpdatedTablesAre
<1>3. k \in Projects /\ Steady(js, k)
  BY WithTaskIs, WithTaskSteady DEF IInv, Firm
<1>4. j \in {PauseProject(k), PauseTasks(k, Affected(t)), k}
  BY DEF UpdatedProject
<1> HIDE DEF k, j, d
<1>5. Steady(js, j)
  BY <1>3, <1>4, PauseProjectSteady, PauseTasksSteady, SteadyTwice
<1>6. Settled(d.gates, d.lease, js)
  <2>1. "none" \notin Dispatched
    BY DEF Dispatched
  <2> QED
    BY <1>2, <2>1 DEF DInv, Settled, Asked
<1>7. Settled(d.gates, d.lease, j)
  <2>1. d.lease \in Rows /\ d.gates \subseteq Tasks /\ Heirs(d.lease, d.lease)
    BY <1>2 DEF Tables, Rows, Heirs
  <2> QED
    BY <1>5, <1>6, <2>1, StillSettled
<1>8. mem \in Memories /\ \A u \in Tasks : mem.validating[u] # None => Managed(js)
  BY DEF IInv, DInv, UnderTakeover
<1> QED
  BY <1>1, <1>2, <1>6, <1>7, <1>8, CommitSettles

LEMMA UpdateTaskSettles ==
  ASSUME IInv, DInv, SettledContracts, NEW t \in Tasks, NEW action \in TaskActions,
         UpdateTask(t, action)
  PROVE  Settles
<1> DEFINE r == EditedTask(Task(t), action)
<1>1. Updated(t, r, FALSE)
  BY DEF UpdateTask
<1>2. r \in TaskStates /\ r.dispatch = js.task[t].dispatch /\ r.passed = js.task[t].passed
  <2>1. action # "edit_contract"
    BY DEF SettledContracts
  <2> QED
    BY <2>1, TaskTyped, EditedIs, EditedFirm DEF Task
<1> HIDE DEF r
<1> QED
  BY <1>1, <1>2, UpdatedSettles

\* The phases of a task change neither what is done nor what is verified.
LEMMA StartPhaseSettles ==
  ASSUME IInv, DInv, NEW t \in Tasks, StartPhase(t) PROVE Settles
<1> DEFINE a == IF Managed(js) THEN "project" ELSE "runtime"
           r == Moves(Task(t), a, Task(t).phase, "running")
<1>1. /\ r \in TaskStates /\ r.dispatch = js.task[t].dispatch
      /\ r.passed = js.task[t].passed /\ Commit(db, WithTask(js, t, r), mem)
  BY StartPhaseIs DEF Task
<1> HIDE DEF r
<1>2. Steady(js, WithTask(js, t, r))
  BY <1>1, WithTaskSteady DEF IInv, Firm
<1> QED
  BY <1>1, <1>2, QuietSettles

LEMMA CompletePhaseSettles ==
  ASSUME IInv, DInv, NEW t \in Tasks, NEW next \in Phases, NEW autoProgress \in BOOLEAN,
         CompletePhase(t, next, autoProgress)
  PROVE  Settles
<1>1. PICK a \in Attempts \ {"project"}, s \in States :
        Updated(t, Moves(Task(t), a, next, s), FALSE)
  BY CompletePhaseIs
<1> DEFINE r == Moves(Task(t), a, next, s)
<1>2. r \in TaskStates /\ r.dispatch = js.task[t].dispatch /\ r.passed = js.task[t].passed
  BY TaskTyped, MovesIs DEF Task
<1>3. Updated(t, r, FALSE)
  BY <1>1
<1> HIDE DEF r
<1> QED
  BY <1>2, <1>3, UpdatedSettles

LEMMA FailPhaseSettles ==
  ASSUME IInv, DInv, NEW t \in Tasks, FailPhase(t) PROVE Settles
<1> DEFINE r == Moves(Task(t), "none", "write", "running")
<1>1. "none" \in Attempts /\ "write" \in Phases /\ "running" \in States
  BY DEF Attempts, Phases, States
<1>2. r \in TaskStates /\ r.dispatch = js.task[t].dispatch /\ r.passed = js.task[t].passed
  BY <1>1, TaskTyped, MovesIs DEF Task
<1>3. Updated(t, r, TRUE)
  BY FailPhaseIs
<1> HIDE DEF r
<1> QED
  BY <1>2, <1>3, UpdatedSettles

LEMMA StartTakeoverSettles == ASSUME IInv, DInv, StartTakeover PROVE Settles
<1> DEFINE j == [js EXCEPT !.mode = "active"]
<1>1. Commit(db, j, mem)
  BY DEF StartTakeover
<1>2. j.task = js.task
  BY DEF IInv, Projects
<1>3. Steady(js, j)
  BY <1>2 DEF Steady, Firm
<1> HIDE DEF j
<1> QED
  BY <1>1, <1>3, QuietSettles

LEMMA PauseTakeoverSettles ==
  ASSUME IInv, DInv, NEW t \in Tasks, NEW projectWide \in BOOLEAN, PauseTakeover(t, projectWide)
  PROVE  Settles
<1>1. CASE Commit(db, PauseProject(js), mem)
  BY <1>1, PauseProjectSteady, QuietSettles DEF IInv
<1>2. CASE Commit(db, PauseTasks(js, Affected(t)), mem)
  BY <1>2, PauseSettles
<1> QED
  BY <1>1, <1>2 DEF PauseTakeover, pauseControlState

LEMMA StoppedFirm ==
  ASSUME NEW r \in TaskStates
  PROVE  LET q == StoppedTask(r) IN
         Firm(r, q) /\ (r.dispatch \in Dispatched <=> q.dispatch \in Dispatched)
BY StoppedIs DEF Firm, Dispatched

\* Tasks as f has them, whatever becomes of the project.
LEMMA RemappedSettles ==
  ASSUME IInv, DInv, NEW f, NEW j, j.task = f, Commit(db, j, mem),
         \A u \in Tasks :
           /\ Firm(js.task[u], f[u])
           /\ js.task[u].dispatch \in Dispatched <=> f[u].dispatch \in Dispatched
  PROVE  Settles
BY QuietSettles DEF Steady

LEMMA StopTakeoverSettles == ASSUME IInv, DInv, StopTakeover PROVE Settles
<1> DEFINE f == [u \in Tasks |-> StoppedTask(js.task[u])]
           k == [js EXCEPT !.mode = "manual", !.task = f]
           j == IF js.life = "blocked" THEN [k EXCEPT !.life = js.prev, !.prev = ""] ELSE k
<1>1. Commit(db, j, mem)
  BY DEF StopTakeover
<1>2. ASSUME NEW u \in Tasks
      PROVE  /\ Firm(js.task[u], f[u])
             /\ js.task[u].dispatch \in Dispatched <=> f[u].dispatch \in Dispatched
  BY StoppedFirm DEF IInv, Projects
<1> HIDE DEF f
<1>3. j.task = f
  BY DEF IInv, Projects
<1> HIDE DEF j
<1> QED
  BY <1>1, <1>2, <1>3, RemappedSettles

LEMMA ResumedFirm ==
  ASSUME NEW t, NEW r \in TaskStates, NEW restart \in BOOLEAN
  PROVE  LET q == Resumed(t, r, restart) IN
         Firm(r, q) /\ (r.dispatch \in Dispatched <=> q.dispatch \in Dispatched)
<1> DEFINE e == IF r.dispatch = "released" THEN "ready" ELSE r.dispatch
           b == IF restart THEN t \in Commanded ELSE r.baseline
           p == [r EXCEPT !.paused = FALSE]
           o == [p EXCEPT !.dispatch = e]
           q == [o EXCEPT !.baseline = b]
<1>1. CASE ~r.paused
  BY <1>1 DEF Resumed, Firm
<1>2. CASE r.paused
  <2>1. /\ e \in Dispatches /\ (e = "claimed" => r.dispatch = "claimed")
        /\ (r.dispatch = "done" => e = "done")
        /\ r.dispatch \in Dispatched <=> e \in Dispatched
    BY DEF TaskStates, Dispatches, Dispatched
  <2>2. Resumed(t, r, restart) = q
    BY <1>2 DEF Resumed
  <2> HIDE DEF e, b
  <2>3. p \in TaskStates /\ p.passed = r.passed
    BY FlagSet
  <2> HIDE DEF p
  <2>4. o \in TaskStates /\ o.dispatch = e /\ o.passed = r.passed
    BY <2>1, <2>3, DispatchSet
  <2> HIDE DEF o
  <2>5. q.dispatch = e /\ q.passed = r.passed
    BY <2>4 DEF TaskStates
  <2> QED
    BY <2>1, <2>2, <2>5 DEF Firm
<1> QED
  BY <1>1, <1>2

LEMMA ResumeTakeoverSettles ==
  ASSUME IInv, DInv, NEW ts, NEW restart \in BOOLEAN, ResumeTakeover(ts, restart)
  PROVE  Settles
<1> DEFINE f == [u \in Tasks |-> IF u \in ts THEN Resumed(u, js.task[u], restart)
                                ELSE js.task[u]]
           k == [js EXCEPT !.task = f]
           j == IF js.mode = "paused"
                THEN [k EXCEPT !.mode = "active", !.life = js.prev, !.prev = ""] ELSE k
<1>1. Commit(db, j, mem)
  BY DEF ResumeTakeover
<1>2. ASSUME NEW u \in Tasks
      PROVE  /\ Firm(js.task[u], f[u])
             /\ js.task[u].dispatch \in Dispatched <=> f[u].dispatch \in Dispatched
  <2>1. CASE u \in ts
    BY <2>1, ResumedFirm DEF IInv, Projects
  <2>2. CASE u \notin ts
    BY <2>2 DEF Firm
  <2> QED
    BY <2>1, <2>2
<1> HIDE DEF f
<1>3. j.task = f
  BY DEF IInv, Projects
<1> HIDE DEF j
<1> QED
  BY <1>1, <1>2, <1>3, RemappedSettles

-----------------------------------------------------------------------------
LEMMA StepSettles ==
  ASSUME SettledContracts PROVE IInv /\ DInv /\ [Next]_vars => Settles
<1> SUFFICES ASSUME IInv, DInv, [Next]_vars PROVE Settles
  OBVIOUS
<1>1. CASE RuntimeNext
  BY <1>1, ClaimHighRiskSettles, ClaimConflictSettles, ClaimSettles, ClaimNothingSettles,
     HeartbeatSettles, ReleaseDoneSettles, ReleaseFailedSettles, ReleaseInputsSettles,
     StartValidationSettles, ReleaseClaimSettles DEF RuntimeNext
<1>2. CASE ServerNext
  BY <1>2, ExpireSettles, ApplyExpiredSettles, ApplyReleaseSettles, AcceptanceExitsSettles,
     FinishValidationSettles, MaintainSettles DEF ServerNext
<1>3. CASE HumanNext
  BY <1>3, CreateTaskSettles, ApproveSettles, RejectSettles, UpdateTaskSettles,
     StartPhaseSettles, CompletePhaseSettles, FailPhaseSettles,
     StartTakeoverSettles, StopTakeoverSettles, PauseTakeoverSettles, ResumeTakeoverSettles
  DEF HumanNext
<1>4. CASE Tick \/ UNCHANGED vars
  <2>1. js' = js /\ db' = db /\ mem' = mem
    BY <1>4 DEF Tick, vars
  <2> QED
    BY <2>1, ElsewhereSettles DEF Heirs
<1> QED
  BY <1>1, <1>2, <1>3, <1>4 DEF Next

LEMMA SettledForGood == ASSUME SettledContracts PROVE Spec => []DInv
<1>1. Init => DInv
  <2> SUFFICES ASSUME Init PROVE DInv
    OBVIOUS
  <2> DEFINE f == [t \in Tasks |-> IF t \in FirstTasks THEN NewTask(t)
                                  ELSE [NewTask(t) EXCEPT !.dispatch = "absent"]]
  <2>1. PICK m \in Modes : js = [mode |-> m, life |-> "executing", prev |-> "", task |-> f]
    BY DEF Init
  <2>2. ASSUME NEW t \in Tasks
        PROVE  /\ ~f[t].passed /\ f[t].dispatch # "claimed"
               /\ t \in FirstTasks \ Human => f[t].dispatch \notin Dispatched
    <3>1. /\ NewTask(t).passed = FALSE
          /\ NewTask(t).dispatch = IF t \in Human THEN "ready" ELSE "awaiting_approval"
      BY DEF NewTask
    <3>2. [NewTask(t) EXCEPT !.dispatch = "absent"].passed = FALSE
      BY DEF NewTask
    <3>3. [NewTask(t) EXCEPT !.dispatch = "absent"].dispatch = "absent"
      BY DEF NewTask
    <3> QED
      BY <3>1, <3>2, <3>3 DEF Dispatched
  <2> HIDE DEF f
  <2>3. js.task = f /\ js.mode \in Modes
    BY <2>1
  <2>4. /\ db.gates = FirstTasks \ Human /\ \A l \in Leases : db.lease[l] = None
        /\ \A t \in Tasks : mem.validating[t] = None
    BY DEF Init, Idle
  <2>5. FirstTasks \subseteq Tasks
    BY DispatchConstants DEF DispatchConstants
  <2>6. UnderTakeover /\ Settled(db.gates, db.lease, js)
    BY <2>2, <2>3, <2>4, <2>5 DEF UnderTakeover, Settled, Asked, Known, Waited
  <2>7. Managed(js) \/ WithoutTakeover
    BY <2>3 DEF Managed, WithoutTakeover
  <2> QED
    BY <2>6, <2>7 DEF DInv
<1>2. IInv /\ DInv /\ [Next]_vars => DInv'
  <2> SUFFICES ASSUME IInv, DInv, [Next]_vars PROVE DInv'
    OBVIOUS
  <2>1. Settles /\ Verified /\ StaysManaged
    BY StepSettles, StepGood DEF Good
  <2>2. Managed(js) => Managed(js')
    BY <2>1 DEF StaysManaged, Managed
  <2>3. \A t \in Tasks : mem'.validating[t] # None \/ js'.task[t].passed => Managed(js')
    BY <2>1, <2>2 DEF Settles, Verified, Task, DInv, UnderTakeover
  <2> QED
    BY <2>1, <2>2, <2>3 DEF Settles, DInv, UnderTakeover, Settled, Asked, Known, Waited, Managed
<1> QED
  BY <1>1, <1>2, Invariance, PTL DEF Spec

\* In a project whose contracts are not edited, and which either starts under
\* takeover or has only dependencies that an acceptance command verifies, a
\* task is under execution only while what it depends on is done and verified,
\* whatever crashes. Both conditions are needed: an edited contract takes back
\* what is done, and without takeover the late end of an older lease does.
THEOREM DependenciesKept ==
  ASSUME SettledContracts PROVE Spec => []DependenciesHold
<1>1. DInv => DependenciesHold
  BY DEF DInv, Settled, Waited, DependenciesHold, Task
<1> QED
  BY <1>1, SettledForGood, PTL
=============================================================================
