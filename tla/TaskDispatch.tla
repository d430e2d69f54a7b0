---------------------------- MODULE TaskDispatch ----------------------------
(***************************************************************************)
(* Leases and dispatch: how agent runtimes claim a project's tasks, prove  *)
(* that they are still alive, and hand the work back, while humans pause,  *)
(* stop, cancel and edit and the phases of the tasks' runbooks start, end  *)
(* and fail (controlplane/claims.go, server/agent_claims.go,               *)
(* project_takeover.go, project_lifecycle.go, project_control.go).         *)
(*                                                                         *)
(* The state is in three places: the lease table in SQLite (db), the       *)
(* project state in a JSON file (js), and the memory of handlers that are  *)
(* between two critical sections (mem). A session of the JSON store is one *)
(* action; Commit says what it leaves behind when the process survives and *)
(* when it does not.                                                       *)
(***************************************************************************)
EXTENDS Naturals, FiniteSets

CONSTANTS
  Tasks,        \* the tasks of one project
  FirstTasks,   \* the ones it starts with, others are created
  Order,        \* their position in the project's task list
  Human,        \* tasks raised by a human, the others by an agent
  Commanded,    \* tasks with an acceptance command
  HighRisk,     \* tasks created with high or critical risk
  DependsOn,    \* the tasks a task waits for
  Leases,       \* lease ids newID can draw
  LeaseTTL,
  Modes,        \* takeover modes a run starts from
  TaskActions,  \* what is done to single tasks
  MaxTime,      \* bound of the clock
  MaxFailures,  \* bound of crashes and failed saves
  None

\* A row of task_claims.
LeaseRow == [task : Tasks, status : {"active", "released", "expired"},
             expires : 0..(MaxTime + LeaseTTL)]

\* An acceptance command under way.
AcceptanceRun == [lease : Leases, result : {"running", "killed", "passed", "failed"}]

\* Where a task is in its runbook, as far as the workspace goes: the phases
\* review and final_validation only read it, all others may write to it.
Phases == {"write", "review", "ready_for_acceptance"}

PhaseActions == {"start_phase", "complete_phase", "fail_phase"}

ASSUME DispatchConstants ==
  /\ FirstTasks \subseteq Tasks
  /\ Order \in [Tasks -> Nat]
  /\ \A t, u \in Tasks : Order[t] = Order[u] => t = u
  /\ Human \subseteq Tasks /\ Commanded \subseteq Tasks
  /\ HighRisk \subseteq Tasks
  /\ DependsOn \in [Tasks -> SUBSET Tasks]
  /\ LeaseTTL \in Nat \ {0} /\ MaxTime \in Nat /\ MaxFailures \in Nat
  /\ Modes \subseteq {"", "active", "manual"}
  /\ TaskActions \subseteq {"pause_task", "resume_task", "cancel_task", "resume_execution",
                            "edit_contract", "edit_text", "edit_risk"} \cup PhaseActions
  /\ None \notin LeaseRow /\ None \notin AcceptanceRun

VARIABLES
  db,       \* SQLite: lease rows, and tasks with a pending dispatch gate
  js,       \* the JSON state: takeover mode, lifecycle, tasks
  mem,      \* handlers under way: see Idle
  now,
  failures

vars == <<db, js, mem, now, failures>>

Lease(l) == db.lease[l]
Task(t) == js.task[t]
IsLease(l) == db.lease[l] # None
Active(ls, l) == ls[l] # None /\ ls[l].status = "active"
Unexpired(l) == Lease(l).expires > now
LeasesOf(t) == {l \in Leases : IsLease(l) /\ Lease(l).task = t}
Leased(t) == \E l \in LeasesOf(t) : Active(db.lease, l)

Managed(j) == j.mode # ""

\* Nothing under way: no expired lease waits to be applied to its task, no
\* released one, and no acceptance command runs.
Idle == [recycling |-> {}, releasing |-> {}, validating |-> [t \in Tasks |-> None]]

WithTask(j, t, r) == [j EXCEPT !.task[t] = r]

Exists(j, t) == j.task[t].dispatch # "absent"

\* Tasks as createTaskInState makes them: a human's task is ready, an
\* agent's waits for a human behind a dispatch gate. The attempt that runs of
\* the current phase works in the runtime's directory, or in the project's
\* (or a snapshot of it) when it was started under takeover.
NewTask(t) ==
  [dispatch |-> IF t \in Human THEN "ready" ELSE "awaiting_approval",
   paused |-> FALSE, state |-> "planned", passed |-> FALSE, baseline |-> FALSE,
   risky |-> t \in HighRisk, phase |-> "write", attempt |-> "none"]

Init ==
  /\ db = [lease |-> [l \in Leases |-> None], gates |-> FirstTasks \ Human]
  /\ \E m \in Modes :
       js = [mode |-> m, life |-> "executing", prev |-> "",
             task |-> [t \in Tasks |->
               IF t \in FirstTasks THEN NewTask(t)
               ELSE [NewTask(t) EXCEPT !.dispatch = "absent"]]]
  /\ mem = Idle
  /\ now = 0
  /\ failures = 0

-----------------------------------------------------------------------------
\* Policy.

\* Faulty variant: whatever was handed back counts as a passed dependency.
taskDependenciesDone(j, t) ==
  \A d \in DependsOn[t] : ~j.task[d].paused /\ j.task[d].dispatch = "done"

taskDependenciesPassed(j, t) ==
  \A d \in DependsOn[t] :
    /\ ~j.task[d].paused
    /\ j.task[d].dispatch = "done"
    /\ d \in Commanded => j.task[d].passed

taskClaimAllowed(j, t) ==
  /\ ~j.task[t].paused
  /\ ~j.task[t].risky
  /\ taskDependenciesPassed(j, t)
  /\ IF t \in Human THEN j.task[t].state \in {"planned", "running"}
     ELSE j.mode = "active" /\ j.life = "executing" /\ t \in Commanded

writable(j, t) == j.task[t].phase # "review"

\* By the phases the tasks are in now: they move while a task is claimed.
sharedDirectoryConflict(j, t) ==
  /\ writable(j, t)
  /\ \E u \in Tasks \ {t} : j.task[u].dispatch = "claimed" /\ writable(j, u)

\* requireManagedLease: the gate of every write a runtime makes.
requireManagedLease(t, l) ==
  Managed(js) =>
    /\ taskClaimAllowed(js, t)
    /\ Task(t).dispatch = "claimed"
    /\ Active(db.lease, l) /\ Lease(l).task = t /\ Unexpired(l)

executionClosed(j, t) ==
  \/ j.task[t].paused
  \/ j.task[t].dispatch = "released"
  \/ j.task[t].state = "cancelled"
  \/ j.mode \in {"manual", "paused"} /\ t \notin Human

\* A task and everything that waits for it.
Affected(t) ==
  {u \in Tasks : \A C \in SUBSET Tasks :
     (t \in C /\ \A v \in Tasks : DependsOn[v] \cap C # {} => v \in C) => u \in C}

\* A running attempt ends as failed, that of a task that is done as well.
PausedTask(r) ==
  IF r.dispatch = "absent" THEN r
  ELSE [r EXCEPT !.paused = @ \/ r.dispatch # "done",
                 !.dispatch = IF @ \in {"claimed", "ready"} THEN "released" ELSE @,
                 !.attempt = "none"]

PauseTasks(j, ts) ==
  [j EXCEPT !.task = [u \in Tasks |-> IF u \in ts THEN PausedTask(@[u]) ELSE @[u]]]

PauseProject(j) ==
  [PauseTasks(j, Tasks) EXCEPT
     !.mode = "paused", !.life = "blocked",
     !.prev = IF j.life # "blocked" THEN j.life ELSE @]

\* pauseControlState: the server decides between a task with its dependents
\* and the whole project.
pauseControlState(j, t, projectWide) ==
  IF projectWide THEN PauseProject(j) ELSE PauseTasks(j, Affected(t))

-----------------------------------------------------------------------------
\* The session of the JSON store.

\* Faulty variant: closed tasks keep their leases.
RevokeNothing(ls, j) == ls

\* revokeClosedClaims, after the save.
Revoke(ls, j) ==
  [l \in Leases |->
     IF Active(ls, l) /\ executionClosed(j, ls[l].task)
     THEN [ls[l] EXCEPT !.status = "released"] ELSE ls[l]]

\* After the save a running acceptance command is killed when its task is
\* paused or its project not under active takeover.
Interrupt(vs, j) ==
  [t \in Tasks |->
     IF /\ vs[t] # None /\ vs[t].result = "running"
        /\ j.task[t].paused \/ j.mode \in {"paused", "manual"}
     THEN [vs[t] EXCEPT !.result = "killed"] ELSE vs[t]]

Crash ==
  /\ failures < MaxFailures
  /\ failures' = failures + 1
  /\ mem' = Idle
  /\ UNCHANGED now

\* withStateLocked with the lease table d and the state j its function leaves:
\* save, kill acceptance runs, revoke leases. The server may stop before the
\* save or between the save and the revocation.
Commit(d, j, m) ==
  \/ /\ js' = j
     /\ db' = [d EXCEPT !.lease = Revoke(@, j)]
     /\ mem' = [m EXCEPT !.validating = Interrupt(@, j)]
     /\ UNCHANGED <<now, failures>>
  \/ /\ Crash
     /\ js' \in {js, j}
     /\ db' = d

\* Every handler that records an event or a heartbeat saves the state again.
Maintain == Commit(db, js, mem)

Restart == Crash /\ UNCHANGED <<db, js>>

-----------------------------------------------------------------------------
\* Claiming.

WithLease(l, r) == [db EXCEPT !.lease[l] = r]

NewLease(t) == [task |-> t, status |-> "active", expires |-> now + LeaseTTL]

\* The first candidate the scan stops at: a task whose workspace is in use,
\* or one it can lease. Candidates without a baseline may fail to get one and
\* are paused on the way; candidates with an active lease are passed over.
Before(t, u) == Order[t] < Order[u]

ScanState(failed, t) ==
  PauseTasks(js, UNION {Affected(f) : f \in {g \in failed : Before(g, t)}})

Candidate(failed, t) ==
  LET j == ScanState(failed, t) IN
  j.task[t].dispatch = "ready" /\ taskClaimAllowed(j, t)

Conflict(failed, t) == sharedDirectoryConflict(ScanState(failed, t), t)

NeedsBaseline(t) == t \in Commanded /\ ~Task(t).baseline

WithBaseline(t, r) == [r EXCEPT !.baseline = @ \/ t \in Commanded]

\* The tasks before t were candidates that could not be had.
Reached(failed, t) ==
  \A u \in Tasks : Before(u, t) /\ Candidate(failed, u) =>
    ~Conflict(failed, u) /\ (u \in failed \/ Leased(u))

Failed(failed, t) ==
  \A f \in failed : Before(f, t) /\ NeedsBaseline(f) /\ Candidate(failed, f)

\* Candidates passed over because of a lease have got their baseline.
Scanned(failed, t) ==
  LET j == ScanState(failed, t) IN
  [j EXCEPT !.task = [u \in Tasks |->
     IF Before(u, t) /\ u \notin failed /\ Candidate(failed, u)
     THEN WithBaseline(u, @[u]) ELSE @[u]]]

HighRiskReady ==
  {t \in Tasks : Task(t).risky /\ Task(t).dispatch = "ready" /\ js.mode = "active"}

ClaimHighRisk ==
  /\ HighRiskReady # {}
  /\ Commit(db, PauseProject(js), mem)

ClaimConflict(t, failed) ==
  /\ HighRiskReady = {}
  /\ Failed(failed, t) /\ Reached(failed, t)
  /\ Candidate(failed, t) /\ Conflict(failed, t)
  /\ Commit(db, PauseProject(Scanned(failed, t)), mem)

\* The unique index on active leases: the insert fails for a leased task.
Claim(t, l, failed) ==
  LET k == Scanned(failed, t)
      j == WithTask(k, t, [WithBaseline(t, k.task[t]) EXCEPT !.dispatch = "claimed"])
      d == WithLease(l, NewLease(t))
  IN
  /\ HighRiskReady = {}
  /\ Failed(failed, t) /\ Reached(failed, t)
  /\ Candidate(failed, t) /\ ~Conflict(failed, t) /\ ~Leased(t)
  /\ ~IsLease(l)
  /\ \/ Commit(d, j, mem)
     \/ /\ failures < MaxFailures     \* the save fails: the lease is revoked
        /\ failures' = failures + 1
        /\ db' = WithLease(l, [NewLease(t) EXCEPT !.status = "released"])
        /\ js' \in {js, j}
        /\ UNCHANGED <<mem, now>>

\* No candidate can be had, but those without a baseline were paused.
ClaimNothing(failed) ==
  /\ HighRiskReady = {}
  /\ failed # {}
  /\ \A f \in failed : NeedsBaseline(f) /\ Candidate(failed, f)
  /\ \A u \in Tasks : Candidate(failed, u) =>
       ~Conflict(failed, u) /\ (u \in failed \/ Leased(u))
  /\ Commit(db, PauseTasks(js, UNION {Affected(f) : f \in failed}), mem)

-----------------------------------------------------------------------------
\* Staying alive.

HeartbeatClaim(l) ==
  /\ IsLease(l)
  /\ requireManagedLease(Lease(l).task, l)
  /\ Active(db.lease, l) /\ Unexpired(l)
  /\ Commit([db EXCEPT !.lease[l].expires = now + LeaseTTL], js, mem)

\* Faulty variant: the stale leases are collected and stay active.
CollectStaleClaims ==
  LET stale == {l \in Leases : Active(db.lease, l) /\ ~Unexpired(l)} IN
  /\ stale # {}
  /\ mem' = [mem EXCEPT !.recycling = @ \cup stale]
  /\ UNCHANGED <<db, js, now, failures>>

\* The sweep before a claim or a heartbeat, in the health monitor and at
\* start: the leases are closed in SQLite first.
ExpireStaleClaims ==
  LET stale == {l \in Leases : Active(db.lease, l) /\ ~Unexpired(l)} IN
  /\ stale # {}
  /\ db' = [db EXCEPT !.lease = [l \in Leases |->
              IF l \in stale THEN [@[l] EXCEPT !.status = "expired"] ELSE @[l]]]
  /\ mem' = [mem EXCEPT !.recycling = @ \cup stale]
  /\ UNCHANGED <<js, now, failures>>

Recycled(l) == [mem EXCEPT !.recycling = @ \ {l}]

\* Faulty variant: the task is ready again, whatever its project says.
ApplyExpiredBlindly(l) ==
  LET t == Lease(l).task IN
  /\ l \in mem.recycling
  /\ Commit(db, [js EXCEPT !.task[t].dispatch = "ready"], Recycled(l))

\* Faulty variant: only projects under takeover are told.
ApplyExpiredManaged(l) ==
  LET t == Lease(l).task IN
  /\ l \in mem.recycling
  /\ Commit(db, IF Leased(t) \/ ~Managed(js) THEN js ELSE PauseTasks(js, Affected(t)),
            Recycled(l))

\* applyExpiredClaim: then each task is told, unless it has a newer lease.
ApplyExpiredClaim(l) ==
  LET t == Lease(l).task
      j == IF Leased(t) THEN js
           ELSE IF Managed(js) THEN PauseTasks(js, Affected(t))
           ELSE WithTask(js, t, [Task(t) EXCEPT !.dispatch = "ready"])
  IN
  /\ l \in mem.recycling
  /\ Commit(db, j, Recycled(l))

-----------------------------------------------------------------------------
\* Handing back.

Closed(l) == WithLease(l, [Lease(l) EXCEPT !.status = "released"])
Releasable(l) == IsLease(l) /\ Active(db.lease, l) /\ Unexpired(l)

\* A project that was never under takeover: the lease is released first, the
\* task is told in a session of its own.
ReleaseClaim(l, next) ==
  /\ ~Managed(js)
  /\ Releasable(l)
  /\ db' = Closed(l)
  /\ mem' = [mem EXCEPT !.releasing = @ \cup {[lease |-> l, next |-> next]}]
  /\ UNCHANGED <<js, now, failures>>

\* applyClaimToTask
ApplyRelease(x) ==
  LET t == Lease(x.lease).task
      j == IF x.next = "ready" /\ Managed(js) THEN PauseTasks(js, Affected(t))
           ELSE WithTask(js, t, [Task(t) EXCEPT !.dispatch = x.next])
  IN
  /\ x \in mem.releasing
  /\ Commit(db, j, [mem EXCEPT !.releasing = @ \ {x}])

\* Done without an acceptance command: executed, not verified.
ReleaseDone(l) ==
  LET t == Lease(l).task IN
  /\ Managed(js)
  /\ Releasable(l)
  /\ t \notin Commanded
  /\ Commit(Closed(l), WithTask(js, t, [Task(t) EXCEPT !.dispatch = "done",
                                                       !.state = "execution_complete"]), mem)

NotPassed(t) ==
  PauseTasks(WithTask(js, t, [Task(t) EXCEPT !.passed = FALSE]), Affected(t))

\* Failed or given up.
ReleaseFailed(l) ==
  LET t == Lease(l).task IN
  /\ Managed(js)
  /\ IsLease(l)
  /\ requireManagedLease(t, l)
  /\ Commit(Closed(l), NotPassed(t), mem)

\* Done with an acceptance command whose inputs changed since the baseline:
\* the task is paused, before anyone looks at the lease.
ReleaseInputsChanged(l) ==
  /\ js.mode \in {"active", "paused"}
  /\ IsLease(l)
  /\ Lease(l).task \in Commanded
  /\ Commit(db, PauseTasks(js, Affected(Lease(l).task)), mem)

\* Otherwise the command is registered, run without the lock, and its result
\* applied under it.
StartValidation(l) ==
  LET t == Lease(l).task IN
  /\ Managed(js)
  /\ IsLease(l)
  /\ t \in Commanded
  /\ requireManagedLease(t, l)
  /\ mem.validating[t] = None
  /\ Commit(db, js, [mem EXCEPT !.validating[t] =
                       [lease |-> l, result |-> "running"]])

AcceptanceExits(t, result) ==
  /\ mem.validating[t] # None
  /\ mem.validating[t].result = "running"
  /\ mem' = [mem EXCEPT !.validating[t].result = result]
  /\ UNCHANGED <<db, js, now, failures>>

Validated(t) == [mem EXCEPT !.validating[t] = None]

AfterMilestoneReview(j) ==
  IF j.life = "executing" /\ \A t \in Tasks :
       Exists(j, t) => j.task[t].dispatch = "done" /\ j.task[t].passed
  THEN [j EXCEPT !.life = "awaiting_milestone_acceptance"] ELSE j

Passed(t) ==
  AfterMilestoneReview(
    WithTask(js, t, [Task(t) EXCEPT !.passed = TRUE, !.dispatch = "done"]))

\* Faulty variant: the result is applied without looking at the lease again.
FinishWithoutLease(t) ==
  /\ mem.validating[t] # None
  /\ mem.validating[t].result = "passed"
  /\ Commit(Closed(mem.validating[t].lease), Passed(t), Validated(t))

FinishValidation(t) ==
  LET v == mem.validating[t] IN
  /\ v # None
  /\ v.result # "running"
  /\ IF requireManagedLease(t, v.lease) /\ Releasable(v.lease)
     THEN Commit(Closed(v.lease),
                 IF v.result = "passed" THEN Passed(t) ELSE NotPassed(t), Validated(t))
     ELSE /\ mem' = Validated(t)
          /\ UNCHANGED <<db, js, now, failures>>

-----------------------------------------------------------------------------
\* Humans.

\* createTaskInState: at the end of the list, after what it depends on.
CreateTask(t) ==
  /\ ~Exists(js, t)
  /\ \A u \in Tasks : Before(u, t) \/ u \in DependsOn[t] => Exists(js, u)
  /\ Commit([db EXCEPT !.gates = @ \cup ({t} \ Human)],
            WithTask(js, t, NewTask(t)), mem)

\* A dispatch decision, with its projection into the task.
Approve(t) ==
  /\ t \in db.gates /\ Exists(js, t)
  /\ Commit([db EXCEPT !.gates = @ \ {t}],
            WithTask(js, t, [Task(t) EXCEPT !.dispatch = "ready",
                                            !.baseline = t \in Commanded]), mem)

Reject(t) ==
  /\ t \in db.gates /\ Exists(js, t)
  /\ Commit([db EXCEPT !.gates = @ \ {t}],
            WithTask(js, t, [Task(t) EXCEPT !.dispatch = "none"]), mem)

\* Faulty variant: resuming one task dispatches it again.
EditedTaskRedispatched(r, action) ==
  IF action = "resume_task" /\ r.paused /\ r.dispatch = "released"
  THEN [r EXCEPT !.paused = FALSE, !.dispatch = "ready"] ELSE r

\* updateTask. The dispatch state the closing syncs give to the stored task
\* is overwritten by the handler's own copy: only the gate they raise stays.
EditedTask(r, action) ==
  CASE action = "pause_task"       -> [r EXCEPT !.paused = TRUE]
    [] action = "resume_task"      -> [r EXCEPT !.paused = FALSE]
    [] action = "cancel_task"      -> [r EXCEPT !.paused = FALSE, !.state = "cancelled"]
    [] action = "resume_execution" -> [r EXCEPT !.state = "running"]
    [] action = "edit_contract"    -> [r EXCEPT !.dispatch = "none", !.passed = FALSE]
    [] action = "edit_risk"        -> [r EXCEPT !.risky = ~@]
    [] OTHER                       -> r

GateRaised(t, r) ==
  t \notin Human /\ r.state = "planned" /\ r.dispatch = "none"

\* The end of updateTask: the task is stored, and in a project under active
\* takeover the events of the session pause it (applyTakeoverEvents).
Updated(t, r, phaseFailed) ==
  LET j == WithTask(js, t, r)
      k == IF js.mode # "active" THEN j
           ELSE IF r.risky THEN PauseProject(j)
           ELSE IF phaseFailed THEN PauseTasks(j, Affected(t)) ELSE j
  IN Commit(IF GateRaised(t, r) THEN [db EXCEPT !.gates = @ \cup {t}] ELSE db, k, mem)

UpdateTask(t, action) ==
  /\ Exists(js, t)
  /\ action = "edit_contract" => Task(t).dispatch # "claimed"
  /\ action = "cancel_task" => Task(t).state # "execution_complete"
  /\ Updated(t, EditedTask(Task(t), action), FALSE)

-----------------------------------------------------------------------------
\* The phases of a task's runbook: updateTask with a phase action, for a human
\* or for the runtime that holds the lease, and the result of a tool.

\* Under takeover by hand a human's word is enough.
executionGate(t) ==
  \/ ~Managed(js)
  \/ js.mode = "manual" /\ ~Task(t).paused
  \/ /\ taskClaimAllowed(js, t)
     /\ Task(t).dispatch = "claimed"
     /\ \E l \in LeasesOf(t) : Active(db.lease, l) /\ Unexpired(l)

CanStartPhase(t) ==
  /\ "start_phase" \in TaskActions
  /\ Exists(js, t)
  /\ executionGate(t)
  /\ Task(t).phase # "ready_for_acceptance"
  /\ Task(t).attempt = "none"

PhaseStarted(t) ==
  Updated(t, [Task(t) EXCEPT !.attempt = IF Managed(js) THEN "project" ELSE "runtime",
                             !.state = "running"], FALSE)

\* Faulty variant: the workspace is looked at for the claim only.
StartPhaseUnchecked(t) == CanStartPhase(t) /\ PhaseStarted(t)

\* A start beside a writer is refused; the server then pauses a project that is
\* under active takeover, in a session of its own (PauseTakeover).
StartPhase(t) ==
  /\ CanStartPhase(t)
  /\ Managed(js) => ~sharedDirectoryConflict(js, t)
  /\ PhaseStarted(t)

NextPhases(phase) ==
  IF phase = "write" THEN {"write", "review"} ELSE {"review", "ready_for_acceptance"}

\* Outside takeover the result of a tool also starts the next phase.
CompletePhase(t, next, autoProgress) ==
  /\ "complete_phase" \in TaskActions
  /\ executionGate(t)
  /\ Task(t).attempt # "none"
  /\ next \in NextPhases(Task(t).phase)
  /\ autoProgress => ~Managed(js) /\ next # "ready_for_acceptance"
  /\ Updated(t, [Task(t) EXCEPT
                   !.attempt = IF autoProgress THEN "runtime" ELSE "none",
                   !.phase = next,
                   !.state = IF next = "ready_for_acceptance"
                             THEN "execution_complete" ELSE "running"], FALSE)

\* The task goes on in fix_or_replan, which writes, and is still claimed.
FailPhase(t) ==
  /\ "fail_phase" \in TaskActions
  /\ Task(t).attempt # "none"
  /\ Updated(t, [Task(t) EXCEPT !.attempt = "none", !.phase = "write",
                                !.state = "running"], TRUE)

-----------------------------------------------------------------------------
\* Takeover.

StartTakeover ==
  /\ js.mode # "paused"
  /\ js.life = "executing"
  /\ Commit(db, [js EXCEPT !.mode = "active"], mem)

\* By a human, by an agent that asks for it, or by the server on a violation.
PauseTakeover(t, projectWide) ==
  Exists(js, t) /\ Commit(db, pauseControlState(js, t, projectWide), mem)

\* Resumed with a checkpoint, or with an explicit restart, which also renews
\* the baseline.
Resumed(t, r, restart) ==
  IF ~r.paused THEN r
  ELSE [r EXCEPT !.paused = FALSE,
                 !.dispatch = IF @ = "released" THEN "ready" ELSE @,
                 !.baseline = IF restart THEN t \in Commanded ELSE @]

ResumeTakeover(ts, restart) ==
  LET j == [js EXCEPT !.task = [u \in Tasks |->
              IF u \in ts THEN Resumed(u, @[u], restart) ELSE @[u]]]
  IN
  /\ js.mode # "manual"
  /\ js.mode = "paused" => ts = Tasks
  /\ js.mode = "paused" \/ \E u \in ts : Task(u).paused
  /\ Commit(db, IF js.mode = "paused"
                THEN [j EXCEPT !.mode = "active", !.life = js.prev, !.prev = ""] ELSE j, mem)

StoppedTask(r) ==
  [r EXCEPT !.paused = FALSE,
            !.dispatch = IF @ \in {"claimed", "ready"} THEN "released" ELSE @,
            !.attempt = "none"]

StopTakeover ==
  LET j == [js EXCEPT !.mode = "manual", !.task = [u \in Tasks |-> StoppedTask(@[u])]]
  IN Commit(db, IF js.life = "blocked"
                THEN [j EXCEPT !.life = js.prev, !.prev = ""] ELSE j, mem)

-----------------------------------------------------------------------------
Tick == now < MaxTime /\ now' = now + 1 /\ UNCHANGED <<db, js, mem, failures>>

RuntimeNext ==
  \/ ClaimHighRisk
  \/ \E t \in Tasks, failed \in SUBSET Tasks :
       ClaimConflict(t, failed) \/ \E l \in Leases : Claim(t, l, failed)
  \/ \E failed \in SUBSET Tasks : ClaimNothing(failed)
  \/ \E l \in Leases :
       \/ HeartbeatClaim(l) \/ ReleaseDone(l) \/ ReleaseFailed(l)
       \/ ReleaseInputsChanged(l) \/ StartValidation(l)
       \/ \E next \in {"ready", "done"} : ReleaseClaim(l, next)

ServerNext ==
  \/ ExpireStaleClaims
  \/ \E l \in Leases : ApplyExpiredClaim(l)
  \/ \E x \in mem.releasing : ApplyRelease(x)
  \/ \E t \in Tasks :
       \/ \E result \in {"passed", "failed"} : AcceptanceExits(t, result)
       \/ FinishValidation(t)
  \/ Maintain
  \/ Restart

HumanNext ==
  \/ \E t \in Tasks : CreateTask(t) \/ Approve(t) \/ Reject(t)
  \/ \E t \in Tasks, a \in TaskActions \ PhaseActions : UpdateTask(t, a)
  \/ \E t \in Tasks : StartPhase(t) \/ FailPhase(t)
  \/ \E t \in Tasks, next \in Phases, autoProgress \in BOOLEAN :
       CompletePhase(t, next, autoProgress)
  \/ StartTakeover \/ StopTakeover
  \/ \E t \in Tasks, projectWide \in BOOLEAN : PauseTakeover(t, projectWide)
  \/ \E ts \in {Tasks} \cup {{t} : t \in Tasks}, restart \in BOOLEAN :
       ResumeTakeover(ts, restart)

Next == RuntimeNext \/ ServerNext \/ HumanNext \/ Tick

\* The health monitor sweeps for as long as the server lives, and a handler
\* that has started ends.
Fairness ==
  /\ WF_vars(ExpireStaleClaims)
  /\ \A l \in Leases : WF_vars(ApplyExpiredClaim(l))
  /\ WF_vars(\E x \in mem.releasing : ApplyRelease(x))

Spec == Init /\ [][Next]_vars /\ Fairness

-----------------------------------------------------------------------------
\* Properties.

\* Every place holds what its code can put there; a lease whose expiry waits
\* to be told to its task is closed in SQLite, and an acceptance command runs
\* for a lease of its own task.
TypeOK ==
  /\ db \in [lease : [Leases -> {None} \cup LeaseRow], gates : SUBSET Tasks]
  /\ js \in [mode : {"", "active", "paused", "manual"},
             life : {"executing", "blocked", "awaiting_milestone_acceptance"},
             prev : {"", "executing", "awaiting_milestone_acceptance"},
             task : [Tasks -> [dispatch : {"absent", "none", "awaiting_approval", "ready",
                                           "claimed", "released", "done"},
                               paused : BOOLEAN,
                               state : {"planned", "running", "cancelled",
                                        "execution_complete"},
                               passed : BOOLEAN, baseline : BOOLEAN, risky : BOOLEAN,
                               phase : Phases,
                               attempt : {"none", "runtime", "project"}]]]
  /\ mem.recycling \subseteq {l \in Leases : IsLease(l) /\ Lease(l).status = "expired"}
  /\ \A x \in mem.releasing : IsLease(x.lease) /\ x.next \in {"ready", "done"}
  /\ \A t \in Tasks : mem.validating[t] # None =>
       mem.validating[t] \in AcceptanceRun /\ mem.validating[t].lease \in LeasesOf(t)
  /\ now \in 0..MaxTime /\ failures \in 0..MaxFailures

\* A lease with which a runtime may write, release or renew.
HasAuthority(l) ==
  IsLease(l) /\ Releasable(l) /\ requireManagedLease(Lease(l).task, l)

\* The work on a task writes to the directory of its project.
Writing(j, t) == j.task[t].attempt = "project" /\ j.task[t].phase = "write"

\* However claims, sweeps, pauses, phases and crashes interleave, no two leases
\* give authority over one task, and of the tasks that runtimes hold no two
\* have a writing phase at work in the project's directory: what the check
\* before a claim (agent_claims.go:88) and the second one before a phase starts
\* (startProjectControlTaskPhase) are for, although a claimed task may come
\* back from a phase that only reads to one that writes.
OneAuthority ==
  /\ \A l, k \in Leases : HasAuthority(l) /\ HasAuthority(k) /\ l # k =>
       Lease(l).task # Lease(k).task
  /\ \A t, u \in Tasks :
       /\ Task(t).dispatch = "claimed" /\ Task(u).dispatch = "claimed"
       /\ Writing(js, t) /\ Writing(js, u)
       => t = u

\* An execution that was paused, stopped, cancelled or handed back is over: its
\* lease is revoked before the session that closed the task ends
\* (revokeClosedClaims), and the acceptance command of a paused task does not
\* go on running (withStateLocked cancels acceptanceRuns after the save).
ClosedTasksStop ==
  /\ \A l \in Leases : Active(db.lease, l) => ~executionClosed(js, Lease(l).task)
  /\ \A t \in Tasks : mem.validating[t] # None /\ Task(t).paused =>
       mem.validating[t].result # "running"

\* A task is under execution only when what it depends on is done, and
\* verified if it can be, whatever happened to both since the claim
\* (taskDependenciesPassed is looked at only when authority is).
DependenciesHold ==
  \A t \in Tasks : Task(t).dispatch = "claimed" =>
    \A d \in DependsOn[t] :
      Task(d).dispatch = "done" /\ (d \in Commanded => Task(d).passed)

\* Only the server's acceptance command, run and answered under a lease that
\* still has authority, makes a task verified: not the agent's word, and not
\* the late result of an execution that was closed since (releaseManagedTask).
PassedUnderLease ==
  [][\A t \in Tasks : ~Task(t).passed /\ Task(t)'.passed =>
       /\ mem.validating[t] # None
       /\ mem.validating[t].result = "passed"
       /\ HasAuthority(mem.validating[t].lease)]_vars

\* In a project under takeover a task that was claimed or handed back becomes
\* claimable again only because a human resumes it: "A release/expiry is never
\* permission for a blind retry" (applyClaimToTaskRechecked).
NoBlindRetry ==
  [][\A t \in Tasks :
       Managed(js) /\ Task(t).dispatch \in {"claimed", "released"} /\ Task(t)'.dispatch = "ready"
         => Task(t).paused /\ ~Task(t)'.paused]_vars

\* A project-wide pause ends with the project's resume or stop: until then
\* no task it took back is claimable, human or not, whatever is done to tasks
\* one by one (controlTakeover: "project pause requires project resume").
PausePersists ==
  [][\A t \in Tasks :
       js.mode = "paused" /\ js'.mode = "paused" /\ Task(t).dispatch = "released"
         => Task(t)'.dispatch \notin {"ready", "claimed"}]_vars

Stranded(t) ==
  /\ Task(t).dispatch = "claimed"
  /\ ~\E l \in LeasesOf(t) : Active(db.lease, l) /\ Unexpired(l)

\* A task whose lease ran out does not stay claimed: the sweep recycles it, as
\* the head of agent_claims.go says ("stale leases recycle their tasks").
StaleLeasesRecycle == \A t \in Tasks : Stranded(t) ~> ~Stranded(t)

=============================================================================
