-------------------------- MODULE ProjectLifecycle --------------------------
(***************************************************************************)
(* A project's contract and takeover (server/project_lifecycle.go): its    *)
(* plan of milestones, the lifecycle from delegation to completion, the    *)
(* mode that lets agents work on it, and the contracts of its tasks, which *)
(* name milestones of the plan and each other. Humans edit all of it; the  *)
(* server moves it when tasks end, pauses it when they go wrong. Each      *)
(* action is one session of the project store. Leases are the business of  *)
(* TaskDispatch; here a task is claimed or it is not.                      *)
(***************************************************************************)
EXTENDS Naturals, Sequences

CONSTANTS
  Tasks,
  Plans,       \* what a human may send as the plan, valid or not
  Contracts,   \* and as the contract of a task
  Starts,      \* lifecycle states a run starts from
  MaxVersion   \* bound: the row version from which on it stays

Successor == [delegated |-> "reconnaissance", reconnaissance |-> "planning",
              planning |-> "awaiting_confirmation", awaiting_confirmation |-> "executing",
              executing |-> "awaiting_milestone_acceptance"]
States == DOMAIN Successor \cup {"awaiting_milestone_acceptance", "completed"}

ASSUME ProjectConstants ==
  /\ \A c \in Contracts : c.deps \subseteq Tasks
  /\ Starts \subseteq States
  /\ MaxVersion \in Nat

VARIABLES
  project,     \* lifecycle, takeover mode, plan, row version
  tasks        \* contract and dispatch of each task

vars == <<project, tasks>>

NoMilestone == ""
NoTask == [dispatch |-> "absent", paused |-> FALSE, passed |-> FALSE,
           milestone |-> NoMilestone, deps |-> {}]
Made == {t \in Tasks : tasks[t].dispatch # "absent"}

-----------------------------------------------------------------------------
\* Contracts.

Rank == [todo |-> 3, current |-> 2, done |-> 1]
Listed(plan) == {plan[i].id : i \in DOMAIN plan}
Status(plan, id) == {plan[i].status : i \in {j \in DOMAIN plan : plan[j].id = id}}
Current(plan) == {id \in Listed(plan) : "current" \in Status(plan, id)}

\* Done before current before todo, one current at most, no id twice.
validateMilestones(plan) ==
  \A i, j \in DOMAIN plan : i < j =>
    /\ plan[i].id # plan[j].id
    /\ Rank[plan[i].status] <= Rank[plan[j].status]
    /\ ~(plan[i].status = "current" /\ plan[j].status = "current")

\* Whatever t waits for, directly or not.
Before(ts, t) ==
  {u \in Tasks : \A C \in SUBSET Tasks :
     (ts[t].deps \subseteq C /\ \A v \in C : ts[v].deps \subseteq C) => u \in C}

\* Faulty variant: a task must not wait for itself.
validateOwnDeps(p, ts, t) ==
  /\ ts[t].milestone \in Listed(p.plan) \cup {NoMilestone}
  /\ ts[t].deps \subseteq Made \ {t}

validateTaskContract(p, ts, t) ==
  /\ ts[t].milestone \in Listed(p.plan) \cup {NoMilestone}
  /\ \A u \in Before(ts, t) : u \in Made \ {t} /\ u \notin Before(ts, u)

TasksFit(p) == \A t \in Made : validateTaskContract(p, tasks, t)

-----------------------------------------------------------------------------
\* pauseControlState: the task and what waits for it, or the whole project.

PausedTask(r) ==
  IF r.dispatch \in {"absent", "done"} THEN r
  ELSE [r EXCEPT !.paused = TRUE,
                 !.dispatch = IF @ \in {"claimed", "ready"} THEN "released" ELSE @]
PausedTasks(S) == [t \in Tasks |-> IF t \in S THEN PausedTask(tasks[t]) ELSE tasks[t]]
Waiting(t) == {u \in Made : u = t \/ t \in Before(tasks, u)}

\* Faulty variant: only the first pause keeps what it interrupts.
PausedAgain(p) ==
  [p EXCEPT !.mode = "paused", !.prev = IF p.life = "blocked" THEN "" ELSE p.life,
            !.life = "blocked", !.version = @ + 1]

\* Faulty variant: a second pause forgets what the first one interrupted.
PausedOver(p) ==
  [p EXCEPT !.mode = "paused", !.prev = p.life, !.life = "blocked", !.version = @ + 1]

Paused(p) ==
  [p EXCEPT !.mode = "paused", !.prev = IF p.life = "blocked" THEN @ ELSE p.life,
            !.life = "blocked", !.version = @ + 1]

-----------------------------------------------------------------------------
\* updateProjectContract.

\* From "completed" nothing follows.
MayFollow(p, to) ==
  \/ p.life = "blocked" /\ to = p.prev
  \/ p.life \in DOMAIN Successor /\ to = Successor[p.life]
  \/ p.life = "awaiting_milestone_acceptance" /\ to \in {"executing", "completed"}

\* lifecycleTransition; "executing" goes to the current milestone, a new one
\* after a review, "completed" needs all of them accepted.
CanMove(p, to) ==
  /\ MayFollow(p, to)
  /\ to = "executing" =>
       /\ Current(p.plan) # {}
       /\ p.life = "awaiting_milestone_acceptance" => p.milestone \notin Current(p.plan)
  /\ to = "completed" =>
       p.plan # <<>> /\ \A i \in DOMAIN p.plan : p.plan[i].status = "done"

Moved(p, to) ==
  [p EXCEPT !.life = to, !.prev = "",
            !.milestone = IF to = "executing" THEN CHOOSE m \in Current(p.plan) : TRUE ELSE @]

\* executing milestone must remain current.
OnCurrent(p) == p.life = "executing" => p.milestone \in Current(p.plan)

Planned(plan) == [project EXCEPT !.plan = plan]

Room == project.version < MaxVersion

SendPlan(plan) ==
  LET p == Planned(plan)
  IN /\ Room /\ validateMilestones(plan) /\ TasksFit(p) /\ OnCurrent(p)
     /\ project' = [p EXCEPT !.version = @ + 1]
     /\ UNCHANGED tasks

\* A plan, or the one there is, and a move in one request.
Move(plan, to) ==
  LET p == Planned(plan)
      q == Moved(p, to)
  IN /\ Room /\ project.mode # "paused"
     /\ plan # project.plan => validateMilestones(plan) /\ TasksFit(p)
     /\ CanMove(p, to) /\ OnCurrent(q)
     /\ project' = [q EXCEPT !.version = @ + 1]
     /\ UNCHANGED tasks

\* The request for "blocked" pauses, and counts once more.
Block(plan) ==
  /\ Room
  /\ plan # project.plan => validateMilestones(plan) /\ TasksFit(Planned(plan))
  /\ project' = [Paused(Planned(plan)) EXCEPT !.version = @ + 1]
  /\ tasks' = PausedTasks(Tasks)

-----------------------------------------------------------------------------
\* controlTakeover.

Start ==
  /\ Room
  /\ project.mode # "paused" /\ project.life = "executing"
  /\ project' = [project EXCEPT !.mode = "active", !.version = @ + 1]
  /\ UNCHANGED tasks

\* Humans pause whatever they like, agents what is under takeover; a reason
\* that concerns the whole project pauses all of it.
PauseTask(t) ==
  /\ Room
  /\ t \in Made
  /\ project' = [project EXCEPT !.version = @ + 1]
  /\ tasks' = PausedTasks(Waiting(t))
Pause ==
  /\ Room
  /\ project' = [Paused(project) EXCEPT !.version = @ + 1]
  /\ tasks' = PausedTasks(Tasks)

ResumedTask(r) ==
  IF ~r.paused THEN r
  ELSE [r EXCEPT !.paused = FALSE, !.dispatch = IF @ = "released" THEN "ready" ELSE @]

Unblocked(p, mode) ==
  [p EXCEPT !.mode = mode, !.version = @ + 1,
            !.life = IF p.life = "blocked" THEN p.prev ELSE @, !.prev = ""]

\* The project and all its paused tasks, from a checkpoint or the start.
Resume ==
  /\ Room
  /\ project.mode = "paused"
  /\ project' = Unblocked(project, "active")
  /\ tasks' = [t \in Tasks |-> ResumedTask(tasks[t])]

\* One task, or all paused ones, of a project that is not paused itself.
ResumeTasks(S) ==
  /\ Room
  /\ project.mode \notin {"manual", "paused"}
  /\ \E t \in S : tasks[t].paused
  /\ project' = [project EXCEPT !.version = @ + 1]
  /\ tasks' = [t \in Tasks |-> IF t \in S THEN ResumedTask(tasks[t]) ELSE tasks[t]]

StoppedTask(r) ==
  [r EXCEPT !.paused = FALSE,
            !.dispatch = IF @ \in {"claimed", "ready"} THEN "released" ELSE @]

Stop ==
  /\ Room
  /\ project' = Unblocked(project, "manual")
  /\ tasks' = [t \in Tasks |->
       IF t \in Made THEN StoppedTask(tasks[t]) ELSE tasks[t]]

-----------------------------------------------------------------------------
\* Tasks. They are an agent's, with an acceptance command: a human lets them in.

NewTask(c) ==
  [NoTask EXCEPT !.dispatch = "awaiting_approval", !.milestone = c.milestone, !.deps = c.deps]

\* An edited contract has to be let in again.
EditedTask(r, c) ==
  [r EXCEPT !.milestone = c.milestone, !.deps = c.deps, !.dispatch = "none", !.passed = FALSE]

\* One task, or the branches of another, all or none.
CreateTasks(S, c) ==
  LET ts == [t \in Tasks |-> IF t \in S THEN NewTask(c) ELSE tasks[t]]
  IN /\ S # {} /\ S \cap Made = {}
     /\ \A t \in S : validateTaskContract(project, ts, t)
     /\ tasks' = ts
     /\ UNCHANGED project

EditTask(t, c) ==
  LET ts == [tasks EXCEPT ![t] = EditedTask(@, c)]
  IN /\ t \in Made /\ tasks[t].dispatch # "claimed"
     /\ validateTaskContract(project, ts, t)
     /\ tasks' = ts
     /\ UNCHANGED project

Approve(t) ==
  /\ tasks[t].dispatch \in {"awaiting_approval", "none"}
  /\ tasks' = [tasks EXCEPT ![t].dispatch = "ready"]
  /\ UNCHANGED project

taskClaimAllowed(t) ==
  /\ ~tasks[t].paused /\ project.mode = "active" /\ project.life = "executing"
  /\ project.milestone # NoMilestone => tasks[t].milestone = project.milestone
  /\ \A d \in tasks[t].deps :
       ~tasks[d].paused /\ tasks[d].dispatch = "done" /\ tasks[d].passed

\* A claim; one that meets another task's writes pauses the project instead.
Claim(t) ==
  /\ Room
  /\ tasks[t].dispatch = "ready" /\ taskClaimAllowed(t)
  /\ IF \E u \in Tasks \ {t} : tasks[u].dispatch = "claimed"
     THEN project' = Paused(project) /\ tasks' = PausedTasks(Tasks)
     ELSE tasks' = [tasks EXCEPT ![t].dispatch = "claimed"] /\ UNCHANGED project

\* advanceMilestoneReview: all tasks of the milestone have passed.
Reviewed(p, ts) ==
  LET mine == {t \in Made : ts[t].milestone = p.milestone}
  IN IF /\ p.life = "executing" /\ mine # {}
        /\ \A t \in mine : ts[t].dispatch = "done" /\ ts[t].passed
     THEN [p EXCEPT !.life = "awaiting_milestone_acceptance", !.version = @ + 1]
     ELSE p

Finish(t) ==
  /\ Room
  /\ tasks[t].dispatch = "claimed" /\ taskClaimAllowed(t)
  /\ tasks' = [tasks EXCEPT ![t] = [@ EXCEPT !.dispatch = "done", !.passed = TRUE]]
  /\ project' = Reviewed(project, tasks')

\* The acceptance fails, or the lease runs out.
Fail(t) ==
  /\ tasks[t].dispatch = "claimed" /\ project.mode # ""
  /\ tasks' = PausedTasks(Waiting(t))
  /\ UNCHANGED project

-----------------------------------------------------------------------------
\* As createProject leaves it, or read from a file older than takeovers, and
\* some requests later.
Init ==
  /\ \E life \in Starts, mode \in {"manual", ""}, plan \in {q \in Plans : validateMilestones(q)} :
       project = [life |-> life, prev |-> "", milestone |-> NoMilestone, mode |-> mode,
                  plan |-> plan, version |-> 1]
  /\ tasks = [t \in Tasks |-> NoTask]

ContractNext ==
  \/ \E plan \in Plans :
       SendPlan(plan) \/ Block(plan) \/ \E to \in States : Move(plan, to)
  \/ Block(project.plan)
  \/ \E to \in States : Move(project.plan, to)
TakeoverNext ==
  \/ Start \/ Pause \/ Resume \/ Stop
  \/ \E t \in Tasks : PauseTask(t)
  \/ \E S \in {Tasks} \cup {{t} : t \in Tasks} : ResumeTasks(S)
TaskNext ==
  \/ \E S \in SUBSET Tasks, c \in Contracts : CreateTasks(S, c)
  \/ \E t \in Tasks :
       \/ Approve(t) \/ Claim(t) \/ Finish(t) \/ Fail(t)
       \/ \E c \in Contracts : EditTask(t, c)

Next == ContractNext \/ TakeoverNext \/ TaskNext

Spec == Init /\ [][Next]_vars

-----------------------------------------------------------------------------
\* Properties.

\* Types; and what is blocked remembers a state to return to.
TypeOK ==
  /\ project.life \in States \cup {"blocked"} /\ project.mode \in {"", "manual", "active", "paused"}
  /\ project.prev \in States \cup {"blocked", ""}
  /\ project.life = "blocked" => project.prev # ""
  /\ project.life = "blocked" <=> project.mode = "paused"
  /\ project.milestone \in {NoMilestone} \cup UNION {Listed(q) : q \in Plans}
  /\ project.version \in 1..MaxVersion + 1
  /\ \A t \in Tasks : tasks[t].dispatch \in {"absent", "awaiting_approval", "none", "ready",
                                             "claimed", "released", "done"}

\* Whatever is edited, a task names a milestone of the plan, and no task waits
\* for itself through others; a milestone that tasks name cannot be dropped.
ContractsFit ==
  \A t \in Made :
    /\ tasks[t].milestone \in Listed(project.plan) \cup {NoMilestone}
    /\ t \notin Before(tasks, t) /\ tasks[t].deps \subseteq Made

\* However often it is paused, and by whom, a blocked project goes on where it
\* was when it was blocked first.
BackToWhereItWas ==
  [][project.life = "blocked" =>
       IF project'.life = "blocked" THEN project'.prev = project.prev
       ELSE project'.life = project.prev]_vars
=============================================================================
