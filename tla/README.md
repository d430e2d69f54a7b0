# Roambench in TLA+

Roambench is a single-user server that runs coding agents in terminals (tmux),
keeps a board of projects and tasks for them, and lets a human answer their
questions from a browser or a phone. This directory models the parts of it
where ordering, concurrency and failure matter, checks them with TLC on small
instances and proves central invariants with TLAPS.

1. [The system](#1-the-system)
2. [The modules](#2-the-modules)
3. [What is modelled, checked and proved](#3-what-is-modelled-checked-and-proved)
4. [Where the code and its words differ](#4-where-the-code-and-its-words-differ)
5. [Not modelled](#5-not-modelled)
6. [Limits](#6-limits)

## 1. The system

State lives in three places that no transaction spans:

* **SQLite** (`internal/controlplane`): interactions, responses, decisions,
  idempotency keys, the outbox, task projections, task leases, handoffs. One
  connection, so every repository method is one atomic transaction.
* **A JSON file per user** (`internal/server/project_control.go`): projects,
  workstreams, tasks, checkpoints, decisions, runs. One mutex; a session loads
  the file, hydrates the approvals from SQLite, runs a function, imports the
  approvals back into SQLite and writes the file through a WAL.
* **tmux and session files** (`internal/terminal`): the terminals themselves.

Outside the server, **worker daemons** (`cmd/roambench-worker`) claim tasks over
HTTP and run executors for them.

| Component | State | Operations | Hard behaviour |
|---|---|---|---|
| Interaction gateway (`repository.go`, `migration.go`, `runtime_checkpoint_persistence.go`) | interactions and their answers | create, respond, cancel, expire, wait, hydrate, import | racing closers, retries, stale imports |
| Leases and dispatch (`claims.go`, `agent_claims.go`, `project_takeover.go`) | `task_claims`, dispatch state, phases and takeover mode in the JSON | claim, heartbeat, release, sweep, pause, resume, take over, start and end phases | the lease and the task are in two stores; crash between them; validation runs while unlocked; who writes to the workspace changes under a lease |
| Project store (`project_control.go` load/save) | main file, WAL, backup | load, save, recover | crash between any two writes, approvals saved first |
| Tasks, runbooks, tool runs (`project_control.go`), projector (`task_projector.go`, `projection.go`) | task state machine, phases, tool runs, questions, `task_projections` | start/complete/fail phase, run tool, recover, decide, project | tools and answers arrive late, twice, or after the phase is over |
| History of tasks (`projectControlCompactState`, `eventsForUser`) | events, attempts, runs, artifacts, memory | record, compact, page | what is pruned while somebody reads or refers to it |
| Project lifecycle (`project_lifecycle.go`) | lifecycle state, contract, milestones | transitions, block/unblock, contracts of tasks | history of the previous state, cycles over several edits |
| Terminal handoff (`handoff.go`, `terminal_handoff.go`, `agent_register_task.go`) | pending handoffs, copies, source refs | copy, paste, submit, cancel, register | matching a goal with the pastes it was made of; promotion fails half way |
| Terminal manager (`terminal/manager.go`) | sessions, dirty set, metadata files | create, list, use, rename, bind, kill, reap, flush, recover | list and prune race creation; persists overlap; files outlive sessions |
| Worker (`cmd/roambench-worker`) | slots, leases it holds, executors | claim, heartbeat, run, report, release, stop | shutdown, lost leases, late reports |
| Progress feed, workspace state, login sessions, HTTP, Telegram, host integrations, configuration, web client | section 5 | | |

**Interactions between them.** A human's response is committed in SQLite with
a projection row; the projector later applies it to the task in the JSON file.
A claim inserts a lease in SQLite inside a session of the JSON store. The
terminal's end cancels its pending interactions. A handoff ties a terminal's
paste to the task its goal becomes. A worker sees the server through the
answers to its claims, heartbeats, reports and releases only.

**What makes each correct** is stated by the properties of section 3; the list
of hazards in `PROJECT.json` names the line where each could go wrong.

## 2. The modules

| Module | Models | Refines | Proofs |
|---|---|---|---|
| `InteractionGateway` | approvals in SQLite and the session of the project store | `FinalDecision` | `InteractionGatewayProofs` |
| `TaskDispatch` | leases, dispatch, takeover, acceptance commands | | `TaskDispatchProofs` |
| `StateStore` | files of the project store, write by write | `AtomicStore` | `StateStoreProofs` |
| `TaskBoard` | one task: states, runbook, tools, questions, answers, projector | | `TaskBoardProofs` |
| `TaskHistory` | what is kept, counted and read of a task's history | | `TaskHistoryProofs` |
| `ProjectLifecycle` | plan, lifecycle, takeover mode, contracts of tasks | | `ProjectLifecycleProofs` |
| `Handoff` | copies, pastes, submissions, source references | | `TaskBoardProofs`, second half |
| `TerminalManager` | sessions in memory, in tmux, in files | | `TerminalManagerProofs` |
| `Worker` | worker daemons and their executions | | `WorkerProofs` |

`MC...` modules hold the values that a `.cfg` cannot write down. The components
meet in actions of one module that stand for the other: `TaskDispatch` sees a
decision and its projection as one step, `TaskBoard` shows that step in two
halves and sees a lease as the gate `open`; `ProjectLifecycle` sees a task as
claimed or not; `Worker` sees the server as leases that end; `StateStore` keeps
of an approval only where it is, `InteractionGateway` all of it but the files.
A larger composition would multiply states without an interleaving that one of
these does not have: every two of them share no more than such a step.

## 3. What is modelled, checked and proved

Each action is one critical section of the code: a SQLite transaction, a
session under the JSON store's mutex, a section under the terminal manager's
mutex, one file operation, one step of a goroutine. What a handler remembers
between two of them is state of the model. Bounds are guards, and named.

### Interaction gateway

| Module | Role |
|---|---|
| `FinalDecision` | what the gateway promises an adapter: a request is asked once, stays open, and is closed with one outcome for ever |
| `InteractionGateway` | the tables of `repository.go` as functions from request ids, one action per repository operation, and the project store's session |
| `MCInteractionGateway` | the calls used by the instance |
| `InteractionGatewayProofs` | the theorems |

*Correspondence.* `body`, `status`, `version`, `final`, `hash` are the columns
of `interactions`; `responses` joins `responses` with `decisions`; `idem` and
`posted` are the two idempotency tables; `outbox` and `projection` are the
tables of that name. Every repository method runs in one transaction on one
connection and is one action. A refused call rolls back and is no action; the
exception, a late response that expires the row before it is refused, is
`RespondLate`. The project store is not one transaction: `hydrateApprovalsLocked`
(`StoreLoad`) reads, the session's function changes the copy (`StoreRaise`,
`StoreExpire`, `StoreAutoApprove`, `StoreResolveStaleGate`), `syncApprovalsLocked`
(`StoreSave`) imports it, and anything may happen in between (`StoreAbandon`
is an error or the end of the process).

*Abstractions.* A request's reviewed content and its hash are one value. Titles,
summaries, options and feedback are left out. The three outbox events of a
response are one. Wall-clock time is a counter up to `MaxTime`.

*Run.* `GatewayRaces` has two requests, two idempotency keys, two clients with
conflicting calls, one copy in the store and a clock. It checks the types,
`ClosedOnce`, `ResolvedAsAnswered`, `ReviewedInTime`, `RetriesChangeNothing`,
the refinement `OneFinalDecision`, and `DueRequestsClose`, a liveness property
under the fairness of the sweep (`startInteractionLifecycle` ticks every second
for as long as the server lives; nothing else is fair). Versions never pass 2.
A race needs at most one copy, one adapter and two clients on one row; the
second row lets two kinds be present at once and two creates share a key.

*Proofs.* `InteractionGatewayProofs` proves the invariants and the refinement
for every value of the constants. The invariants are not inductive alone. The
inductive invariant `IInv` is the conjunction of the table invariants and of
`ViewConsistent`: an import is harmless because the copy is never ahead of the
tables except by one closing of its own. The link is the lemma `StepAdvances`:
every action `Advance`s the tables (rows get newer by at most one version, keep
body and response, closed rows keep status and verdict), and `ViewStays` shows
that a copy stays consistent under any advance. `RetriesChangeNothing` rests on a
second invariant, `RetryInv`, that ties what callers were told to the tables their
keys are in: a stored key names a request that has a response, everyone answered
under a key was given that response, and a create key names a row of its vendor
request. It uses two facts of the first invariant, that a row keeps its body and
that a response is the only one of its row. The theorems assume the shape of
proposals (`GatewayConstants`) and that "no row" is no command.

### Leases and dispatch

*Correspondence.* `db.lease` is the table `task_claims`, `db.gates` the tasks
with a pending dispatch gate. `js` is what the JSON file holds of one project:
takeover mode, lifecycle state and its history, and of each task its dispatch
state, pause reason, execution state, acceptance result, protected baseline,
risk, phase and running attempt. `mem` is what a handler knows between two critical sections: leases
that the sweep closed in SQLite and whose tasks are not told yet
(`recycling`), releases whose tasks are not told yet (`releasing`), acceptance
commands that run without the mutex (`validating`). A session of the JSON store
(`withStateLocked`) is one action, also when it writes to SQLite on its way:
`Commit` says what it leaves behind if the save succeeds, and which of its
SQLite writes stay if the process dies before the file is written. Claims,
heartbeats, releases and sweeps are one action per critical section of
`agent_claims.go`; the human's actions are `Takeover`'s pause, resume and stop
and `updateTask`'s task actions, with the revocations of `revokeClosedClaims`
that every session ends with.

*Phases.* Whether a task writes to the project's directory is decided by the phase it
is in (`writable`; `review` and `final_validation` only read, and are one phase of the
model), and the phase moves while the task is claimed. `StartPhase`, `CompletePhase`
and `FailPhase` are the phase actions of `updateTask` and the results of tools.
`sharedDirectoryConflict` is looked at before a claim and again before a phase starts
under takeover (`project_control.go:1247-1253`). `attempt` tells where the running attempt of the
current phase works: in the directory of its runtime, or, when it was started under
takeover, in the project's or a read-only copy of it (`prepareControlledWorkspace`).
An attempt is ended by a pause and by a stop of the takeover.

*Runs.*

* `DispatchManaged`: a project under takeover or stopped, a human's task and an
  agent's, two leases, all task actions but phases. A closed execution has no lease
  and no running command (`ClosedTasksStop`); a released or expired task waits for a
  human (`NoBlindRetry`); a project-wide pause stays whatever is done to single tasks
  (`PausePersists`).
* `DispatchCrashes`: the server may stop, or a save fail, inside every session,
  with and without takeover, while one task waits for the other, whose risk is high and
  edited (`DependenciesHold`), and only the server's own acceptance run, under a lease
  with authority, verifies a task (`PassedUnderLease`).
* `DispatchPhases`: two tasks of humans, one created later, go through their phases
  while they are claimed, paused, stopped and taken over, in projects with and without
  takeover. No two leases give authority over one task, and of the claimed tasks at
  most one has a writing phase at work in the project's directory (`OneAuthority`).
  The liveness property `StaleLeasesRecycle` rests on the fairness of the health
  monitor (`ExpireStaleClaims` is called at every tick for as long as the server lives)
  and of handlers that have started (they run to their end); a runtime owes nothing.

*Bounds.* Leases last one tick and the clock has one, so that a lease runs out and
another follows; in `DispatchCrashes` they last two and the clock has two, so that a
lease can be renewed first. Two tasks are what a conflict or a dependency needs, two
leases let an old lease's late messages meet a newer one of the same task. The conflict
needs tasks of humans: only they can be claimed in a project that is stopped, where
nothing pauses a task whose phase failed. One crash or failed save: a second one adds
little to what a restart finds, because `mem` is lost as a whole. Deadlock is not
checked: the clock ends, and leases are used up.

*Left out.* Lifecycle transitions other than the review of a milestone and
block/unblock (`ProjectLifecycle`), a fingerprint that fails while a gate is
approved, the time between an answered gate and its projection (`TaskBoard`).
Of the phases: the evidence that a completion asks for, the questions a phase raises and
which phase follows which (`TaskBoard`; here every phase may follow that the workspace
can tell apart), and a start of the whole execution, which is a start of its phase. The
pause that the server makes after a refused start is `PauseTakeover`. A failed save is
treated like a stop of the server except at a claim, where the handler goes on.

*Proofs.* `TaskDispatchProofs` proves the types, `OneAuthority`,
`PassedUnderLease`, `ClosedTasksStop`, `NoBlindRetry` and `PausePersists` for any
tasks, dependencies, leases and bounds, and `DependenciesHold` under a condition;
the liveness property is model-checked. None is inductive. The invariant `IInv`
adds to the types that a task has at most one active lease (`OneActive`, the
unique index of `task_claims`), that at most one claimed task writes in the project's
directory (`OneWriter`), that without takeover only humans' tasks
are leased or handed back (`ByHumans`: without it a project that comes under
takeover would bring leases of agents' tasks along), and that what handlers
remember between two sessions stays true of the leases they remember
(`Remembered`). `OneWriter` is about the attempts and not about the phases: a phase
comes to count as writing with nothing at work in it (a failed review, a completed
phase), and what is at work was looked at when it started or when its task was claimed.
Most actions only take something back, or change one task: the
lemmas on calm steps (`CalmGood`) and on one task (`OneTaskFits`,
`OneTaskOrderly`) do for most cases, and `CommitKeeps` says once what a session
leaves behind when it survives and when it does not.

The theorems assume `DispatchConstants`; `OneAuthority` is proved without any other
condition, with crashes and failed saves and in every mode (`SingleAuthority`).
`ClosedExecutionsStop`, `NothingRetried` and `PauseLasts`
are about a server whose sessions are not cut short (`MaxFailures = 0`), and so are
the runs of these properties: a session writes to SQLite before it saves the
file, and revokes leases and kills commands only after it. When it does not get
so far a closed task keeps its lease until the next session, and a gate that
was closed with its task's change, or opened, need not fit the task. `Gated`
(no gate is pending for a task that was dispatched) is what these theorems
need, and what a lost save breaks.

`DependenciesKept` holds with crashes and failed saves, on two conditions
(`SettledContracts`, which the run's constants satisfy). Contracts are not edited:
an edit takes back that a task is done while another already works on it. And
unless the project starts under takeover, a task is only depended on if it has an
acceptance command: outside takeover the late end of an older lease puts a task
that was done back to ready (section 4), and TLC finds this when the condition is
dropped; a task with a command counts as done only when it is verified, which
happens under takeover. The second invariant `DInv` says that what a claimed task
depends on is done, and verified where it has a command (`Waited`), that commands
run and verify under takeover only (`UnderTakeover`), and that leases are of tasks
that were dispatched, pending gates of agents' tasks that were not (`Known`,
`Asked`).

### Project store

*Correspondence.* `disk.main`, `disk.wal` and `disk.old` are `pathFor`,
`walPathFor` and `legacyPathFor`; a document is reduced to a version number (its
identity), the time stamp `UpdatedAt` and the approvals it holds. `tables` are
the approvals in SQLite, `plane` says whether `projectControl.controlPlane` is
set. `session` is the program counter of the only session that the mutex lets
in. `Load` is `loadLocked`, with the choice between the files
(`projectControlPreferState`) and the save that follows a recovery; `Mutate` is
the function of `withStateLocked` with the hydration before it; `Sync`,
`WriteWAL`, `WriteBackup`, `WriteMain` and `RemoveWAL` are the steps of
`saveLocked`, each of which may fail (`WriteFails`; a copy that cannot be
removed is no error) and after each of which the server may stop (`Crash`).
`Start` and `Migrate` are `NewServer` and `migrateLegacyApprovals`; without
SQLite, or after a failed migration, the store works on the document alone.
`settled`, `undecided` and `raised` are history variables.

*Run.* `StoreCrashes` checks the types, `ApprovalsNeverLost`, `OneHome` and the
refinement `Atomic`. Three versions and two failures are needed for the
interesting case: the write-ahead copy of a failed save is newer than the main
file and counts; a load starts to save its recovered version and fails too,
after the clock was set back; now the main file counts again. A plain atomic
register, in which a write that has taken effect stays, is therefore *not*
what the code implements. What it does implement is that nobody has seen the
version that went: an answered load has saved it first. `AtomicStore` says just
this: an answer settles the document, and nothing unsettled survives it.

*Proofs.* All four properties are theorems for any approvals, clock and bounds.
The invariant `IInv` is about every file that a load might choose (`DiskOK`), not
only the one it would choose now, for the reason just given. `OpenOK` ties an
open session to the files, `SavingOK` says that a save brings every approval
along and that the write-ahead copy and the main file follow it in that order.
The assumption is that `None` is neither a number nor a document. Deadlock is
not checked: with the bounds used up the model stops.

*Left out.* The first document of a new user (seeding) and files that do not
parse. That the import compares row versions is part of `InteractionGateway`,
where approvals have a status; retention limits are `TaskHistory`.

### The board: one task, its runbook, tools, questions and answers

*Correspondence.* `board` is what a session of the JSON store sees of one task:
`task` (state, acceptance status, phase, dispatch), `attempts` (phases with a
running attempt), `runs` (open tool runs, `own` while their attempt is), `ev`
(kinds of evidence that satisfy a completion rule), `pending` (open questions by
kind). `jobs` are goroutines of `completeProjectControlToolRun`; `memory` is a
handler between the two sessions of `agentSubmitArtifact` or of
`runScheduledTools`; `answers` are decisions in SQLite whose projection is not
marked as applied; `open` stands for the takeover's execution gate. The
constant setting says whether there is SQLite, whether the project is under
takeover, who raised the task. `updateTask` stores its own copy of the task
over what the syncs have stored (`SyncButTask`), as the code does.

Human actions: `Update` (every task action and edit), `StartPhaseByHand`,
`CompletePhaseByHand`, `FailPhaseByHand`, `RunTool`, `StartExecution`, and the
decisions, in the document or through the gateway. Server actions: tool
results (`FinishTool`, with retries, failures that become questions and the
chain `AutoProgress`), interrupted runs, timeouts, the scheduler's two halves,
the projector's `ApplyProjection` and `MarkApplied`, a restart at any point.

*Runs.* `BoardRuns` (a runbook of three phases with its recovery phase, a tool
that retries and a tool that asks an agent) has two settings: with gateway,
takeover and a human's task; and without all three. It checks the types, with
which go that an attempt is of the phase the task is in and that no two tools
run side by side in one attempt; `EvidenceBacksReview`; `ReviewIsAsked`; and
`OneVerdictPerAnswer`, which a restart between the task's change and the mark on
the answer must not break. Two ids of tool runs let a retry meet an older run;
one question of a tool or an agent and one answer under way bound the rest.
`BoardRejected` is the finding of section 4.

*Proofs* (`TaskBoardProofs`). The four properties of `BoardRuns`, for any
runbook, tools, rules, settings, run ids and bounds that `BoardConstants`
allows. What it asks of a runbook is what the two of the repository have
(`defaultProjectControlRunbooks`): a recovery phase, a final validation, and
after every phase but these two another that is not the recovery; so only the
final validation leads to `ready_for_acceptance`. The properties are not
inductive. `IInv` adds what carries them from one session to the next: an open
question for the final acceptance has its evidence too (`Backed`), and so has
every answer to it that waits for the projector (`AnswersOK`), as evidence is
never taken back; the question of a review is open or its answer unapplied; and
what the scheduler's scan remembers is a phase with a tool. The argument is one
relation, `Leads(b, c)`: from board b to c evidence stays, nothing is accepted
or rejected, and no review is asked for or its question closed. Each operation of
the runbook, the tools and the questions leads, so their compositions in the
handlers do; only the syncs, a human's claim and the answers need more, and only
`ApplyProjection` gives a verdict.

### The history of a task

*Correspondence.* `events`, `attempts`, `runs` and `artifacts` are the lists of
the JSON state, `memory` the counters and the time stamp of `taskMemory`, `made`
(history) all that was ever recorded. Every operation ends with the save's
compaction (`projectControlCompactState`): `KeptEvents`, `KeptAttempts`,
`KeptRuns`, and last `KeptArtifacts`, which spares what kept attempts and runs
refer to and the newest of each kind. Lists are sorted by stamps of whole
seconds that the clock or a decision may set back, so a new entry may sort
anywhere: its rank in that order is its *place*, and a place is chosen freely.
`reader` turns the pages of `eventsForUser` with a cursor.

*Run.* `History`: three places, two ids, all retention limits and the page at 1.
This is enough for each limit to be passed, for an entry that sorts before all
others to be pruned by its own save, and for a page to be turned after its
entries have gone.

*Proofs.* `TaskHistoryProofs` proves the types and `NothingUncounted` (all that
was recorded is kept or counted, once), `EvidenceKept` and `PagesMeet` for every
set of places, ids and kinds and every limit. Counting needs the sizes of finite
sets; `EvidenceKept` needs that attempts and runs refer to recorded artifacts, and
that the newest artifact of a kind is protected at each step (a step adds at
most one); `PagesMeet` needs that nothing older than the reader's cursor was
shown, and that entries read are those above it.

### Project lifecycle and contracts

*Correspondence.* `project` has the plan (milestones in order), the lifecycle
state, the state it was blocked in (`prev`), the milestone it executes, the
takeover mode and the row version; `tasks` the contract (milestone,
dependencies), dispatch and verdict of each task. `SendPlan`, `Move` and `Block`
are `updateProjectContract`; `Start`, `Pause`, `PauseTask`, `Resume`,
`ResumeTasks`, `Stop` are `controlTakeover`; `CreateTasks`, `EditTask`,
`Approve` and the server's `Claim`, `Finish`, `Fail` change tasks.
`validateTaskContract` looks for cycles as the code does, by what a task waits
for directly or not.

*Run.* `Projects`: two tasks (a cycle over two edits needs two), plans of two
milestones in all the orders that are valid and one that is not, row versions
up to 5. `ContractsFit` says that no sequence of edits makes a task refer to a
milestone that is gone or wait for itself; `BackToWhereItWas` that a project
blocked several times goes on where it was blocked first.

*Proofs.* `ProjectLifecycleProofs` proves all three for any plans, contracts and
tasks, so for cycles of any length. `ContractsFit` is inductive once the types
are known, but not for the asking: an edit is checked against what the edited
task waits for and the cycles there, never against the tasks that wait for it.
That is enough (`EditFits`): what another task waits for lies in what it waited for
before, together with the edited task and what that waits for now, so a cycle
through the other task either was there before or is one of those the code looked
at. Created tasks are waited for by nobody (`CreationFits`), all other steps
keep the contracts (`KeptFits`). `BackToWhereItWas` needs that a paused project is
blocked and nothing else is (`ProjectOK`), which keeps lifecycle moves away from
it. `ProjectConstants` assumes that contracts name tasks and that a run starts in a
lifecycle state.

### Terminal handoff

*Correspondence.* `copies`, `rows`, `refs` are `terminal_copies`, the rows of
`pending_handoffs` that are not promoted, and `task_source_refs`; `bound` is the
task whose `sessionIds` hold a terminal; `call` holds the requests under way.
Copies and pastes are two steps each and hold no lock; submissions,
registrations and cancellations hold `handoffSubmitMu` (`Unlocked`) and are a
chain of steps, each a session or a statement: `Submit`, `FindTarget`,
`MakeCard`, `Pin`, `Promote`, `Link`, `Bind`. `Promote` may stop after any
statement; `Fail` ends a request anywhere. The window of 30 minutes is a choice
of which copy matches.

*Run.* `Handoff`: two terminals, one text, two requests under way, three tasks. It
starts from two drafts of one terminal, or from a draft beside an old browser
that knows none, with a task that is finished already (`TwoDraftsOrOld`).
`PinnedIsKept`: a row that a failed submission pinned is not lost, whatever other
drafts do. `NoLeak`: what was pasted into one draft does not become provenance of
another's goal. `OneCardPerDraft`: repeated reports of one submission make one
card. `OldAndNew` is a larger instance (the draft beside the old browser, all
three tasks to make); the properties hold there too (4,373,665 states).

*Proofs* (the second half of `TaskBoardProofs`: both are about the task table). All
three, for any terminals, drafts, copies and requests under way. `PinnedIsKept` needs
no invariant: it holds of each step by itself. The others need `HandoffInv`: a
task keeps its maker; a terminal is bound to no task that another terminal's draft
made (`Known`); a row is pinned only to a goal of its draft (`RowsOK`); and what a
request has seen stays true while it holds the lock. For a submission with a
task, that the task is among those its draft was accepted for (`Aimed`); for one
that found none, that its terminal is bound to no open card of its draft (`Alone`).
Copies, pastes and the ends of goals hold no lock and run in between. They
may make a source task and bind a terminal to it, but such a task has no maker,
so they disturb neither (`Drifts`, `DriftCall`). `HandoffConstants` assumes that 0
is no task and that agents and editors are on terminals.

### Terminal manager

*Correspondence.* `table` is `Manager.sessions` under its mutex, `dirty` the set
the flush writes, `tmux` the sessions of tmux, `main` and `wal` the two files of
each session with their `UpdatedAt`, `call` the requests and loops between two
critical sections, commands or file operations. `persistSession` is `Snapshot`,
`WriteWal`, `WriteMain`, `RemoveWal`, `Settle`, each of which can fail;
`KillSession` is `Delete`, `KillTmux`, `RemoveFiles`, `Tell`. `Load` is
`loadPersistedSessions` and `loadOrphanTmuxSessions` after a `Crash`. `ended`
counts calls of the hook that cancels a session's interactions; `saved` and
`alone` are history variables.

*Abstractions.* Sizes of files and the storage limit are a choice
(`EnforceLimit`). Which sessions were idle too long, and which logs cannot be
written back at a start, is a choice of `Load`; the first write of an orphan at
a start always succeeds.

*Run.* `Terminals`: one session and two requests or loops at once, one change of
activity, two writes. Sessions share nothing but the mutex, `dirty` and the
iteration of loops, so that one with two concurrent calls has the races of
persist, kill, list, reap and rename; the clock of two is what an overlap of two
persists takes. The type invariant includes that the end of a session is told
at most once. `RestartFindsSaved` says that the files hold what the last
successful persist of a listed session wrote or something later, except where
two persists of the session overlapped; a persist that ends after its session
was killed does not count, since the files are removed behind it.
`DeadStaysDead` says that files written again by a late persist do not bring a
killed session back, at the next start or any later one.

*Proofs.* All three hold for any number of sessions, requests and loops at once
(`TypeCorrect`, `SavedIsFound`, `DeadForGood`). The invariant `IInv` of
`TerminalManagerProofs` says what a call under way relies on (`Fit`): a session
that is being ended is not in the table and was not told ended; a persist about
to write the main file is no older than what was saved; one about to remove the
log has a main file that is no older either, and that is its own unless the
session was ended meanwhile. `Apart` says that a session is ended by one call at
a time, and written by one if it is `alone`. What a step of one call can do to
what another relies on is one lemma (`FitKept`), so that each action is proved
with what it changes itself. Proving found a flaw of an earlier form of
`RestartFindsSaved`, which counted persists that end after the kill of their
session: three calls at once break it, and the run has two.

### Worker

*Correspondence.* `loop` is where the main loop of a worker is, `signal` the
channel `stop`, `run` the goroutines of one claim (`runTask`, its heartbeat, the
reader of the executor's output), `alive` the executors' process groups,
`reports` the progress commands under way. The server is `lease` and `accepted`
(history): it grants one lease at a time and none after the task is done,
answers may be lost, leases end at any moment.

*Run.* `Workers`: one worker with two slots that can claim the task again while
its first execution, whose lease ran out, is still being stopped. Checked are
`DoneIsEarned` (a task is done only by an executor that ended by itself and well
and whose reports are all in), `ShutdownSettles` (a worker that has exited leaves
no executor), and the liveness property `LostLeaseStops`. Fairness: goroutines
run, tickers tick, each report is one command with a timeout, a process group
that was killed ends. Nobody has to end by himself.

*Proofs.* `WorkerProofs` proves the types, `DoneIsEarned` and `ShutdownSettles` for
any workers, leases, slots and lengths of output. The type invariant includes
that a worker has no more executions than slots, which the instance (two leases,
two slots) cannot exceed and the theorem shows in general. The inductive invariant
`IInv` says of each execution what there can be of it where it is (`RunOK`: no
executor before it was started, no report under way once it is settled), that
one lease is granted at a time (`OneGrant`), and counts the busy executions of
each worker (`WorkerOK`). It assumes `WorkerConstants`: leases are a finite set of
numbers, and no worker is called "none". `LostLeaseStops` is model-checked.

## 4. Where the code and its words differ

One disagreement is a run: **`BoardRejected`**. A rejected task's next step
says that its work is to be revised and its evidence regenerated
(`task_projector.go:162`), but its current phase stays `ready_for_acceptance`,
and then no phase starts (`project_control.go:1226-1232`).

These were met while modelling. They are modelled, and visible in the actions
named; no run is spent on them.

* A dispatch gate that the store approves by itself is resolved without a
  response (`StoreAutoApprove`), and `interactions.go:189` refuses a resolved
  interaction that has not exactly one.
* A stop of the server between the sweep's transaction and the tasks
  (`agent_claims.go:251`) strands a task: no later sweep selects the lease again,
  against the promise of `agent_claims.go:9-11`. `StaleLeasesRecycle` is about a
  server that lives.
* Pausing and resuming a task that is being executed leaves it claimed with no
  lease (`project_control.go:3382`; `project_lifecycle.go:573-575` returns only
  released tasks).
* In a manual project every save cancels acceptance commands
  (`project_control.go:4808`), a human's task included, against
  `project_lifecycle.go:476-478`.
* Outside takeover, a release that is told late (`agent_claims.go:225`) frees a
  workspace that a newer execution holds, against `project_takeover.go:339-343`;
  an old expiry has the same lateness (`project_takeover.go:26`).
* The comment of `sharedDirectoryConflict` says of all phases but `review` and
  `final_validation` that "two such executions may not hold the same project's workspace at
  once" (`project_takeover.go:339-343`), and two may. In a project that was stopped
  (mode `manual`) a human's task is claimed in its review, another is claimed beside
  it, and the review fails: `failProjectControlTaskPhase` puts the first into
  `fix_or_replan` (`project_control.go:2203`), which counts as writing, and only a
  project under active takeover pauses it for that. The same comes about under active takeover
  when an agent's task completes its review and waits in `ready_for_acceptance`
  (`project_control.go:2089`), a phase that counts as writing by default. Both leases then give
  authority. What does hold is that the phases that write do not run side by side, since
  the start of a phase looks again (`project_control.go:1247-1253`): this is `OneAuthority`.
  It speaks of claimed tasks. In manual mode a human's task needs no claim to be
  executed (`project_lifecycle.go:217-219`), and then `project_takeover.go:357` does not see it; and
  what was begun before the takeover works in the runtime's own directory.
* A cancelled task keeps dispatch `claimed` and loses its lease
  (`project_lifecycle.go:484`); the next claim of another writer then pauses the
  project.
* A row that a failed promotion pinned to one goal is found again by copy and
  draft when the draft is submitted as a new goal (`handoff.go:304`), although
  `handoff.go:62-64` says it is never handed to the next goal. `PinnedIsKept`
  allows just this (`Resubmitted`).
* While a project is blocked the plan may be edited so that the milestone it was
  at is done or gone (`project_lifecycle.go:360`); resuming goes on with it.
* A task bound to a terminal while a persist is under way is not compared with
  what was written (`manager.go:735`, `manager.go:1068`) and stays unwritten until
  the next change; the rollback of a rename puts back the name it saw, over a
  later rename (`manager.go:720`).
* `sleepUntil` (`main.go:441` of the worker) takes the signal from the channel the
  main loop selects on: a shutdown asked for during the pause is forgotten.
* Without the gateway the approval of any question but an archive override
  accepts the task (`project_control.go:3645`), so `EvidenceBacksReview` speaks of
  acceptance only with the gateway.
* A report of progress is checked against its lease and stored in another
  statement (`task_progress.go:72`); between them a new claim may clear the feed
  (`agent_claims.go:112`), and a line of the old execution shows in the new one's.
* A tool run that waits for its agent counts as closed for retention
  (`project_control.go:4465`).

## 5. Not modelled

* **Progress feed**: 50 lines per task in a table, telemetry that nothing else
  reads. `Worker` has the reports up to the server.
* **Workspace state**: the tab layout, one document under one mutex with a
  write-ahead copy. Its steps are those of `StateStore` without approvals.
* **Login sessions** and rate limits: maps under a mutex whose operations are
  single critical sections; there is no protocol between them.
* **HTTP server, WebSockets, Agent CLI**: routing, encoding and one call per
  command. Handlers with state of their own are in the modules above.
* **Telegram**: messages and button callbacks that call the gateway's `Respond`,
  which `InteractionGateway` takes from any client.
* **Host integrations, configuration, entry point, web client**: reads of the
  host, parsing, presentation.

Of modelled components: attached PTYs, sizes, scrolling, OSC parsing, cgroups
and host admission of terminals; projects' and workstreams' own fields, the
dashboard and other derived views, replay; the commands that tools and
acceptance run; the audit table and delivery attempts of the gateway, which it
writes and never reads.

Where a definition of a modelled component is coarser than the code, and no property
depends on it:

* `ReleaseClaim`: that the project is not under takeover (`project_takeover.go:45-57`)
  is asked before the release (`agent_claims.go:213`), in a section of its own.
* `StoreLoad` lists the interactions and then reads the responses row by row
  (`runtime_checkpoint_persistence.go:21` and `:35`); an answer may come between the two,
  and the model reads both at once.
* `Pause` of `ProjectLifecycle`: a human's project-wide pause counts the row version
  twice in the code (`project_lifecycle.go:414` and `:621`).
* `WithArtifact` and `ApplyProjection` of `TaskBoard`: compaction
  (`project_control.go:4591-4624`) may prune an older passing artifact beside a newer
  failing one of its kind, and the event that marks an applied answer
  (`task_projector.go:48-55`); on the board evidence and marks stay.
* `TargetOf` and `FinishGoal` of `Handoff`: the terminal of a worker may name a task in
  its metadata without being bound to it (`terminal_handoff.go:519`), and a finished goal
  may be reopened.
* `Written`, `WriteWal` and `Load` of `TerminalManager`: persists of one session share
  one temporary file (`manager.go:1201`), so overlapping ones may fail or mix, and take
  `UpdatedAt` before the write (`manager.go:1090`); `RestartFindsSaved` excludes overlaps.
  The storage limit is also applied at the end of a start (`manager.go:1343`).
* `ExecutorEnds` of `Worker`: a normal end is the end of the executor's process group;
  the code waits for its output and its leader (`localruntime/claude.go`), so a child
  that detaches itself may live on. The recovery from a panic (`main.go:108-112`), which ends
  an execution without a release, is left out.

## 6. Limits

Liveness (`DueRequestsClose`, `StaleLeasesRecycle`, `LostLeaseStops`) is only
model-checked: it rests on fairness and `ENABLED`, which the prover does not
reach. What `BoardRejected` refutes has no theorem either: it is false. Every other
property of a run is a theorem. The theorems hold for every value of the
constants, but of the model: that a rename is atomic, that a SQLite transaction
on the one connection is atomic and durable, and that the mutexes serialise what
they guard is assumed. Hazards that no property covers have a note in
`PROJECT.json`.
