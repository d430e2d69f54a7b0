----------------------------- MODULE TaskBoard -----------------------------
(***************************************************************************)
(* One task of the board: its execution and acceptance states, the phases  *)
(* of its runbook, the tools that run for a phase, the questions it raises *)
(* in the inbox, and the answers that come back, at once or through the    *)
(* projector (server/project_control.go, task_projector.go).               *)
(*                                                                         *)
(* A session of the JSON store (withStateLocked) is one action on board. A *)
(* tool runs outside the mutex, as one of jobs; so do the two halves of    *)
(* agentSubmitArtifact and of runScheduledTools.                           *)
(***************************************************************************)
EXTENDS Naturals, FiniteSets, Sequences

CONSTANTS
  Runbook,      \* its phases in order: records [phase, kind, state]
  Rules,        \* artifact kinds that completion asks for
  Tools,        \* in order: records [id, kind, phases, retries, agent]
  Strict,       \* artifact kinds that need an explicit pass
  Settings,     \* records [gateway, managed, origin] a run starts from
  Updates,      \* what humans do besides running phases, see Target
  AgentPhases,  \* phases an agent hands in artifacts for
  RunIds,       \* ids of tool runs, reused when nothing mentions them
  MaxQuestions, \* bound on questions of tools and agents that are open at once
  MaxDecisions  \* bound on answers that wait for the projector

States == {"planned", "queued", "running", "waiting_review", "waiting_human", "blocked",
           "failed", "cancelled", "execution_complete", "archived"}
\* projectControlTaskActions
Actions == {"cancel_task", "queue_task", "resume_execution", "reopen_task",
            "request_human_input", "mark_waiting_review", "mark_blocked",
            "mark_execution_complete", "request_archive_override",
            "mark_ready_for_acceptance", "request_acceptance_review", "archive",
            "unarchive", "edit_text", "edit_contract"}

Phases == {Runbook[i].phase : i \in DOMAIN Runbook}
Step(p) == CHOOSE i \in DOMAIN Runbook : Runbook[i].phase = p

\* Every runbook of the repository ends with the final validation, and has a
\* recovery phase that the run only enters by a failure.
ASSUME BoardConstants ==
  /\ DOMAIN Runbook \subseteq Nat /\ 1 \in DOMAIN Runbook
  /\ \A i \in DOMAIN Runbook : Runbook[i].state \in States
  /\ {"fix_or_replan", "final_validation"} \subseteq Phases
  /\ "ready_for_acceptance" \notin Phases
  /\ \A p \in Phases \ {"fix_or_replan", "final_validation"} :
       \E i \in DOMAIN Runbook : i > Step(p) /\ Runbook[i].phase # "fix_or_replan"
  /\ DOMAIN Tools \subseteq Nat
  /\ Settings \subseteq [gateway : BOOLEAN, managed : BOOLEAN, origin : {"human", "agent"}]
  /\ Updates \subseteq Actions \cup States
  /\ RunIds \subseteq Nat
  /\ MaxQuestions \in Nat \ {0}

VARIABLES
  setting,   \* with SQLite? under takeover? who raised the task? Constant.
  board,     \* the JSON state: task, phases with a running attempt, open tool
             \* runs, evidence, open questions
  jobs,      \* runs with a goroutine of completeProjectControlToolRun
  memory,    \* a handler between two sessions: an agent's artifact, or a scan
  answers,   \* decisions in SQLite whose projection is not marked applied
  open       \* does the takeover's execution gate let this task run?

vars == <<setting, board, jobs, memory, answers, open>>

KindOf(p) == Runbook[Step(p)].kind
ToolOf(id) == CHOOSE t \in {Tools[i] : i \in DOMAIN Tools} : t.id = id
Least(S) == CHOOSE i \in S : \A j \in S : i <= j

Questions == {"final_acceptance", "archive_override", "dispatch", "tool_failure",
              "agent_request"}
Gates == {"final_acceptance", "archive_override", "dispatch"}
Decisive == {"accepted", "rejected"}

WithPending(b, kind, n) == [b EXCEPT !.pending = [@ EXCEPT ![kind] = n]]
Dispatched(b, how) == [b EXCEPT !.task = [@ EXCEPT !.dispatch = how]]

-----------------------------------------------------------------------------
\* The runbook.

\* nextProjectControlRunbookPhaseID, with the recovery phase left by its target.
NextPhase(p) ==
  IF p = "fix_or_replan"
  THEN LET preferred == <<"test", "review", "final_validation">>
       IN preferred[Least({i \in 1..3 : preferred[i] \in Phases})]
  ELSE LET later == {i \in DOMAIN Runbook :
                       i > Step(p) /\ Runbook[i].phase # "fix_or_replan"}
       IN IF later = {} THEN "ready_for_acceptance" ELSE Runbook[Least(later)].phase

\* projectControlArtifactOutcomePasses
Passes(kind, outcome) == IF kind \in Strict THEN outcome = "pass" ELSE outcome # "fail"

WithArtifact(ev, kind, outcome) ==
  IF kind \in Rules /\ Passes(kind, outcome) THEN ev \cup {kind} ELSE ev

\* projectControlMissingCompletionEvidence
Missing(ev) == Rules \ ev

\* projectControlToolForPhase: the first tool that yields what the phase needs.
ToolsFor(p) == {i \in DOMAIN Tools : Tools[i].kind = KindOf(p) /\ p \in Tools[i].phases}
ToolFor(p) == Tools[Least(ToolsFor(p))]

FreeRuns(b) == RunIds \ ({r.id : r \in b.runs} \cup jobs)

CanStartPhase(b, p) ==
  /\ p \in Phases
  /\ b.task.state # "archived" /\ b.task.acc # "accepted"
  /\ b.task.phase = p
  /\ p \notin b.attempts

StartPhase(b, p) ==
  [b EXCEPT !.task = [@ EXCEPT !.state = Runbook[Step(p)].state,
                               !.acc = "not_ready", !.phase = p],
            !.attempts = @ \cup {p}]

\* The attempt at p ends; its tools run on, but for an attempt that is over.
EndAttempt(b, p) ==
  [b EXCEPT !.attempts = @ \ {p},
            !.runs = {IF r.phase = p THEN [r EXCEPT !.own = FALSE] ELSE r : r \in @}]

\* Faulty variant: evidence is only looked at when a review is asked for.
CanCompleteUnchecked(b, p, kind, outcome) ==
  p \in b.attempts /\ kind = KindOf(p) /\ Passes(kind, outcome)

CanCompletePhase(b, p, kind, outcome) ==
  /\ p \in b.attempts
  /\ kind = KindOf(p) /\ Passes(kind, outcome)
  /\ p = "final_validation" => Missing(WithArtifact(b.ev, kind, outcome)) = {}

CompletePhase(b, p, kind, outcome) ==
  LET next == NextPhase(p)
  IN [EndAttempt(b, p) EXCEPT
       !.ev = WithArtifact(@, kind, outcome),
       !.task = IF next = "ready_for_acceptance"
                THEN [@ EXCEPT !.state = "execution_complete",
                               !.acc = "ready_for_acceptance", !.phase = next]
                ELSE [@ EXCEPT !.state = Runbook[Step(next)].state, !.phase = next]]

\* Faulty variant: the failed attempt is left open.
FailPhaseOpen(b, p) ==
  [b EXCEPT !.task = [@ EXCEPT !.state = "failed", !.acc = "not_ready",
                               !.phase = "fix_or_replan"]]

FailPhase(b, p) ==
  [EndAttempt(b, p) EXCEPT !.task = [@ EXCEPT !.state = "failed", !.acc = "not_ready",
                                              !.phase = "fix_or_replan"]]

-----------------------------------------------------------------------------
\* Tool runs.

CanStartTool(b, p, tool) ==
  /\ p \in b.attempts
  /\ p \in tool.phases
  /\ ~\E r \in b.runs : r.phase = p /\ r.own /\ r.status = "running"
  /\ FreeRuns(b) # {}

NewRun(b, p, tool) ==
  [id |-> Least(FreeRuns(b)), phase |-> p, own |-> TRUE, tool |-> tool.id, retry |-> 0,
   status |-> IF tool.agent THEN "waiting" ELSE "running"]

StartTool(b, p, tool) == [b EXCEPT !.runs = @ \cup {NewRun(b, p, tool)}]

\* autoProgressAfterPhaseComplete: the phase may start and its tool may not.
AutoProgress(b) ==
  LET p == b.task.phase
  IN IF setting.managed \/ p \notin Phases THEN b
     ELSE IF ToolsFor(p) = {} \/ ~CanStartPhase(b, p) THEN b
     ELSE LET started == StartPhase(b, p)
          IN IF CanStartTool(started, p, ToolFor(p))
             THEN StartTool(started, p, ToolFor(p)) ELSE started

\* handleToolRunFailure: another try, or a question to the human.
RunFailed(b, r) ==
  IF r.retry < ToolOf(r.tool).retries /\ ~setting.managed
  THEN [b EXCEPT !.runs = (@ \ {r}) \cup
          {[r EXCEPT !.id = Least(FreeRuns(b)), !.retry = @ + 1]}]
  ELSE WithPending([b EXCEPT !.runs = @ \ {r}], "tool_failure", b.pending["tool_failure"] + 1)

\* applyProjectControlToolResult, for a result that can be applied.
Applicable(b, r, outcome) ==
  LET kind == ToolOf(r.tool).kind
  IN /\ r.phase \in b.attempts
     /\ kind = KindOf(r.phase) /\ Passes(kind, outcome)
          => CanCompletePhase(b, r.phase, kind, outcome)

ApplyResult(b, r, outcome) ==
  LET kind == ToolOf(r.tool).kind
      closed == [b EXCEPT !.runs = @ \ {r}]
  IN IF kind # KindOf(r.phase) THEN [closed EXCEPT !.ev = WithArtifact(@, kind, outcome)]
     ELSE IF Passes(kind, outcome) THEN CompletePhase(closed, r.phase, kind, outcome)
     ELSE FailPhase(closed, r.phase)

-----------------------------------------------------------------------------
\* Questions in the inbox follow the task.

SyncAcceptance(b) ==
  CASE b.task.acc = "under_human_review" /\ b.pending["final_acceptance"] = 0
         -> WithPending(b, "final_acceptance", 1)
    [] b.task.acc \in {"not_ready"} \cup Decisive
         -> WithPending(b, "final_acceptance", 0)
    [] OTHER -> b

SyncArchive(b) ==
  IF b.task.state = "execution_complete" /\ b.task.acc = "not_ready" THEN b
  ELSE WithPending(b, "archive_override", 0)

\* A human's task is ready at once, an agent's asks first.
SyncDispatch(b) ==
  IF b.task.state \notin {"planned", "queued"} THEN b
  ELSE CASE setting.origin = "human"
              -> Dispatched(WithPending(b, "dispatch", 0), "ready")
         [] setting.origin = "agent" /\ b.task.dispatch = "none" /\ b.pending["dispatch"] = 0
              -> Dispatched(WithPending(b, "dispatch", 1), "awaiting_approval")
         [] OTHER -> b

Sync(b) == SyncDispatch(SyncArchive(SyncAcceptance(b)))

\* updateTask stores its own copy of the task after the syncs have stored theirs.
SyncButTask(b) == [Sync(b) EXCEPT !.task = b.task]

-----------------------------------------------------------------------------
\* Each action is a session of the store, which starts from the board and
\* leaves board' behind. A request with an outdated row version is refused,
\* which changes nothing.

\* The goroutines of the runs that a session has started.
Spawned(b) ==
  {r.id : r \in {r \in b.runs :
     r.status = "running" /\ r.id \notin {q.id : q \in board.runs}}}

Gate == setting.managed => open

Idle == <<>>

NewTask == [state |-> "planned", acc |-> "not_ready", phase |-> Runbook[1].phase,
            dispatch |-> IF setting.origin = "human" THEN "ready" ELSE "awaiting_approval"]

Init ==
  /\ setting \in Settings
  /\ board = [task |-> NewTask, attempts |-> {}, runs |-> {}, ev |-> {},
              pending |-> [k \in Questions |->
                IF k = "dispatch" /\ setting.origin = "agent" THEN 1 ELSE 0]]
  /\ jobs = {}
  /\ memory = Idle
  /\ answers = <<>>
  /\ open = FALSE

-----------------------------------------------------------------------------
\* What humans do: updateTask.

\* isAllowedProjectControlTaskTransition
MayMove(from, to) ==
  \/ from = to
  \/ to \in (CASE from = "planned" -> {"queued", "running", "cancelled"}
               [] from = "queued" -> {"planned", "running", "cancelled"}
               [] from = "running" -> {"waiting_review", "waiting_human", "blocked",
                                       "failed", "execution_complete", "cancelled"}
               [] from \in {"waiting_review", "waiting_human", "blocked", "failed"}
                    -> {"running", "cancelled"}
               [] from = "cancelled" -> {"running"}
               [] from = "execution_complete" -> {"archived", "running", "blocked"}
               [] OTHER -> {"planned"})

\* validateProjectControlAcceptanceTransition, for what a human may write.
MayBecome(from, to, state) ==
  /\ to \in {"ready_for_acceptance", "under_human_review"} => state = "execution_complete"
  /\ <<from, to>> \in {<<"not_ready", "ready_for_acceptance">>,
                       <<"ready_for_acceptance", "not_ready">>,
                       <<"ready_for_acceptance", "under_human_review">>,
                       <<"under_human_review", "not_ready">>,
                       <<"rejected", "not_ready">>}

\* applyProjectControlTaskAction: the state and the acceptance that an action
\* asks for. A direct edit names the state itself.
Same == ""
Target(name) ==
  CASE name = "cancel_task" -> <<"cancelled", "not_ready">>
    [] name = "queue_task" -> <<"queued", "not_ready">>
    [] name \in {"resume_execution", "reopen_task"} -> <<"running", "not_ready">>
    [] name = "request_human_input" -> <<"waiting_human", Same>>
    [] name = "mark_waiting_review" -> <<"waiting_review", Same>>
    [] name = "mark_blocked" -> <<"blocked", Same>>
    [] name \in {"mark_execution_complete", "request_archive_override"}
         -> <<"execution_complete", Same>>
    [] name = "mark_ready_for_acceptance"
         -> <<"execution_complete", "ready_for_acceptance">>
    [] name = "request_acceptance_review"
         -> <<"execution_complete", "under_human_review">>
    [] name = "archive" -> <<"archived", Same>>
    [] name = "unarchive"
         -> <<"planned", IF board.task.acc = "accepted" THEN Same ELSE "not_ready">>
    [] name \in {"edit_text", "edit_contract"} -> <<Same, Same>>
    [] OTHER -> <<name, Same>>

\* requestProjectControlArchiveOverrideCheckpoint
CanAskOverride(b) ==
  /\ b.task.state = "execution_complete" /\ b.task.acc = "not_ready"
  /\ b.pending["archive_override"] = 0
AskOverride(b) == WithPending(b, "archive_override", 1)

CanUpdate(task, name) ==
  LET to == Target(name)
  IN /\ to[1] # Same => MayMove(task.state, to[1])
     /\ to[1] = "archived" /\ task.state # "archived" => task.acc = "accepted"
     /\ to[2] \notin {Same, task.acc} =>
          /\ MayBecome(task.acc, to[2], to[1])
          /\ to[2] \in {"ready_for_acceptance", "under_human_review"} =>
               Missing(board.ev) = {}
     /\ name = "request_archive_override" => CanAskOverride(board)

Updated(task, name) ==
  LET to == Target(name)
  IN [state |-> IF to[1] = Same THEN task.state ELSE to[1],
      acc |-> IF to[2] = Same THEN task.acc ELSE to[2],
      phase |-> task.phase,
      dispatch |-> IF name = "edit_contract" THEN "none" ELSE task.dispatch]

Update(name) ==
  /\ CanUpdate(board.task, name)
  /\ LET moved == [board EXCEPT !.task = Updated(@, name)]
     IN board' = SyncButTask(IF name = "request_archive_override"
                         THEN AskOverride(moved) ELSE moved)
  /\ UNCHANGED <<setting, jobs, memory, answers, open>>

StartPhaseByHand(p) ==
  /\ Gate
  /\ CanStartPhase(board, p)
  /\ board' = SyncButTask(StartPhase(board, p))
  /\ UNCHANGED <<setting, jobs, memory, answers, open>>

CompletePhaseByHand(p, outcome) ==
  /\ Gate
  /\ CanCompletePhase(board, p, KindOf(p), outcome)
  /\ board' = SyncButTask(CompletePhase(board, p, KindOf(p), outcome))
  /\ UNCHANGED <<setting, jobs, memory, answers, open>>

FailPhaseByHand(p) ==
  /\ p \in board.attempts
  /\ board' = SyncButTask(FailPhase(board, p))
  /\ UNCHANGED <<setting, jobs, memory, answers, open>>

RunTool(p, i) ==
  /\ Gate
  /\ CanStartTool(board, p, Tools[i])
  /\ LET b == SyncButTask(StartTool(board, p, Tools[i]))
     IN board' = b /\ jobs' = jobs \cup Spawned(b)
  /\ UNCHANGED <<setting, memory, answers, open>>

\* start_execution reopens the task before it asks whether a phase may start.
StartExecution ==
  LET reopened == [board EXCEPT !.task = [@ EXCEPT !.state = "running", !.acc = "not_ready"]]
      p == IF board.task.phase \in Phases THEN board.task.phase ELSE Runbook[1].phase
  IN /\ Gate
     /\ CanStartPhase(reopened, p)
     /\ LET started == StartPhase(reopened, p)
            b == SyncButTask(
                   IF ToolsFor(p) # {} /\ CanStartTool(started, p, ToolFor(p))
                   THEN StartTool(started, p, ToolFor(p)) ELSE started)
        IN board' = b /\ jobs' = jobs \cup Spawned(b)
     /\ UNCHANGED <<setting, memory, answers, open>>

-----------------------------------------------------------------------------
\* Tools outside the mutex.

RunOf(j) == CHOOSE r \in board.runs : r.id = j
Under(j) == \E r \in board.runs : r.id = j /\ r.status = "running"

\* completeProjectControlToolRun before its session: it stops if the run is
\* over or the gate is shut.
StopTool(j) ==
  /\ ~(Under(j) /\ Gate)
  /\ jobs' = jobs \ {j}
  /\ UNCHANGED <<setting, board, memory, answers, open>>

\* A workspace outside the project's root stops it too, and shuts the gate.
LeaveRoot(j) ==
  /\ Under(j) /\ Gate /\ setting.managed
  /\ open' = FALSE
  /\ jobs' = jobs \ {j}
  /\ UNCHANGED <<setting, board, memory, answers>>

\* Its session, after the tool has run: the run and the gate are looked at
\* again, and the result is applied to whatever attempt the phase has now.
FinishTool(j, result) ==
  LET r == RunOf(j)
  IN /\ Under(j) /\ Gate /\ FreeRuns(board) # {}
     /\ IF result = "error" \/ ~Applicable(board, r, result)
        THEN /\ board.pending["agent_request"] + board.pending["tool_failure"] < MaxQuestions
             /\ board' = RunFailed(board, r)
             /\ jobs' = (jobs \ {j}) \cup Spawned(RunFailed(board, r))
        ELSE LET synced == Sync(ApplyResult(board, r, result))
                 b == IF result = "pass" THEN AutoProgress(synced) ELSE synced
             IN board' = b /\ jobs' = (jobs \ {j}) \cup Spawned(b)
     /\ UNCHANGED <<setting, memory, answers, open>>

\* projectControlRecoverInterruptedToolRuns, at any load once the run's
\* window is over, or after a restart: the run is failed, nobody is asked.
RecoverRun(r) ==
  /\ r \in board.runs /\ r.status = "running"
  /\ board' = [board EXCEPT !.runs = @ \ {r}]
  /\ UNCHANGED <<setting, jobs, memory, answers, open>>

\* checkHealth gives up on an agent that does not answer.
AgentTimeout(r) ==
  /\ r \in board.runs /\ r.status = "waiting"
  /\ board' = [board EXCEPT !.runs = @ \ {r}]
  /\ UNCHANGED <<setting, jobs, memory, answers, open>>

\* runScheduledTools: it looks for a task with nothing under way ...
ScanForTools ==
  LET p == board.task.phase
  IN /\ memory = Idle
     /\ board.task.state \in {"running", "waiting_review"}
     /\ board.runs = {} /\ p \in board.attempts
     /\ ToolsFor(p) # {} /\ ~ToolFor(p).agent
     /\ memory' = <<"scan", p>>
     /\ UNCHANGED <<setting, board, jobs, answers, open>>

\* ... and starts a tool for it in a session of its own.
StartScheduledTool ==
  LET p == memory[2]
  IN /\ memory # Idle /\ memory[1] = "scan"
     /\ memory' = Idle
     /\ IF Gate /\ CanStartTool(board, p, ToolFor(p))
        THEN LET b == StartTool(board, p, ToolFor(p))
             IN board' = b /\ jobs' = jobs \cup Spawned(b)
        ELSE UNCHANGED <<board, jobs>>
     /\ UNCHANGED <<setting, answers, open>>

\* agentSubmitArtifact: the waiting run is closed in a session of its own ...
SubmitArtifact(p, outcome) ==
  /\ Gate /\ memory = Idle
  /\ memory' = <<"artifact", p, outcome>>
  /\ LET waiting == {r \in board.runs : r.status = "waiting" /\ r.phase = p}
     IN IF waiting = {} THEN UNCHANGED board
        ELSE \E r \in waiting : board' = [board EXCEPT !.runs = @ \ {r}]
  /\ UNCHANGED <<setting, jobs, answers, open>>

\* ... and the phase is completed in the next, or refused.
CompleteSubmitted ==
  LET p == memory[2]
  IN /\ memory # Idle /\ memory[1] = "artifact"
     /\ memory' = Idle
     /\ IF Gate /\ CanCompletePhase(board, p, KindOf(p), memory[3])
        THEN board' = SyncButTask(CompletePhase(board, p, KindOf(p), memory[3]))
        ELSE UNCHANGED board
     /\ UNCHANGED <<setting, jobs, answers, open>>

\* agentRequestCheckpoint; under takeover it pauses a running execution.
AgentAsks ==
  /\ board.pending["agent_request"] + board.pending["tool_failure"] < MaxQuestions
  /\ board' = WithPending(board, "agent_request", board.pending["agent_request"] + 1)
  /\ open' = FALSE
  /\ UNCHANGED <<setting, jobs, memory, answers>>

-----------------------------------------------------------------------------
\* Answers.

Allowed(kind) ==
  IF kind \in {"final_acceptance", "tool_failure"} THEN {"approve", "reject", "reroute"}
  ELSE {"approve", "reject"}

Close(b, kind) == WithPending(b, kind, b.pending[kind] - 1)

\* recordCheckpointDecision, what it makes of the task: an approval of any
\* question but an archive override accepts it.
Decided(task, kind, action) ==
  CASE action = "reroute" -> [task EXCEPT !.state = "blocked", !.acc = "not_ready"]
    [] kind = "archive_override" /\ action = "approve"
         -> [task EXCEPT !.state = "archived", !.acc = "not_ready"]
    [] kind = "archive_override" /\ action = "reject" -> task
    [] kind # "archive_override" /\ action = "approve"
         -> [task EXCEPT !.acc = "accepted",
                         !.dispatch = IF kind = "dispatch" THEN "ready" ELSE @]
    [] OTHER -> [task EXCEPT !.state = "running", !.acc = "rejected",
                             !.dispatch = IF kind = "dispatch" THEN "none" ELSE @]

\* Without SQLite the answer changes the task in the same session.
DecideInDocument(kind, action) ==
  /\ ~setting.gateway
  /\ board.pending[kind] > 0 /\ action \in Allowed(kind)
  /\ kind = "final_acceptance" /\ action = "approve" =>
       board.task.state = "execution_complete" /\ Missing(board.ev) = {}
  /\ board' = SyncButTask([Close(board, kind) EXCEPT !.task = Decided(@, kind, action)])
  /\ UNCHANGED <<setting, jobs, memory, answers, open>>

\* With SQLite it is a row there, and the task is told later.
DecideInGateway(kind, action) ==
  /\ setting.gateway
  /\ board.pending[kind] > 0 /\ action \in Allowed(kind)
  /\ Len(answers) < MaxDecisions
  /\ board' = Close(board, kind)
  /\ answers' = Append(answers, [kind |-> kind, action |-> action, applied |-> FALSE])
  /\ UNCHANGED <<setting, jobs, memory, open>>

\* The projection of any other question's answer only counts the version up.
AnswerOther(kind) ==
  /\ setting.gateway
  /\ board.pending[kind] > 0
  /\ board' = Close(board, kind)
  /\ UNCHANGED <<setting, jobs, memory, answers, open>>

\* Faulty variant: a rejection moves the task and leaves its acceptance alone.
ProjectedHalf(task, kind, action) ==
  CASE kind = "final_acceptance" /\ action = "approve" -> [task EXCEPT !.acc = "accepted"]
    [] kind = "final_acceptance" /\ action # "approve" -> [task EXCEPT !.state = "running"]
    [] OTHER -> task

\* applyProjectedTaskDecision
Projected(task, kind, action) ==
  CASE kind = "final_acceptance" /\ action = "approve" -> [task EXCEPT !.acc = "accepted"]
    [] kind = "final_acceptance" /\ action = "reject"
         -> [task EXCEPT !.state = "running", !.acc = "rejected"]
    [] kind = "final_acceptance" /\ action = "reroute"
         -> [task EXCEPT !.state = "blocked", !.acc = "not_ready"]
    [] kind = "archive_override" /\ action = "approve"
         -> [task EXCEPT !.state = "archived", !.acc = "not_ready"]
    [] kind = "dispatch"
         -> [task EXCEPT !.dispatch = IF action = "approve" THEN "ready" ELSE "none"]
    [] OTHER -> task

\* Faulty variant: the event that marks a projection as applied is not looked at.
ApplyProjectionAgain(i) ==
  /\ \A j \in 1..(i - 1) : answers[j].kind = "dispatch"
  /\ board' = [board EXCEPT !.task = Projected(@, answers[i].kind, answers[i].action)]
  /\ answers' = [answers EXCEPT ![i].applied = TRUE]
  /\ UNCHANGED <<setting, jobs, memory, open>>

\* applyTaskProjection, oldest first; one whose fingerprint cannot be taken is
\* passed over. The event in the JSON state marks it as applied, so that a
\* repetition changes nothing.
ApplyProjection(i) ==
  /\ \A j \in 1..(i - 1) : answers[j].kind = "dispatch"
  /\ ~answers[i].applied
  /\ board' = [board EXCEPT !.task = Projected(@, answers[i].kind, answers[i].action)]
  /\ answers' = [answers EXCEPT ![i].applied = TRUE]
  /\ UNCHANGED <<setting, jobs, memory, open>>

\* MarkTaskProjectionApplied
MarkApplied(i) ==
  /\ answers[i].applied
  /\ answers' = [j \in 1..(Len(answers) - 1) |-> IF j < i THEN answers[j] ELSE answers[j + 1]]
  /\ UNCHANGED <<setting, board, jobs, memory, open>>

-----------------------------------------------------------------------------
\* The takeover opens and closes the gate; the server stops and starts.

ToggleGate ==
  /\ setting.managed
  /\ open' = ~open
  /\ UNCHANGED <<setting, board, jobs, memory, answers>>

Crash ==
  /\ jobs' = {}
  /\ memory' = Idle
  /\ UNCHANGED <<setting, board, answers, open>>

Human ==
  \/ \E name \in Updates : Update(name)
  \/ \E p \in Phases : StartPhaseByHand(p) \/ FailPhaseByHand(p)
  \/ \E p \in Phases, outcome \in {"pass", "recorded"} : CompletePhaseByHand(p, outcome)
  \/ \E p \in Phases, i \in DOMAIN Tools : RunTool(p, i)
  \/ StartExecution
  \/ \E kind \in Questions, action \in {"approve", "reject", "reroute"} :
       DecideInDocument(kind, action)
  \/ \E kind \in Gates, action \in {"approve", "reject", "reroute"} :
       DecideInGateway(kind, action)
  \/ \E kind \in Questions \ Gates : AnswerOther(kind)

Jobs == \E j \in jobs :
  StopTool(j) \/ LeaveRoot(j) \/ \E result \in {"pass", "fail", "error"} : FinishTool(j, result)
Server ==
  \/ Jobs
  \/ \E r \in board.runs : RecoverRun(r) \/ AgentTimeout(r)
  \/ ScanForTools \/ StartScheduledTool
  \/ \E i \in DOMAIN answers : ApplyProjection(i) \/ MarkApplied(i)
  \/ ToggleGate
  \/ Crash

Agent ==
  \/ \E p \in AgentPhases, outcome \in {"pass", "fail"} : SubmitArtifact(p, outcome)
  \/ CompleteSubmitted
  \/ AgentAsks

Next == Human \/ Server \/ Agent

Spec == Init /\ [][Next]_vars

-----------------------------------------------------------------------------
\* Properties.

\* Types: whatever handlers do, the task stays in the states the board knows;
\* at most one attempt is under way, and it is of the phase the task is in, so
\* that no evidence completes a phase that is over or has not begun; and tools
\* do not run side by side in one attempt, whoever started them: a human, the
\* scheduler, the chain of phases or a retry.
TypeOK ==
  /\ board.task.state \in States
  /\ board.task.acc \in {"not_ready", "ready_for_acceptance", "under_human_review"} \cup Decisive
  /\ board.task.phase \in Phases \cup {"ready_for_acceptance"}
  /\ board.task.dispatch \in {"none", "awaiting_approval", "ready"}
  /\ board.attempts \subseteq Phases
  /\ board.runs \subseteq [id : RunIds, phase : Phases, own : BOOLEAN,
                           tool : {Tools[i].id : i \in DOMAIN Tools}, retry : Nat,
                           status : {"running", "waiting"}]
  /\ board.ev \subseteq Rules
  /\ board.pending \in [Questions -> 0..MaxQuestions]
  /\ jobs \subseteq RunIds
  /\ board.attempts \subseteq {board.task.phase}
  /\ \A r, q \in board.runs :
       /\ r.status = "running" /\ q.status = "running"
       /\ r.own /\ q.own /\ r.phase = q.phase
       => r = q

\* A task is offered for acceptance, reviewed and, where the gateway keeps
\* the answers, accepted only with all the evidence its runbook asks for.
EvidenceBacksReview ==
  \/ board.task.acc \in {"ready_for_acceptance", "under_human_review"}
  \/ setting.gateway /\ board.task.acc = "accepted"
  => Missing(board.ev) = {}

\* A task under human review has its question in the inbox, or an answer on
\* its way: nobody waits for a decision that cannot be made.
ReviewIsAsked ==
  board.task.acc = "under_human_review" =>
    board.pending["final_acceptance"] = 1 \/ \E i \in DOMAIN answers : ~answers[i].applied

\* With the gateway, a verdict on the task comes from an answer of its own:
\* none is applied twice, also when the server stops between the task's change
\* and the mark on the answer, and the task has been offered again meanwhile.
OneVerdictPerAnswer ==
  [][setting.gateway /\ board'.task.acc \in Decisive /\ board'.task.acc # board.task.acc =>
       \E i \in DOMAIN answers :
         /\ answers[i].kind = "final_acceptance" /\ ~answers[i].applied
         /\ (answers[i].action = "approve") <=> (board'.task.acc = "accepted")]_vars

\* Work that was rejected can be revised and its evidence regenerated, as the
\* task's next step tells (task_projector.go:162): a phase runs or can start.
RejectedCanBeRevised ==
  board.task.state = "running" /\ board.task.acc = "rejected" =>
    board.attempts # {} \/ \E p \in Phases : CanStartPhase(board, p)
=============================================================================
