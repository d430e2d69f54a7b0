-------------------------- MODULE TaskBoardProofs --------------------------
(***************************************************************************)
(* What holds of a task on the board for any runbook, tools, kinds of      *)
(* evidence, questions and answers: attempts and tools stay where they     *)
(* belong, nothing is offered or accepted without its evidence, reviews    *)
(* are asked for, and a verdict is the effect of one answer. And, from     *)
(* PinsAreKept on, of the handoff, by which  tasks come to refer to each   *)
(* other, for any terminals, drafts, copies and requests.                  *)
(***************************************************************************)
EXTENDS TaskBoard, Handoff, WellFoundedInduction, TLAPS

-----------------------------------------------------------------------------
\* The inductive invariant.

Offered == {"ready_for_acceptance", "under_human_review"}
Acceptances == {"not_ready"} \cup Offered \cup Decisive
Dispatches == {"none", "awaiting_approval", "ready"}
TaskRows == [state : States, acc : Acceptances, phase : Phases \cup {"ready_for_acceptance"},
             dispatch : Dispatches]
RunRows == [id : RunIds, phase : Phases, own : BOOLEAN, tool : {Tools[i].id : i \in DOMAIN Tools},
            retry : Nat, status : {"running", "waiting"}]
Boards == [task : TaskRows, attempts : SUBSET Phases, runs : SUBSET RunRows, ev : SUBSET Rules,
           pending : [Questions -> 0..MaxQuestions]]
AnswerRows == [kind : Gates, action : {"approve", "reject", "reroute"}, applied : BOOLEAN]

\* Tools of one attempt do not run side by side.
Rival(r, q) ==
  /\ r.status = "running" /\ q.status = "running"
  /\ r.own /\ q.own /\ r.phase = q.phase
OneTool(b) == \A r, q \in b.runs : Rival(r, q) => r = q

\* What is offered, asked for or, with the gateway, accepted has its evidence.
Claimed(b) ==
  \/ b.task.acc \in Offered
  \/ b.pending["final_acceptance"] > 0
  \/ setting.gateway /\ b.task.acc = "accepted"
Backed(b) == Claimed(b) => Missing(b.ev) = {}

BoardOK(b) ==
  /\ b \in Boards
  /\ b.attempts \subseteq {b.task.phase}
  /\ OneTool(b)
  /\ b.pending["final_acceptance"] \in {0, 1}
  /\ Backed(b)

\* The question of a review is open ...
Asked(b) == b.task.acc = "under_human_review" => b.pending["final_acceptance"] = 1
\* ... or its answer is on the way.
Coming == \E i \in DOMAIN answers : answers[i].kind = "final_acceptance" /\ ~answers[i].applied

AnswersOK ==
  /\ answers \in Seq(AnswerRows)
  /\ \A i \in DOMAIN answers : answers[i].kind = "final_acceptance" => Missing(board.ev) = {}

\* What a scan found is a phase that has a tool.
ScanOK == memory # Idle /\ memory[1] = "scan" => memory[2] \in Phases /\ ToolsFor(memory[2]) # {}

IInv ==
  /\ setting \in Settings
  /\ BoardOK(board)
  /\ Asked(board) \/ Coming
  /\ AnswersOK
  /\ ScanOK
  /\ jobs \subseteq RunIds

\* OneVerdictPerAnswer, as a formula of one step.
Verdict ==
  setting.gateway /\ board'.task.acc \in Decisive /\ board'.task.acc # board.task.acc =>
    \E i \in DOMAIN answers :
      /\ answers[i].kind = "final_acceptance" /\ ~answers[i].applied
      /\ (answers[i].action = "approve") <=> (board'.task.acc = "accepted")

-----------------------------------------------------------------------------
\* Where the runbook and the tools lead.

LEMMA LeastIn ==
  ASSUME NEW S \in SUBSET Nat, S # {} PROVE Least(S) \in S
<1> DEFINE R == OpToRel(<, Nat)
<1>1. IsWellFoundedOn(R, Nat)
  BY NatLessThanWellFounded, Zenon
<1>2. PICK x \in S : \A y \in S : ~(<<y, x>> \in R)
  BY <1>1, WFMin, Zenon
<1>3. \A y \in S : x <= y
  <2>1. ASSUME NEW y \in S PROVE x <= y
    <3>1. ~(y < x)
      BY <1>2, Zenon DEF OpToRel
    <3> QED
      BY <3>1
  <2> QED
    BY <2>1
<1> QED
  BY <1>3 DEF Least

LEMMA NextPhaseOK ==
  ASSUME NEW p \in Phases
  PROVE  /\ NextPhase(p) \in Phases \cup {"ready_for_acceptance"}
         /\ NextPhase(p) = "ready_for_acceptance" => p = "final_validation"
<1>1. CASE p = "fix_or_replan"
  <2> DEFINE preferred == <<"test", "review", "final_validation">>
             S == {i \in 1..3 : preferred[i] \in Phases}
  <2>1. 3 \in S
    BY BoardConstants DEF BoardConstants
  <2>2. Least(S) \in S
    BY <2>1, LeastIn
  <2>3. NextPhase(p) = preferred[Least(S)]
    BY <1>1 DEF NextPhase
  <2>4. NextPhase(p) \in Phases
    BY <2>2, <2>3
  <2> QED
    BY <2>4, BoardConstants DEF BoardConstants
<1>2. CASE p # "fix_or_replan"
  <2> DEFINE later == {i \in DOMAIN Runbook : i > Step(p) /\ Runbook[i].phase # "fix_or_replan"}
  <2>1. later \in SUBSET Nat
    BY BoardConstants DEF BoardConstants
  <2>2. NextPhase(p) = IF later = {} THEN "ready_for_acceptance" ELSE Runbook[Least(later)].phase
    BY <1>2 DEF NextPhase
  <2>3. CASE later = {}
    BY <1>2, <2>2, <2>3, BoardConstants DEF BoardConstants
  <2>4. CASE later # {}
    <3>1. Least(later) \in DOMAIN Runbook
      BY <2>1, <2>4, LeastIn
    <3>2. NextPhase(p) \in Phases
      BY <2>2, <2>4, <3>1 DEF Phases
    <3> QED
      BY <3>2, BoardConstants DEF BoardConstants
  <2> QED
    BY <2>3, <2>4
<1> QED
  BY <1>1, <1>2

LEMMA StepOK ==
  ASSUME NEW p \in Phases PROVE Runbook[Step(p)].state \in States
<1>1. \E i \in DOMAIN Runbook : Runbook[i].phase = p
  BY DEF Phases
<1>2. Step(p) \in DOMAIN Runbook
  BY <1>1 DEF Step
<1> QED
  BY <1>2, BoardConstants DEF BoardConstants

ToolIds == {Tools[i].id : i \in DOMAIN Tools}

LEMMA ToolForOK ==
  ASSUME NEW p, ToolsFor(p) # {} PROVE \E i \in DOMAIN Tools : ToolFor(p) = Tools[i]
<1>1. ToolsFor(p) \in SUBSET Nat
  BY BoardConstants DEF BoardConstants, ToolsFor
<1>2. Least(ToolsFor(p)) \in DOMAIN Tools
  BY <1>1, LeastIn DEF ToolsFor
<1> QED
  BY <1>2 DEF ToolFor

LEMMA FreeRunOK ==
  ASSUME NEW b, FreeRuns(b) # {} PROVE Least(FreeRuns(b)) \in RunIds
<1>1. FreeRuns(b) \in SUBSET RunIds /\ RunIds \in SUBSET Nat
  BY BoardConstants DEF BoardConstants, FreeRuns
<1> QED
  BY <1>1, LeastIn

-----------------------------------------------------------------------------
\* Operations on the board that give no verdict.

\* From b to c: evidence stays, and nothing is accepted or rejected.
Grows(b, c) ==
  /\ BoardOK(c) /\ b.ev \subseteq c.ev
  /\ c.task.acc \in Decisive => c.task.acc = b.task.acc

\* Nor is a review asked for, or the question of one closed.
Leads(b, c) ==
  /\ Grows(b, c)
  /\ c.task.acc = "under_human_review" =>
       /\ b.task.acc = "under_human_review"
       /\ c.pending["final_acceptance"] = b.pending["final_acceptance"]

LEMMA LeadsOn ==
  ASSUME NEW a, NEW b, NEW c, Leads(b, c)
  PROVE  /\ Leads(a, b) => Leads(a, c)
         /\ Grows(a, b) => Grows(a, c)
         /\ Asked(b) => Asked(c)
BY DEF Leads, Grows, Asked

LEMMA EvidenceStays ==
  ASSUME NEW ev, NEW more, ev \subseteq more, Missing(ev) = {} PROVE Missing(more) = {}
BY DEF Missing

\* A board with another task, attempts and runs, more evidence and the same
\* questions.
LEMMA ReplacedOK ==
  ASSUME NEW b, BoardOK(b), NEW c \in Boards,
         c.attempts \subseteq {c.task.phase}, OneTool(c), c.pending = b.pending,
         b.ev \subseteq c.ev,
         \/ c.task.acc = b.task.acc
         \/ c.task.acc = "not_ready"
         \/ c.task.acc = "ready_for_acceptance" /\ Missing(c.ev) = {}
  PROVE  Leads(b, c)
<1>1. Backed(c)
  BY EvidenceStays DEF BoardOK, Backed, Claimed, Offered, Decisive
<1>2. BoardOK(c)
  BY <1>1 DEF BoardOK
<1>3. "ready_for_acceptance" \notin Decisive /\ "not_ready" \notin Decisive
  BY DEF Decisive
<1> QED
  BY <1>2, <1>3 DEF Leads, Grows

\* Another task in the same phase.
LEMMA TaskOK ==
  ASSUME NEW b, BoardOK(b), NEW t \in TaskRows, t.phase = b.task.phase,
         t.acc = b.task.acc \/ t.acc = "not_ready"
  PROVE  Leads(b, [b EXCEPT !.task = t])
<1> DEFINE c == [b EXCEPT !.task = t]
<1>1. /\ c \in Boards /\ c.task = t /\ c.attempts = b.attempts /\ c.runs = b.runs
      /\ c.pending = b.pending /\ c.ev = b.ev
  BY DEF BoardOK, Boards
<1> HIDE DEF c
<1>2. c.attempts \subseteq {c.task.phase} /\ OneTool(c)
  BY <1>1 DEF BoardOK, OneTool
<1>3. Leads(b, c)
  BY <1>1, <1>2, ReplacedOK
<1> QED
  BY <1>3 DEF c

\* Other runs.
LEMMA RunsOK ==
  ASSUME NEW b, BoardOK(b), NEW R \in SUBSET RunRows,
         \A r, q \in R : Rival(r, q) => r = q
  PROVE  LET c == [b EXCEPT !.runs = R]
         IN  Leads(b, c) /\ c.task = b.task /\ c.pending = b.pending /\ c.runs = R
<1> DEFINE c == [b EXCEPT !.runs = R]
<1>1. /\ c \in Boards /\ c.task = b.task /\ c.attempts = b.attempts /\ c.runs = R
      /\ c.pending = b.pending /\ c.ev = b.ev
  BY DEF BoardOK, Boards
<1> HIDE DEF c
<1>2. c.attempts \subseteq {c.task.phase} /\ OneTool(c)
  BY <1>1 DEF BoardOK, OneTool
<1>3. Leads(b, c)
  BY <1>1, <1>2, ReplacedOK
<1> QED
  BY <1>1, <1>3 DEF c

LEMMA RunGoneOK ==
  ASSUME NEW b, BoardOK(b), NEW r
  PROVE  LET c == [b EXCEPT !.runs = @ \ {r}]
         IN  Leads(b, c) /\ c.task = b.task /\ c.pending = b.pending /\ c.runs = b.runs \ {r}
<1>1. b.runs \ {r} \in SUBSET RunRows /\ \A s, q \in b.runs \ {r} : Rival(s, q) => s = q
  BY DEF BoardOK, Boards, OneTool
<1> DEFINE R == b.runs \ {r}
<1> HIDE DEF R
<1>2. LET c == [b EXCEPT !.runs = R]
      IN  Leads(b, c) /\ c.task = b.task /\ c.pending = b.pending /\ c.runs = R
  BY <1>1, RunsOK DEF R
<1> QED
  BY <1>2 DEF R

\* Another number of questions.
LEMMA PendingOK ==
  ASSUME NEW b, BoardOK(b), NEW k \in Questions, NEW n \in 0..MaxQuestions,
         k = "final_acceptance" => n = 0 \/ n = b.pending[k] \/ (n = 1 /\ Missing(b.ev) = {})
  PROVE  LET c == WithPending(b, k, n)
         IN  /\ Grows(b, c) /\ c.task = b.task /\ c.ev = b.ev /\ c.pending[k] = n
             /\ \A j \in Questions \ {k} : c.pending[j] = b.pending[j]
             /\ k # "final_acceptance" => Leads(b, c)
<1> DEFINE P == [b.pending EXCEPT ![k] = n]
           c == [b EXCEPT !.pending = P]
<1>1. /\ P \in [Questions -> 0..MaxQuestions] /\ P[k] = n
      /\ \A j \in Questions \ {k} : P[j] = b.pending[j]
  BY DEF BoardOK, Boards
<1>2. c = WithPending(b, k, n)
  BY DEF WithPending
<1> HIDE DEF P
<1>3. /\ c \in Boards /\ c.task = b.task /\ c.attempts = b.attempts /\ c.runs = b.runs
      /\ c.pending = P /\ c.ev = b.ev
  BY <1>1 DEF BoardOK, Boards
<1> HIDE DEF c
<1>4. c.pending["final_acceptance"] \in {0, 1} /\ Backed(c)
  <2>1. "final_acceptance" \in Questions
    BY DEF Questions
  <2>2. CASE k = "final_acceptance"
    <3>1. CASE n = 0
      BY <1>1, <1>3, <2>2, <3>1 DEF BoardOK, Backed, Claimed
    <3>2. CASE n = b.pending[k]
      BY <1>1, <1>3, <2>2, <3>2 DEF BoardOK, Backed, Claimed
    <3>3. CASE n = 1 /\ Missing(b.ev) = {}
      BY <1>1, <1>3, <2>2, <3>3 DEF BoardOK, Backed, Claimed
    <3> QED
      BY <2>2, <3>1, <3>2, <3>3
  <2>3. CASE k # "final_acceptance"
    <3>1. P["final_acceptance"] = b.pending["final_acceptance"]
      BY <1>1, <2>1, <2>3
    <3> QED
      BY <1>3, <3>1 DEF BoardOK, Backed, Claimed
  <2> QED
    BY <2>2, <2>3
<1>5. BoardOK(c)
  BY <1>3, <1>4 DEF BoardOK, OneTool
<1>6. Grows(b, c)
  BY <1>3, <1>5 DEF Grows
<1>7. k # "final_acceptance" => Leads(b, c)
  BY <1>1, <1>3, <1>6 DEF Leads, Questions
<1> QED
  BY <1>1, <1>2, <1>3, <1>6, <1>7

-----------------------------------------------------------------------------
\* The operations of the runbook.

LEMMA StartPhaseOK ==
  ASSUME NEW b, BoardOK(b), NEW p, CanStartPhase(b, p)
  PROVE  LET c == StartPhase(b, p)
         IN  Leads(b, c) /\ c.runs = b.runs /\ c.task.phase = p
<1>1. p \in Phases /\ b.task.phase = p
  BY DEF CanStartPhase
<1> DEFINE t == [b.task EXCEPT !.state = Runbook[Step(p)].state, !.acc = "not_ready", !.phase = p]
           A == b.attempts \cup {p}
           c == [b EXCEPT !.task = t, !.attempts = A]
<1>2. t \in TaskRows /\ t.phase = p /\ t.acc = "not_ready"
  BY <1>1, StepOK DEF BoardOK, Boards, TaskRows, Acceptances
<1>3. A \in SUBSET Phases /\ A \subseteq {p}
  BY <1>1 DEF BoardOK, Boards
<1>4. c = StartPhase(b, p)
  BY DEF StartPhase
<1> HIDE DEF t, A
<1>5. /\ c \in Boards /\ c.task = t /\ c.attempts = A /\ c.runs = b.runs
      /\ c.pending = b.pending /\ c.ev = b.ev
  BY <1>2, <1>3 DEF BoardOK, Boards
<1> HIDE DEF c
<1>6. OneTool(c)
  BY <1>5 DEF OneTool, BoardOK
<1>7. Leads(b, c)
  BY <1>2, <1>3, <1>5, <1>6, ReplacedOK
<1> QED
  BY <1>2, <1>4, <1>5, <1>7

\* The board on which the attempt at p has ended.
LEMMA EndAttemptOK ==
  ASSUME NEW b, BoardOK(b), NEW p \in b.attempts
  PROVE  LET c == EndAttempt(b, p)
         IN  /\ c \in Boards /\ c.attempts = {} /\ OneTool(c) /\ p \in Phases /\ p = b.task.phase
             /\ c.task = b.task /\ c.pending = b.pending /\ c.ev = b.ev
<1> DEFINE E == {IF r.phase = p THEN [r EXCEPT !.own = FALSE] ELSE r : r \in b.runs}
           A == b.attempts \ {p}
           c == [b EXCEPT !.attempts = A, !.runs = E]
<1>1. E \in SUBSET RunRows
  <2>1. ASSUME NEW r \in b.runs
        PROVE  (IF r.phase = p THEN [r EXCEPT !.own = FALSE] ELSE r) \in RunRows
    <3>1. r \in RunRows
      BY DEF BoardOK, Boards
    <3>2. [r EXCEPT !.own = FALSE] \in RunRows
      BY <3>1 DEF RunRows
    <3> QED
      BY <3>1, <3>2
  <2> QED
    BY <2>1
<1>2. \A e \in E : e.own => e \in b.runs
  <2>1. ASSUME NEW r \in b.runs PROVE r.phase = p => ~[r EXCEPT !.own = FALSE].own
    BY DEF BoardOK, Boards, RunRows
  <2> QED
    BY <2>1
<1>3. c = EndAttempt(b, p)
  BY DEF EndAttempt
<1>4. A = {} /\ p \in Phases /\ p = b.task.phase
  BY DEF BoardOK, Boards
<1> HIDE DEF E, A
<1>5. /\ c \in Boards /\ c.task = b.task /\ c.attempts = A /\ c.runs = E
      /\ c.pending = b.pending /\ c.ev = b.ev
  BY <1>1, <1>4 DEF BoardOK, Boards
<1> HIDE DEF c
<1>6. OneTool(c)
  BY <1>2, <1>5 DEF BoardOK, OneTool, Rival
<1> QED
  BY <1>3, <1>4, <1>5, <1>6

LEMMA CompletePhaseOK ==
  ASSUME NEW b, BoardOK(b), NEW p, NEW kind, NEW outcome, CanCompletePhase(b, p, kind, outcome)
  PROVE  Leads(b, CompletePhase(b, p, kind, outcome))
<1> DEFINE a == EndAttempt(b, p)
           next == NextPhase(p)
           ev == WithArtifact(b.ev, kind, outcome)
           t == IF next = "ready_for_acceptance"
                THEN [b.task EXCEPT !.state = "execution_complete",
                                    !.acc = "ready_for_acceptance", !.phase = next]
                ELSE [b.task EXCEPT !.state = Runbook[Step(next)].state, !.phase = next]
           c == [a EXCEPT !.ev = ev, !.task = t]
<1>1. p \in b.attempts
  BY DEF CanCompletePhase
<1>2. /\ a \in Boards /\ a.attempts = {} /\ OneTool(a) /\ p \in Phases
      /\ a.task = b.task /\ a.pending = b.pending /\ a.ev = b.ev
  BY <1>1, EndAttemptOK
<1>3. /\ next \in Phases \cup {"ready_for_acceptance"}
      /\ next = "ready_for_acceptance" => p = "final_validation"
  BY <1>2, NextPhaseOK
<1>4. ev \in SUBSET Rules /\ b.ev \subseteq ev
  BY <1>2 DEF WithArtifact, Boards
<1>5. next = "ready_for_acceptance" => Missing(ev) = {}
  BY <1>3 DEF CanCompletePhase
<1> HIDE DEF a, next, ev
<1>6. t \in TaskRows
  <2>1. b.task \in TaskRows
    BY DEF BoardOK, Boards
  <2>2. CASE next = "ready_for_acceptance"
    <3>1. "execution_complete" \in States /\ "ready_for_acceptance" \in Acceptances
      BY DEF States, Acceptances, Offered
    <3> QED
      BY <2>1, <2>2, <3>1 DEF TaskRows
  <2>3. CASE next # "ready_for_acceptance"
    <3>1. next \in Phases /\ Runbook[Step(next)].state \in States
      BY <1>3, <2>3, StepOK
    <3> QED
      BY <2>1, <2>3, <3>1 DEF TaskRows
  <2> QED
    BY <2>2, <2>3
<1>7. t.acc = b.task.acc \/ (t.acc = "ready_for_acceptance" /\ Missing(ev) = {})
  <2>1. b.task \in TaskRows
    BY DEF BoardOK, Boards
  <2>2. CASE next = "ready_for_acceptance"
    BY <1>5, <2>1, <2>2 DEF TaskRows
  <2>3. CASE next # "ready_for_acceptance"
    BY <2>1, <2>3 DEF TaskRows
  <2> QED
    BY <2>2, <2>3
<1>8. c = CompletePhase(b, p, kind, outcome)
  <2>1. CASE next = "ready_for_acceptance"
    BY <1>2, <2>1 DEF CompletePhase, a, next, ev
  <2>2. CASE next # "ready_for_acceptance"
    BY <1>2, <2>2 DEF CompletePhase, a, next, ev
  <2> QED
    BY <2>1, <2>2
<1> HIDE DEF t
<1>9. /\ c \in Boards /\ c.task = t /\ c.attempts = {} /\ c.runs = a.runs
      /\ c.pending = b.pending /\ c.ev = ev
  BY <1>2, <1>4, <1>6 DEF Boards
<1> HIDE DEF c
<1>10. c.attempts \subseteq {c.task.phase} /\ OneTool(c)
  BY <1>2, <1>9 DEF OneTool
<1>11. Leads(b, c)
  BY <1>4, <1>7, <1>9, <1>10, ReplacedOK
<1> QED
  BY <1>8, <1>11

LEMMA FailPhaseOK ==
  ASSUME NEW b, BoardOK(b), NEW p \in b.attempts
  PROVE  Leads(b, FailPhase(b, p))
<1> DEFINE a == EndAttempt(b, p)
           t == [b.task EXCEPT !.state = "failed", !.acc = "not_ready", !.phase = "fix_or_replan"]
           c == [a EXCEPT !.task = t]
<1>1. /\ a \in Boards /\ a.attempts = {} /\ OneTool(a)
      /\ a.task = b.task /\ a.pending = b.pending /\ a.ev = b.ev
  BY EndAttemptOK
<1>2. c = FailPhase(b, p)
  BY <1>1 DEF FailPhase
<1>3. t \in TaskRows /\ t.acc = "not_ready"
  <2>1. "failed" \in States /\ "not_ready" \in Acceptances /\ "fix_or_replan" \in Phases
    BY BoardConstants DEF BoardConstants, States, Acceptances
  <2>2. b.task \in TaskRows
    BY DEF BoardOK, Boards
  <2> QED
    BY <2>1, <2>2 DEF TaskRows
<1> HIDE DEF a, t
<1>4. /\ c \in Boards /\ c.task = t /\ c.attempts = {} /\ c.runs = a.runs
      /\ c.pending = b.pending /\ c.ev = b.ev
  BY <1>1, <1>3 DEF Boards
<1> HIDE DEF c
<1>5. c.attempts \subseteq {c.task.phase} /\ OneTool(c)
  BY <1>1, <1>4 DEF OneTool
<1>6. Leads(b, c)
  BY <1>3, <1>4, <1>5, ReplacedOK
<1> QED
  BY <1>2, <1>6

-----------------------------------------------------------------------------
\* The operations of tools.

LEMMA StartToolOK ==
  ASSUME NEW b, BoardOK(b), NEW p, NEW tool, CanStartTool(b, p, tool),
         \E i \in DOMAIN Tools : tool = Tools[i]
  PROVE  LET c == StartTool(b, p, tool)
         IN  Leads(b, c) /\ c.task = b.task
<1> DEFINE r == NewRun(b, p, tool)
           R == b.runs \cup {r}
<1>1. /\ r \in RunRows /\ r.phase = p /\ r.own
  <2>1. p \in Phases /\ Least(FreeRuns(b)) \in RunIds /\ tool.id \in {Tools[i].id : i \in DOMAIN Tools}
    BY FreeRunOK DEF CanStartTool, BoardOK, Boards
  <2> QED
    BY <2>1 DEF NewRun, RunRows
<1>2. ~\E q \in b.runs : q.phase = p /\ q.own /\ q.status = "running"
  BY DEF CanStartTool
<1>3. StartTool(b, p, tool) = [b EXCEPT !.runs = R]
  BY DEF StartTool
<1> HIDE DEF r
<1>4. R \in SUBSET RunRows /\ \A s, q \in R : Rival(s, q) => s = q
  BY <1>1, <1>2 DEF BoardOK, Boards, OneTool, Rival
<1> HIDE DEF R
<1> QED
  BY <1>3, <1>4, RunsOK

LEMMA AutoProgressOK ==
  ASSUME NEW b, BoardOK(b) PROVE Leads(b, AutoProgress(b))
<1> DEFINE p == b.task.phase
           s == StartPhase(b, p)
<1>1. Leads(b, b)
  BY DEF Leads, Grows
<1>2. CASE setting.managed \/ p \notin Phases \/ ToolsFor(p) = {} \/ ~CanStartPhase(b, p)
  BY <1>1, <1>2 DEF AutoProgress
<1>3. CASE ~setting.managed /\ p \in Phases /\ ToolsFor(p) # {} /\ CanStartPhase(b, p)
  <2>1. Leads(b, s) /\ BoardOK(s)
    BY <1>3, StartPhaseOK DEF Leads, Grows
  <2>2. AutoProgress(b) = IF CanStartTool(s, p, ToolFor(p)) THEN StartTool(s, p, ToolFor(p)) ELSE s
    BY <1>3 DEF AutoProgress
  <2>3. \E i \in DOMAIN Tools : ToolFor(p) = Tools[i]
    BY <1>3, ToolForOK
  <2> HIDE DEF s
  <2>4. CASE CanStartTool(s, p, ToolFor(p))
    <3>1. Leads(s, StartTool(s, p, ToolFor(p)))
      BY <2>1, <2>3, <2>4, StartToolOK
    <3> QED
      BY <2>1, <2>2, <2>4, <3>1, LeadsOn
  <2> QED
    BY <2>1, <2>2, <2>4
<1> QED
  BY <1>2, <1>3

LEMMA RunFailedOK ==
  ASSUME NEW b, BoardOK(b), NEW r \in b.runs, FreeRuns(b) # {},
         b.pending["tool_failure"] < MaxQuestions
  PROVE  Leads(b, RunFailed(b, r))
<1>1. CASE r.retry < ToolOf(r.tool).retries /\ ~setting.managed
  <2> DEFINE q == [r EXCEPT !.id = Least(FreeRuns(b)), !.retry = @ + 1]
             R == (b.runs \ {r}) \cup {q}
  <2>1. q \in RunRows /\ q.phase = r.phase /\ q.own = r.own /\ q.status = r.status
    <3>1. r \in RunRows /\ Least(FreeRuns(b)) \in RunIds
      BY FreeRunOK DEF BoardOK, Boards
    <3>2. r.retry + 1 \in Nat
      BY <3>1 DEF RunRows
    <3> QED
      BY <3>1, <3>2 DEF RunRows
  <2>2. RunFailed(b, r) = [b EXCEPT !.runs = R]
    BY <1>1 DEF RunFailed
  <2> HIDE DEF q
  <2>3. R \in SUBSET RunRows /\ \A s, u \in R : Rival(s, u) => s = u
    BY <2>1 DEF BoardOK, Boards, OneTool, Rival
  <2> HIDE DEF R
  <2> QED
    BY <2>2, <2>3, RunsOK
<1>2. CASE ~(r.retry < ToolOf(r.tool).retries /\ ~setting.managed)
  <2> DEFINE c == [b EXCEPT !.runs = @ \ {r}]
             n == b.pending["tool_failure"] + 1
  <2>1. Leads(b, c) /\ c.pending = b.pending
    BY RunGoneOK
  <2>2. "tool_failure" \in Questions /\ "tool_failure" # "final_acceptance"
    BY DEF Questions
  <2>3. n \in 0..MaxQuestions
    <3>1. b.pending["tool_failure"] \in 0..MaxQuestions
      BY <2>2 DEF BoardOK, Boards
    <3>2. MaxQuestions \in Nat
      BY BoardConstants DEF BoardConstants
    <3> QED
      BY <3>1, <3>2
  <2>4. RunFailed(b, r) = WithPending(c, "tool_failure", n)
    BY <1>2 DEF RunFailed
  <2> HIDE DEF c, n
  <2>5. Leads(c, WithPending(c, "tool_failure", n))
    BY <2>1, <2>2, <2>3, PendingOK DEF Leads, Grows
  <2> QED
    BY <2>1, <2>4, <2>5, LeadsOn
<1> QED
  BY <1>1, <1>2

LEMMA ApplyResultOK ==
  ASSUME NEW b, BoardOK(b), NEW r, NEW outcome, Applicable(b, r, outcome)
  PROVE  Leads(b, ApplyResult(b, r, outcome))
<1> DEFINE kind == ToolOf(r.tool).kind
           c == [b EXCEPT !.runs = @ \ {r}]
<1>1. Leads(b, c) /\ c.task = b.task /\ BoardOK(c) /\ c.attempts = b.attempts /\ c.ev = b.ev
  BY RunGoneOK DEF Leads, Grows, BoardOK, Boards
<1>2. r.phase \in c.attempts
  BY <1>1 DEF Applicable
<1>3. /\ kind # KindOf(r.phase) =>
           ApplyResult(b, r, outcome) = [c EXCEPT !.ev = WithArtifact(@, kind, outcome)]
      /\ kind = KindOf(r.phase) /\ Passes(kind, outcome) =>
           ApplyResult(b, r, outcome) = CompletePhase(c, r.phase, kind, outcome)
      /\ kind = KindOf(r.phase) /\ ~Passes(kind, outcome) =>
           ApplyResult(b, r, outcome) = FailPhase(c, r.phase)
  BY DEF ApplyResult
<1>4. kind = KindOf(r.phase) /\ Passes(kind, outcome) => CanCompletePhase(c, r.phase, kind, outcome)
  BY <1>1 DEF Applicable, CanCompletePhase
<1> HIDE DEF c, kind
<1>5. CASE kind # KindOf(r.phase)
  <2> DEFINE ev == WithArtifact(c.ev, kind, outcome)
             d == [c EXCEPT !.ev = ev]
  <2>1. ev \in SUBSET Rules /\ c.ev \subseteq ev
    BY <1>1 DEF WithArtifact, BoardOK, Boards
  <2>2. d = ApplyResult(b, r, outcome)
    BY <1>3, <1>5
  <2> HIDE DEF ev
  <2>3. /\ d \in Boards /\ d.task = c.task /\ d.attempts = c.attempts /\ d.runs = c.runs
        /\ d.pending = c.pending /\ d.ev = ev
    BY <1>1, <2>1 DEF BoardOK, Boards
  <2> HIDE DEF d
  <2>4. d.attempts \subseteq {d.task.phase} /\ OneTool(d)
    BY <1>1, <2>3 DEF BoardOK, OneTool
  <2>5. Leads(c, d)
    BY <1>1, <2>1, <2>3, <2>4, ReplacedOK
  <2> QED
    BY <1>1, <2>2, <2>5, LeadsOn
<1>6. CASE kind = KindOf(r.phase) /\ Passes(kind, outcome)
  <2>1. Leads(c, CompletePhase(c, r.phase, kind, outcome))
    BY <1>1, <1>4, <1>6, CompletePhaseOK
  <2> QED
    BY <1>1, <1>3, <1>6, <2>1, LeadsOn
<1>7. CASE kind = KindOf(r.phase) /\ ~Passes(kind, outcome)
  <2>1. Leads(c, FailPhase(c, r.phase))
    BY <1>1, <1>2, FailPhaseOK
  <2> QED
    BY <1>1, <1>3, <1>7, <2>1, LeadsOn
<1> QED
  BY <1>5, <1>6, <1>7

-----------------------------------------------------------------------------
\* Questions follow the task.

LEMMA Small ==
  /\ 0 \in 0..MaxQuestions /\ 1 \in 0..MaxQuestions
  /\ \A b \in Boards, k \in Questions : b.pending[k] \in 0..MaxQuestions
<1>1. MaxQuestions \in Nat \ {0}
  BY BoardConstants DEF BoardConstants
<1>2. 0 \in 0..MaxQuestions /\ 1 \in 0..MaxQuestions
  BY <1>1
<1>3. \A b \in Boards, k \in Questions : b.pending[k] \in 0..MaxQuestions
  BY DEF Boards
<1> QED
  BY <1>2, <1>3

\* Room for one more question.
LEMMA AddOK ==
  ASSUME NEW b, BoardOK(b),
         b.pending["agent_request"] + b.pending["tool_failure"] < MaxQuestions
  PROVE  /\ b.pending["tool_failure"] < MaxQuestions
         /\ b.pending["agent_request"] + 1 \in 0..MaxQuestions
<1> DEFINE n == b.pending["agent_request"]
           m == b.pending["tool_failure"]
<1>1. n \in 0..MaxQuestions /\ m \in 0..MaxQuestions /\ MaxQuestions \in Nat
  <2>1. "agent_request" \in Questions /\ "tool_failure" \in Questions
    BY DEF Questions
  <2> QED
    BY <2>1, Small, BoardConstants DEF BoardConstants, BoardOK
<1>2. n + m < MaxQuestions
  OBVIOUS
<1> HIDE DEF n, m
<1>3. m < MaxQuestions /\ n + 1 \in 0..MaxQuestions
  BY <1>1, <1>2
<1> QED
  BY <1>3 DEF n, m

LEMMA LeadsTrivially == ASSUME NEW b, BoardOK(b) PROVE Leads(b, b) /\ Grows(b, b)
BY DEF Leads, Grows

LEMMA DispatchedOK ==
  ASSUME NEW b, BoardOK(b), NEW how \in Dispatches
  PROVE  LET c == Dispatched(b, how)
         IN  /\ Leads(b, c) /\ c.task.acc = b.task.acc /\ c.task.phase = b.task.phase
<1> DEFINE t == [b.task EXCEPT !.dispatch = how]
<1>1. t \in TaskRows /\ t.phase = b.task.phase /\ t.acc = b.task.acc
  BY DEF BoardOK, Boards, TaskRows
<1>2. Dispatched(b, how) = [b EXCEPT !.task = t]
  BY DEF Dispatched
<1> HIDE DEF t
<1>3. Leads(b, [b EXCEPT !.task = t]) /\ [b EXCEPT !.task = t].task = t
  BY <1>1, TaskOK DEF BoardOK, Boards
<1> QED
  BY <1>1, <1>2, <1>3

LEMMA SyncAcceptanceOK ==
  ASSUME NEW b, BoardOK(b)
  PROVE  LET c == SyncAcceptance(b)
         IN  Grows(b, c) /\ c.task = b.task /\ Asked(c)
<1>1. "final_acceptance" \in Questions
  BY DEF Questions
<1>2. CASE b.task.acc = "under_human_review" /\ b.pending["final_acceptance"] = 0
  <2>1. Missing(b.ev) = {}
    BY <1>2 DEF BoardOK, Backed, Claimed, Offered
  <2>2. SyncAcceptance(b) = WithPending(b, "final_acceptance", 1)
    BY <1>2 DEF SyncAcceptance, Decisive
  <2> QED
    BY <1>1, <2>1, <2>2, Small, PendingOK DEF Asked
<1>3. CASE b.task.acc \in {"not_ready"} \cup Decisive
  <2>1. b.task.acc # "under_human_review"
    BY <1>3 DEF Decisive
  <2>2. SyncAcceptance(b) = WithPending(b, "final_acceptance", 0)
    BY <1>3, <2>1 DEF SyncAcceptance
  <2> QED
    BY <1>1, <2>1, <2>2, Small, PendingOK DEF Asked
<1>4. CASE /\ ~(b.task.acc = "under_human_review" /\ b.pending["final_acceptance"] = 0)
           /\ b.task.acc \notin {"not_ready"} \cup Decisive
  <2>1. SyncAcceptance(b) = b
    BY <1>4 DEF SyncAcceptance
  <2> QED
    BY <1>4, <2>1, LeadsTrivially DEF Asked, BoardOK
<1> QED
  BY <1>2, <1>3, <1>4

LEMMA SyncArchiveOK ==
  ASSUME NEW b, BoardOK(b)
  PROVE  LET c == SyncArchive(b)
         IN  Leads(b, c) /\ c.task = b.task
<1>1. "archive_override" \in Questions /\ "archive_override" # "final_acceptance"
  BY DEF Questions
<1> QED
  BY <1>1, Small, PendingOK, LeadsTrivially DEF SyncArchive

LEMMA SyncDispatchOK ==
  ASSUME NEW b, BoardOK(b)
  PROVE  LET c == SyncDispatch(b)
         IN  Leads(b, c) /\ c.task.acc = b.task.acc /\ c.task.phase = b.task.phase
<1>1. "dispatch" \in Questions /\ "dispatch" # "final_acceptance"
  BY DEF Questions
<1>2. ASSUME NEW n \in {0, 1}, NEW how \in Dispatches
      PROVE  LET c == Dispatched(WithPending(b, "dispatch", n), how)
             IN  Leads(b, c) /\ c.task.acc = b.task.acc /\ c.task.phase = b.task.phase
  <2> DEFINE w == WithPending(b, "dispatch", n)
  <2>1. Leads(b, w) /\ w.task = b.task
    BY <1>1, Small, PendingOK
  <2>2. BoardOK(w)
    BY <2>1 DEF Leads, Grows
  <2> HIDE DEF w
  <2>3. /\ Leads(w, Dispatched(w, how))
        /\ Dispatched(w, how).task.acc = w.task.acc /\ Dispatched(w, how).task.phase = w.task.phase
    BY <2>2, DispatchedOK
  <2>4. Leads(b, Dispatched(w, how))
    BY <2>1, <2>3, LeadsOn
  <2> QED
    BY <2>1, <2>3, <2>4 DEF w
<1>3. "ready" \in Dispatches /\ "awaiting_approval" \in Dispatches
  BY DEF Dispatches
<1>4. \/ SyncDispatch(b) = b
      \/ SyncDispatch(b) = Dispatched(WithPending(b, "dispatch", 0), "ready")
      \/ SyncDispatch(b) = Dispatched(WithPending(b, "dispatch", 1), "awaiting_approval")
  BY DEF SyncDispatch
<1> QED
  BY <1>2, <1>3, <1>4, LeadsTrivially

LEMMA SyncOK ==
  ASSUME NEW b, BoardOK(b)
  PROVE  LET c == Sync(b)
         IN  /\ Grows(b, c) /\ Asked(c) /\ BoardOK(c)
             /\ c.task.acc = b.task.acc /\ c.task.phase = b.task.phase
<1> DEFINE a == SyncAcceptance(b)
           d == SyncArchive(a)
           e == SyncDispatch(d)
<1>1. Grows(b, a) /\ a.task = b.task /\ Asked(a) /\ BoardOK(a)
  BY SyncAcceptanceOK DEF Grows
<1> HIDE DEF a
<1>2. Leads(a, d) /\ d.task = a.task /\ BoardOK(d)
  BY <1>1, SyncArchiveOK DEF Leads, Grows
<1> HIDE DEF d
<1>3. Leads(d, e) /\ e.task.acc = d.task.acc /\ e.task.phase = d.task.phase /\ BoardOK(e)
  BY <1>2, SyncDispatchOK DEF Leads, Grows
<1> HIDE DEF e
<1>4. Grows(b, d) /\ Asked(d)
  BY <1>1, <1>2, LeadsOn
<1>5. Grows(b, e) /\ Asked(e)
  BY <1>3, <1>4, LeadsOn
<1>6. Sync(b) = e
  BY DEF Sync, a, d, e
<1> QED
  BY <1>1, <1>2, <1>3, <1>5, <1>6

LEMMA SyncButTaskOK ==
  ASSUME NEW b, BoardOK(b)
  PROVE  LET c == SyncButTask(b)
         IN  Grows(b, c) /\ Asked(c) /\ BoardOK(c) /\ c.task = b.task
<1> DEFINE s == Sync(b)
           c == [s EXCEPT !.task = b.task]
<1>1. /\ Grows(b, s) /\ Asked(s) /\ BoardOK(s)
      /\ s.task.acc = b.task.acc /\ s.task.phase = b.task.phase
  BY SyncOK
<1>2. c = SyncButTask(b)
  BY DEF SyncButTask
<1> HIDE DEF s
<1>3. b.task \in TaskRows
  BY DEF BoardOK, Boards
<1>4. Leads(s, c)
  BY <1>1, <1>3, TaskOK
<1>5. Grows(b, c) /\ Asked(c)
  BY <1>1, <1>4, LeadsOn
<1>6. BoardOK(c) /\ c.task = b.task
  BY <1>1, <1>5 DEF Grows, BoardOK, Boards
<1> QED
  BY <1>2, <1>5, <1>6

-----------------------------------------------------------------------------
\* What the actions leave behind.

Good == IInv' /\ Verdict

\* The answers stay.
LEMMA BoardGood ==
  ASSUME IInv, setting' = setting, answers' = answers, ScanOK', jobs' \subseteq RunIds,
         BoardOK(board'), board.ev \subseteq board'.ev, Asked(board) => Asked(board'), Verdict
  PROVE  Good
<1>1. BoardOK(board)'
  BY DEF BoardOK, Backed, Claimed, OneTool
<1>2. Asked(board)' \/ Coming'
  BY DEF IInv, Asked, Coming
<1>3. AnswersOK'
  BY EvidenceStays DEF IInv, AnswersOK
<1> QED
  BY <1>1, <1>2, <1>3 DEF Good, IInv

LEMMA GrowsGood ==
  ASSUME IInv, setting' = setting, answers' = answers, ScanOK', jobs' \subseteq RunIds,
         Grows(board, board'), Asked(board) => Asked(board')
  PROVE  Good
BY BoardGood DEF Grows, Verdict

LEMMA LeadsGood ==
  ASSUME IInv, setting' = setting, answers' = answers, ScanOK', jobs' \subseteq RunIds,
         Leads(board, board')
  PROVE  Good
BY GrowsGood, LeadsOn DEF Leads

\* A session that ends with the questions brought in line.
LEMMA SyncedGood ==
  ASSUME IInv, setting' = setting, answers' = answers, ScanOK', jobs' \subseteq RunIds,
         NEW b, Grows(board, b), board' = SyncButTask(b)
  PROVE  Good
<1>1. Grows(b, board') /\ Asked(board')
  BY SyncButTaskOK DEF Grows
<1>2. Grows(board, board')
  BY <1>1 DEF Grows
<1> QED
  BY <1>1, <1>2, GrowsGood

LEMMA Kept ==
  ASSUME IInv PROVE /\ BoardOK(board) /\ Grows(board, board) /\ Leads(board, board)
                    /\ (memory' = memory => ScanOK') /\ (memory' = Idle => ScanOK')
                    /\ jobs \subseteq RunIds
<1>1. memory' = memory => ScanOK'
  BY DEF IInv, ScanOK
<1>2. memory' = Idle => ScanOK'
  BY DEF ScanOK
<1> QED
  BY <1>1, <1>2, LeadsTrivially DEF IInv

LEMMA SpawnedOK ==
  ASSUME NEW b, BoardOK(b) PROVE Spawned(b) \subseteq RunIds
BY DEF Spawned, BoardOK, Boards, RunRows

-----------------------------------------------------------------------------
\* Humans.

LEMMA TargetOK ==
  ASSUME NEW name \in Updates
  PROVE  /\ Target(name)[1] \in States \cup {Same}
         /\ Target(name)[2] \in {Same, "not_ready"} \cup Offered
<1>1. name \in Actions \cup States
  BY BoardConstants DEF BoardConstants
<1> QED
  BY <1>1 DEF Target, Actions, States, Offered

\* Another task in the same phase, whose acceptance may be a new claim.
LEMMA ClaimOK ==
  ASSUME NEW b, BoardOK(b), NEW t \in TaskRows, t.phase = b.task.phase,
         \/ t.acc = b.task.acc
         \/ t.acc = "not_ready"
         \/ Missing(b.ev) = {}
         \/ t.acc \in Decisive /\ (t.acc = "accepted" => ~setting.gateway)
  PROVE  LET c == [b EXCEPT !.task = t]
         IN  BoardOK(c) /\ c.task = t /\ c.ev = b.ev /\ c.pending = b.pending
<1> DEFINE c == [b EXCEPT !.task = t]
<1>1. /\ c \in Boards /\ c.task = t /\ c.attempts = b.attempts /\ c.runs = b.runs
      /\ c.pending = b.pending /\ c.ev = b.ev
  BY DEF BoardOK, Boards
<1> HIDE DEF c
<1>2. Backed(c)
  BY <1>1 DEF BoardOK, Backed, Claimed, Offered, Decisive
<1>3. BoardOK(c)
  BY <1>1, <1>2 DEF BoardOK, OneTool
<1> QED
  BY <1>1, <1>3 DEF c

LEMMA UpdateOK ==
  ASSUME IInv, NEW name \in Updates, Update(name) PROVE Good
<1> DEFINE to == Target(name)
           t == Updated(board.task, name)
           m == [board EXCEPT !.task = t]
<1>1. /\ to[1] \in States \cup {Same} /\ to[2] \in {Same, "not_ready"} \cup Offered
  BY TargetOK
<1>2. BoardOK(board) /\ board.task \in TaskRows
  BY Kept DEF BoardOK, Boards
<1>3. to[2] \notin {Same, board.task.acc} /\ to[2] \in Offered => Missing(board.ev) = {}
  BY DEF Update, CanUpdate, Offered
<1> HIDE DEF to
<1>4. /\ t = [state |-> IF to[1] = Same THEN board.task.state ELSE to[1],
              acc |-> IF to[2] = Same THEN board.task.acc ELSE to[2],
              phase |-> board.task.phase,
              dispatch |-> IF name = "edit_contract" THEN "none" ELSE board.task.dispatch]
  BY DEF Updated, to
<1> HIDE DEF t
<1>5. t \in TaskRows /\ t.phase = board.task.phase
  BY <1>1, <1>2, <1>4 DEF TaskRows, Dispatches, Acceptances
<1>6. \/ t.acc = board.task.acc
      \/ t.acc = "not_ready"
      \/ t.acc \in Offered /\ Missing(board.ev) = {}
  <2>1. t.acc = IF to[2] = Same THEN board.task.acc ELSE to[2]
    BY <1>4
  <2>2. CASE to[2] = Same \/ to[2] = board.task.acc
    BY <2>1, <2>2
  <2>3. CASE to[2] \notin {Same, board.task.acc}
    BY <1>1, <1>3, <2>1, <2>3
  <2> QED
    BY <2>2, <2>3
<1>7. BoardOK(m) /\ m.task = t /\ m.ev = board.ev
  BY <1>2, <1>5, <1>6, ClaimOK
<1>8. Grows(board, m)
  BY <1>6, <1>7 DEF Grows, Offered, Decisive
<1> HIDE DEF m
<1>9. Grows(board, AskOverride(m))
  <2>1. Leads(m, AskOverride(m))
    <3>1. "archive_override" \in Questions /\ "archive_override" # "final_acceptance"
      BY DEF Questions
    <3> QED
      BY <1>7, <3>1, Small, PendingOK DEF AskOverride
  <2> QED
    BY <1>8, <2>1, LeadsOn
<1>10. board' = SyncButTask(m) \/ board' = SyncButTask(AskOverride(m))
  BY DEF Update, m, t
<1> QED
  BY <1>8, <1>9, <1>10, Kept, SyncedGood DEF Update

LEMMA PhasesByHandOK ==
  ASSUME IInv, NEW p \in Phases
  PROVE  /\ StartPhaseByHand(p) => Good
         /\ \A outcome : CompletePhaseByHand(p, outcome) => Good
         /\ FailPhaseByHand(p) => Good
<1>1. ASSUME StartPhaseByHand(p) PROVE Good
  <2>1. Grows(board, StartPhase(board, p))
    BY <1>1, Kept, StartPhaseOK DEF StartPhaseByHand, Leads
  <2> QED
    BY <1>1, <2>1, Kept, SyncedGood DEF StartPhaseByHand
<1>2. ASSUME NEW outcome, CompletePhaseByHand(p, outcome) PROVE Good
  <2>1. Grows(board, CompletePhase(board, p, KindOf(p), outcome))
    BY <1>2, Kept, CompletePhaseOK DEF CompletePhaseByHand, Leads
  <2> QED
    BY <1>2, <2>1, Kept, SyncedGood DEF CompletePhaseByHand
<1>3. ASSUME FailPhaseByHand(p) PROVE Good
  <2>1. Grows(board, FailPhase(board, p))
    BY <1>3, Kept, FailPhaseOK DEF FailPhaseByHand, Leads
  <2> QED
    BY <1>3, <2>1, Kept, SyncedGood DEF FailPhaseByHand
<1> QED
  BY <1>1, <1>2, <1>3

\* A session that may start tools.
LEMMA SpawnedGood ==
  ASSUME IInv, setting' = setting, answers' = answers, memory' = memory,
         NEW b, Grows(board, b), board' = SyncButTask(b),
         jobs' = jobs \cup Spawned(SyncButTask(b))
  PROVE  Good
<1>1. BoardOK(SyncButTask(b))
  BY SyncButTaskOK DEF Grows
<1>2. jobs' \subseteq RunIds
  BY <1>1, Kept, SpawnedOK
<1> QED
  BY <1>2, Kept, SyncedGood

LEMMA RunToolOK ==
  ASSUME IInv, NEW p, NEW i \in DOMAIN Tools, RunTool(p, i) PROVE Good
<1>1. Grows(board, StartTool(board, p, Tools[i]))
  BY Kept, StartToolOK DEF RunTool, Leads
<1> QED
  BY <1>1, SpawnedGood DEF RunTool

LEMMA StartExecutionOK ==
  ASSUME IInv, StartExecution PROVE Good
<1> DEFINE t == [board.task EXCEPT !.state = "running", !.acc = "not_ready"]
           a == [board EXCEPT !.task = t]
           p == IF board.task.phase \in Phases THEN board.task.phase ELSE Runbook[1].phase
           s == StartPhase(a, p)
           r == StartTool(s, p, ToolFor(p))
<1>1. t \in TaskRows /\ t.phase = board.task.phase /\ t.acc = "not_ready"
  <2>1. board.task \in TaskRows /\ "running" \in States /\ "not_ready" \in Acceptances
    BY Kept DEF BoardOK, Boards, States, Acceptances
  <2> QED
    BY <2>1 DEF TaskRows
<1>2. /\ CanStartPhase(a, p)
      /\ \/ board' = SyncButTask(s) /\ jobs' = jobs \cup Spawned(SyncButTask(s))
         \/ /\ ToolsFor(p) # {} /\ CanStartTool(s, p, ToolFor(p))
            /\ board' = SyncButTask(r) /\ jobs' = jobs \cup Spawned(SyncButTask(r))
  BY DEF StartExecution
<1> HIDE DEF t
<1>3. Leads(board, a) /\ BoardOK(a)
  BY <1>1, Kept, TaskOK DEF Leads, Grows
<1> HIDE DEF a, p
<1>4. Leads(a, s) /\ BoardOK(s)
  BY <1>2, <1>3, StartPhaseOK DEF Leads, Grows
<1> HIDE DEF s
<1>5. Leads(board, s)
  BY <1>3, <1>4, LeadsOn
<1>6. ASSUME ToolsFor(p) # {}, CanStartTool(s, p, ToolFor(p)) PROVE Leads(board, r)
  <2>1. Leads(s, r)
    BY <1>4, <1>6, ToolForOK, StartToolOK
  <2> QED
    BY <1>5, <2>1, LeadsOn
<1> HIDE DEF r
<1>7. setting' = setting /\ answers' = answers /\ memory' = memory
  BY DEF StartExecution
<1> QED
  BY <1>2, <1>5, <1>6, <1>7, SpawnedGood DEF Leads

-----------------------------------------------------------------------------
\* Tools outside the mutex.

LEMMA FinishToolOK ==
  ASSUME IInv, NEW j, NEW result, FinishTool(j, result) PROVE Good
<1> DEFINE r == RunOf(j)
           failed == result = "error" \/ ~Applicable(board, r, result)
<1>1. r \in board.runs
  BY DEF FinishTool, Under, RunOf
<1>2. BoardOK(board) /\ ScanOK' /\ jobs \ {j} \subseteq RunIds
  BY Kept DEF FinishTool
<1>3. setting' = setting /\ answers' = answers
  BY DEF FinishTool
<1>4. CASE failed
  <2> DEFINE b == RunFailed(board, r)
  <2>1. /\ board' = b /\ jobs' = (jobs \ {j}) \cup Spawned(b) /\ FreeRuns(board) # {}
        /\ board.pending["agent_request"] + board.pending["tool_failure"] < MaxQuestions
    BY <1>4 DEF FinishTool
  <2>2. board.pending["tool_failure"] < MaxQuestions
    BY <1>2, <2>1, AddOK
  <2>3. Leads(board, b) /\ BoardOK(b)
    BY <1>1, <1>2, <2>1, <2>2, RunFailedOK DEF Leads, Grows
  <2> HIDE DEF b
  <2>4. jobs' \subseteq RunIds
    BY <1>2, <2>1, <2>3, SpawnedOK
  <2> QED
    BY <1>2, <1>3, <2>1, <2>3, <2>4, LeadsGood
<1>5. CASE ~failed
  <2> DEFINE a == ApplyResult(board, r, result)
             s == Sync(a)
             b == IF result = "pass" THEN AutoProgress(s) ELSE s
  <2>1. board' = b /\ jobs' = (jobs \ {j}) \cup Spawned(b)
    BY <1>5 DEF FinishTool
  <2>2. Leads(board, a) /\ BoardOK(a)
    BY <1>2, <1>5, ApplyResultOK DEF Leads, Grows
  <2> HIDE DEF a
  <2>3. Grows(a, s) /\ Asked(s) /\ BoardOK(s)
    BY <2>2, SyncOK
  <2> HIDE DEF s
  <2>4. Leads(s, b)
    BY <2>3, AutoProgressOK, LeadsTrivially
  <2> HIDE DEF b
  <2>5. Grows(board, b) /\ Asked(b) /\ BoardOK(b)
    <3>1. Grows(board, s)
      BY <2>2, <2>3 DEF Leads, Grows
    <3> QED
      BY <2>3, <2>4, <3>1, LeadsOn DEF Leads, Grows
  <2>6. jobs' \subseteq RunIds
    BY <1>2, <2>1, <2>5, SpawnedOK
  <2> QED
    BY <1>2, <1>3, <2>1, <2>5, <2>6, GrowsGood
<1> QED
  BY <1>4, <1>5

LEMMA JobsOK ==
  ASSUME IInv, Jobs PROVE Good
<1>1. PICK j \in jobs : StopTool(j) \/ LeaveRoot(j) \/ \E result : FinishTool(j, result)
  BY DEF Jobs
<1>2. CASE StopTool(j) \/ LeaveRoot(j)
  <2>1. /\ setting' = setting /\ board' = board /\ answers' = answers /\ memory' = memory
        /\ jobs' \subseteq jobs
    BY <1>2 DEF StopTool, LeaveRoot
  <2> QED
    BY <2>1, Kept, LeadsGood
<1> QED
  BY <1>1, <1>2, FinishToolOK

LEMMA RunsEndOK ==
  ASSUME IInv, NEW r, RecoverRun(r) \/ AgentTimeout(r) PROVE Good
<1>1. /\ setting' = setting /\ answers' = answers /\ memory' = memory /\ jobs' = jobs
      /\ board' = [board EXCEPT !.runs = @ \ {r}]
  BY DEF RecoverRun, AgentTimeout
<1>2. Leads(board, board')
  BY <1>1, Kept, RunGoneOK
<1> QED
  BY <1>1, <1>2, Kept, LeadsGood

LEMMA ScheduledOK ==
  ASSUME IInv, ScanForTools \/ StartScheduledTool PROVE Good
<1>1. CASE ScanForTools
  <2> DEFINE p == board.task.phase
  <2>1. p \in Phases /\ ToolsFor(p) # {}
    BY <1>1, Kept DEF ScanForTools, BoardOK, Boards
  <2>2. memory' = <<"scan", p>> /\ setting' = setting /\ board' = board /\ answers' = answers
        /\ jobs' = jobs
    BY <1>1 DEF ScanForTools
  <2>3. ScanOK'
    <3>1. memory'[2] = p
      BY <2>2
    <3> QED
      BY <2>1, <3>1 DEF ScanOK, ToolsFor, KindOf
  <2> QED
    BY <2>2, <2>3, Kept, LeadsGood
<1>2. CASE StartScheduledTool
  <2> DEFINE p == memory[2]
             b == StartTool(board, p, ToolFor(p))
  <2>1. p \in Phases /\ \E i \in DOMAIN Tools : ToolFor(p) = Tools[i]
    BY <1>2, ToolForOK DEF StartScheduledTool, IInv, ScanOK
  <2>2. /\ setting' = setting /\ answers' = answers /\ memory' = Idle
        /\ \/ /\ CanStartTool(board, p, ToolFor(p))
              /\ board' = b /\ jobs' = jobs \cup Spawned(b)
           \/ board' = board /\ jobs' = jobs
    BY <1>2 DEF StartScheduledTool
  <2>3. CanStartTool(board, p, ToolFor(p)) => Leads(board, b) /\ BoardOK(b)
    BY <2>1, Kept, StartToolOK DEF Leads, Grows
  <2> HIDE DEF b
  <2>4. Leads(board, board') /\ jobs' \subseteq RunIds
    BY <2>2, <2>3, Kept, SpawnedOK
  <2> QED
    BY <2>2, <2>4, Kept, LeadsGood
<1> QED
  BY <1>1, <1>2

-----------------------------------------------------------------------------
\* Agents.

LEMMA SubmitArtifactOK ==
  ASSUME IInv, NEW p, NEW outcome, SubmitArtifact(p, outcome) PROVE Good
<1>1. /\ setting' = setting /\ answers' = answers /\ jobs' = jobs
      /\ memory' = <<"artifact", p, outcome>>
      /\ board' = board \/ \E r \in board.runs : board' = [board EXCEPT !.runs = @ \ {r}]
  BY DEF SubmitArtifact
<1>2. ScanOK'
  <2>1. memory'[1] = "artifact"
    BY <1>1
  <2> QED
    BY <2>1 DEF ScanOK
<1>3. Leads(board, board')
  BY <1>1, Kept, RunGoneOK
<1> QED
  BY <1>1, <1>2, <1>3, Kept, LeadsGood

LEMMA CompleteSubmittedOK ==
  ASSUME IInv, CompleteSubmitted PROVE Good
<1> DEFINE p == memory[2]
           b == CompletePhase(board, p, KindOf(p), memory[3])
<1>1. /\ setting' = setting /\ answers' = answers /\ jobs' = jobs /\ memory' = Idle
      /\ \/ CanCompletePhase(board, p, KindOf(p), memory[3]) /\ board' = SyncButTask(b)
         \/ board' = board
  BY DEF CompleteSubmitted
<1>2. CASE CanCompletePhase(board, p, KindOf(p), memory[3]) /\ board' = SyncButTask(b)
  <2>1. Grows(board, b)
    BY <1>2, Kept, CompletePhaseOK DEF Leads
  <2> QED
    BY <1>1, <1>2, <2>1, Kept, SyncedGood
<1>3. CASE board' = board
  BY <1>1, <1>3, Kept, LeadsGood
<1> QED
  BY <1>1, <1>2, <1>3

LEMMA AgentAsksOK ==
  ASSUME IInv, AgentAsks PROVE Good
<1> DEFINE n == board.pending["agent_request"] + 1
<1>1. BoardOK(board) /\ n \in 0..MaxQuestions
  BY Kept, AddOK DEF AgentAsks
<1>2. "agent_request" \in Questions /\ "agent_request" # "final_acceptance"
  BY DEF Questions
<1>3. board' = WithPending(board, "agent_request", n)
  BY DEF AgentAsks
<1> HIDE DEF n
<1>4. Leads(board, board')
  BY <1>1, <1>2, <1>3, PendingOK
<1> QED
  BY <1>4, Kept, LeadsGood DEF AgentAsks

-----------------------------------------------------------------------------
\* Answers.

LEMMA CloseOK ==
  ASSUME NEW b, BoardOK(b), NEW k \in Questions, b.pending[k] > 0
  PROVE  LET c == Close(b, k)
         IN  /\ BoardOK(c) /\ Grows(b, c) /\ c.task = b.task /\ c.ev = b.ev
             /\ k # "final_acceptance" => Leads(b, c)
<1> DEFINE n == b.pending[k] - 1
<1>1. n \in 0..MaxQuestions /\ (k = "final_acceptance" => n = 0)
  <2>1. b.pending[k] \in 0..MaxQuestions /\ MaxQuestions \in Nat
    BY BoardConstants, Small DEF BoardConstants, BoardOK
  <2>2. k = "final_acceptance" => b.pending[k] \in {0, 1}
    BY DEF BoardOK
  <2> QED
    BY <2>1, <2>2
<1>2. Close(b, k) = WithPending(b, k, n)
  BY DEF Close
<1> HIDE DEF n
<1> QED
  BY <1>1, <1>2, PendingOK DEF Grows

LEMMA DecidedOK ==
  ASSUME NEW t \in TaskRows, NEW kind, NEW action \in Allowed(kind)
  PROVE  LET d == Decided(t, kind, action)
         IN  /\ d \in TaskRows /\ d.phase = t.phase
             /\ d.acc \in {t.acc, "not_ready"} \cup Decisive
<1>1. /\ {"blocked", "archived", "running"} \subseteq States /\ {"ready", "none"} \subseteq Dispatches
      /\ {"not_ready"} \cup Decisive \subseteq Acceptances
  BY DEF States, Dispatches, Acceptances
<1>2. "accepted" \in Decisive /\ "rejected" \in Decisive
  BY DEF Decisive
<1>3. CASE action = "reroute"
  <2>1. kind # "archive_override"
    BY <1>3 DEF Allowed
  <2> QED
    BY <1>1, <1>3, <2>1 DEF Decided, TaskRows
<1>4. CASE action # "reroute" /\ kind = "archive_override"
  <2>1. action \in {"approve", "reject"}
    BY <1>4 DEF Allowed
  <2>2. CASE action = "approve"
    BY <1>1, <1>4, <2>2 DEF Decided, TaskRows
  <2>3. CASE action = "reject"
    BY <1>4, <2>3 DEF Decided
  <2> QED
    BY <2>1, <2>2, <2>3
<1>5. CASE action = "approve" /\ kind # "archive_override"
  BY <1>1, <1>2, <1>5 DEF Decided, TaskRows
<1>6. CASE action \notin {"approve", "reroute"} /\ kind # "archive_override"
  BY <1>1, <1>2, <1>6 DEF Decided, TaskRows
<1> QED
  BY <1>3, <1>4, <1>5, <1>6

LEMMA DecideInDocumentOK ==
  ASSUME IInv, NEW kind \in Questions, NEW action, DecideInDocument(kind, action) PROVE Good
<1> DEFINE c == Close(board, kind)
           t == Decided(board.task, kind, action)
           m == [c EXCEPT !.task = t]
<1>1. /\ BoardOK(board) /\ board.task \in TaskRows /\ board.pending[kind] > 0
      /\ ~setting.gateway /\ action \in Allowed(kind)
  BY Kept DEF DecideInDocument, BoardOK, Boards
<1>2. BoardOK(c) /\ c.task = board.task /\ c.ev = board.ev
  BY <1>1, CloseOK
<1>3. /\ t \in TaskRows /\ t.phase = board.task.phase
      /\ t.acc \in {board.task.acc, "not_ready"} \cup Decisive
  BY <1>1, DecidedOK
<1>4. board' = SyncButTask(m) /\ setting' = setting /\ answers' = answers
      /\ memory' = memory /\ jobs' = jobs
  BY <1>2 DEF DecideInDocument
<1> HIDE DEF c, t
<1>5. BoardOK(m) /\ m.ev = board.ev
  BY <1>1, <1>2, <1>3, ClaimOK
<1> HIDE DEF m
<1>6. BoardOK(board') /\ Asked(board') /\ board.ev \subseteq board'.ev
  BY <1>4, <1>5, SyncButTaskOK DEF Grows
<1>7. Verdict
  BY <1>1 DEF Verdict
<1> QED
  BY <1>4, <1>6, <1>7, Kept, BoardGood

LEMMA DecideInGatewayOK ==
  ASSUME IInv, NEW kind \in Gates, NEW action \in {"approve", "reject", "reroute"},
         DecideInGateway(kind, action)
  PROVE  Good
<1> DEFINE row == [kind |-> kind, action |-> action, applied |-> FALSE]
<1>1. BoardOK(board) /\ kind \in Questions /\ board.pending[kind] > 0
  BY Kept DEF DecideInGateway, Gates, Questions
<1>2. /\ BoardOK(board') /\ Grows(board, board') /\ board'.task = board.task /\ board'.ev = board.ev
      /\ kind # "final_acceptance" => Leads(board, board')
  BY <1>1, CloseOK DEF DecideInGateway
<1>3. /\ setting' = setting /\ memory' = memory /\ jobs' = jobs
      /\ answers' = Append(answers, row)
  BY DEF DecideInGateway
<1>4. row \in AnswerRows /\ row.kind = kind /\ ~row.applied
  BY DEF AnswerRows
<1> HIDE DEF row
<1>5. answers \in Seq(AnswerRows)
  BY DEF IInv, AnswersOK
<1>6. /\ answers' \in Seq(AnswerRows) /\ Len(answers') = Len(answers) + 1
      /\ \A i \in DOMAIN answers : i \in DOMAIN answers' /\ answers'[i] = answers[i]
      /\ Len(answers') \in DOMAIN answers' /\ answers'[Len(answers')] = row
      /\ \A i \in DOMAIN answers' : i \in DOMAIN answers \/ i = Len(answers')
  BY <1>3, <1>4, <1>5
<1>7. AnswersOK'
  <2>1. kind = "final_acceptance" => Missing(board.ev) = {}
    BY <1>1 DEF BoardOK, Backed, Claimed
  <2>2. ASSUME NEW i \in DOMAIN answers', answers'[i].kind = "final_acceptance"
        PROVE  Missing(board.ev) = {}
    <3>1. CASE i \in DOMAIN answers
      BY <1>6, <2>2, <3>1 DEF IInv, AnswersOK
    <3>2. CASE i = Len(answers')
      BY <1>4, <1>6, <2>1, <2>2, <3>2
    <3> QED
      BY <1>6, <3>1, <3>2
  <2> QED
    BY <1>2, <1>6, <2>2 DEF AnswersOK
<1>8. Asked(board)' \/ Coming'
  <2>1. CASE kind = "final_acceptance"
    BY <1>4, <1>6, <2>1 DEF Coming
  <2>2. CASE kind # "final_acceptance"
    <3>1. Asked(board) => Asked(board)'
      BY <1>2, <2>2, LeadsOn DEF Asked, Leads
    <3>2. Coming => Coming'
      BY <1>6 DEF Coming
    <3> QED
      BY <3>1, <3>2 DEF IInv
  <2> QED
    BY <2>1, <2>2
<1>9. Verdict
  BY <1>2 DEF Verdict
<1>10. BoardOK(board)'
  BY <1>2, <1>3 DEF BoardOK, Backed, Claimed, OneTool
<1>11. ScanOK' /\ jobs' \subseteq RunIds /\ setting' \in Settings
  BY <1>3, Kept DEF IInv
<1> QED
  BY <1>7, <1>8, <1>9, <1>10, <1>11 DEF Good, IInv

LEMMA AnswerOtherOK ==
  ASSUME IInv, NEW kind \in Questions \ Gates, AnswerOther(kind) PROVE Good
<1>1. kind # "final_acceptance" /\ board.pending[kind] > 0 /\ board' = Close(board, kind)
  BY DEF Gates, AnswerOther
<1>2. Leads(board, board')
  BY <1>1, Kept, CloseOK
<1> QED
  BY <1>2, Kept, LeadsGood DEF AnswerOther

LEMMA ProjectedOK ==
  ASSUME NEW t \in TaskRows, NEW kind \in Gates, NEW action \in {"approve", "reject", "reroute"}
  PROVE  LET d == Projected(t, kind, action)
         IN  /\ d \in TaskRows /\ d.phase = t.phase
             /\ kind = "final_acceptance" =>
                  \/ d.acc = "accepted" /\ action = "approve"
                  \/ d.acc = "rejected" /\ action # "approve"
                  \/ d.acc = "not_ready"
             /\ kind # "final_acceptance" => d.acc \in {t.acc, "not_ready"}
<1>1. /\ {"blocked", "archived", "running"} \subseteq States /\ {"ready", "none"} \subseteq Dispatches
      /\ {"not_ready", "accepted", "rejected"} \subseteq Acceptances
  BY DEF States, Dispatches, Acceptances, Decisive
<1>2. CASE kind = "final_acceptance" /\ action = "approve"
  BY <1>1, <1>2 DEF Projected, TaskRows
<1>3. CASE kind = "final_acceptance" /\ action = "reject"
  BY <1>1, <1>3 DEF Projected, TaskRows
<1>4. CASE kind = "final_acceptance" /\ action = "reroute"
  BY <1>1, <1>4 DEF Projected, TaskRows
<1>5. CASE kind = "archive_override" /\ action = "approve"
  BY <1>1, <1>5 DEF Projected, TaskRows
<1>6. CASE kind = "archive_override" /\ action # "approve"
  BY <1>6 DEF Projected
<1>7. CASE kind = "dispatch"
  <2> DEFINE how == IF action = "approve" THEN "ready" ELSE "none"
  <2>1. how \in Dispatches
    BY <1>1
  <2>2. Projected(t, kind, action) = [t EXCEPT !.dispatch = how]
    BY <1>7 DEF Projected
  <2> HIDE DEF how
  <2> QED
    BY <1>7, <2>1, <2>2 DEF TaskRows
<1> QED
  BY <1>2, <1>3, <1>4, <1>5, <1>6, <1>7 DEF Gates

LEMMA ApplyProjectionOK ==
  ASSUME IInv, NEW i \in DOMAIN answers, ApplyProjection(i) PROVE Good
<1> DEFINE row == answers[i]
           t == Projected(board.task, row.kind, row.action)
<1>1. /\ answers \in Seq(AnswerRows) /\ row \in AnswerRows
      /\ row.kind = "final_acceptance" => Missing(board.ev) = {}
  BY DEF IInv, AnswersOK
<1>2. row.kind \in Gates /\ row.action \in {"approve", "reject", "reroute"} /\ ~row.applied
  BY <1>1 DEF AnswerRows, ApplyProjection
<1>3. BoardOK(board) /\ board.task \in TaskRows
  BY Kept DEF BoardOK, Boards
<1>4. /\ t \in TaskRows /\ t.phase = board.task.phase
      /\ row.kind = "final_acceptance" =>
           \/ t.acc = "accepted" /\ row.action = "approve"
           \/ t.acc = "rejected" /\ row.action # "approve"
           \/ t.acc = "not_ready"
      /\ row.kind # "final_acceptance" => t.acc \in {board.task.acc, "not_ready"}
  BY <1>2, <1>3, ProjectedOK
<1>5. /\ board' = [board EXCEPT !.task = t] /\ answers' = [answers EXCEPT ![i].applied = TRUE]
      /\ setting' = setting /\ memory' = memory /\ jobs' = jobs
  BY DEF ApplyProjection
<1> HIDE DEF t
<1>6. BoardOK(board') /\ board'.task = t /\ board'.ev = board.ev /\ board'.pending = board.pending
  <2>1. \/ t.acc = board.task.acc
        \/ t.acc = "not_ready"
        \/ Missing(board.ev) = {}
    BY <1>1, <1>4
  <2> QED
    BY <1>3, <1>4, <1>5, <2>1, ClaimOK
<1>7. /\ answers' \in Seq(AnswerRows) /\ DOMAIN answers' = DOMAIN answers
      /\ \A k \in DOMAIN answers : answers'[k].kind = answers[k].kind
      /\ \A k \in DOMAIN answers \ {i} : answers'[k] = answers[k]
  <2> DEFINE new == [row EXCEPT !.applied = TRUE]
  <2>1. new \in AnswerRows /\ new.kind = row.kind
    BY <1>1 DEF AnswerRows
  <2>2. answers' = [answers EXCEPT ![i] = new]
    BY <1>5
  <2> HIDE DEF new
  <2> QED
    BY <1>1, <2>1, <2>2
<1>8. AnswersOK'
  BY <1>6, <1>7 DEF IInv, AnswersOK
<1>9. Asked(board)' \/ Coming'
  <2>1. CASE row.kind = "final_acceptance"
    BY <1>4, <1>6, <2>1 DEF Asked
  <2>2. CASE row.kind # "final_acceptance"
    <3>1. Asked(board) => Asked(board)'
      BY <1>4, <1>6, <2>2 DEF Asked
    <3>2. Coming => Coming'
      BY <1>7, <2>2 DEF Coming
    <3> QED
      BY <3>1, <3>2 DEF IInv
  <2> QED
    BY <2>1, <2>2
<1>10. Verdict
  <2>1. CASE row.kind = "final_acceptance"
    <3>1. "not_ready" \notin Decisive
      BY DEF Decisive
    <3> QED
      BY <1>2, <1>4, <1>6, <2>1, <3>1 DEF Verdict
  <2>2. CASE row.kind # "final_acceptance"
    BY <1>4, <1>6, <2>2 DEF Verdict, Decisive
  <2> QED
    BY <2>1, <2>2
<1>11. BoardOK(board)'
  BY <1>5, <1>6 DEF BoardOK, Backed, Claimed, OneTool
<1>12. ScanOK' /\ jobs' \subseteq RunIds /\ setting' \in Settings
  BY <1>5, Kept DEF IInv
<1> QED
  BY <1>8, <1>9, <1>10, <1>11, <1>12 DEF Good, IInv

LEMMA MarkAppliedOK ==
  ASSUME IInv, NEW i \in DOMAIN answers, MarkApplied(i) PROVE Good
<1> DEFINE n == Len(answers)
<1>1. /\ setting' = setting /\ board' = board /\ memory' = memory /\ jobs' = jobs
      /\ answers[i].applied
      /\ answers' = [j \in 1..(n - 1) |-> IF j < i THEN answers[j] ELSE answers[j + 1]]
  BY DEF MarkApplied
<1>2. answers \in Seq(AnswerRows) /\ n \in Nat /\ DOMAIN answers = 1..n
  BY DEF IInv, AnswersOK
<1> HIDE DEF n
<1>3. /\ i \in 1..n /\ n - 1 \in Nat
      /\ \A j \in 1..(n - 1) : j \in 1..n /\ j + 1 \in 1..n
  BY <1>2
<1>4. \A j \in 1..n : answers[j] \in AnswerRows
  BY <1>2
<1>5. answers' \in Seq(AnswerRows) /\ DOMAIN answers' = 1..(n - 1)
  BY <1>1, <1>3, <1>4
<1>6. AnswersOK'
  <2>1. ASSUME NEW j \in 1..(n - 1), answers'[j].kind = "final_acceptance"
        PROVE  Missing(board.ev) = {}
    <3>1. PICK k \in 1..n : answers'[j] = answers[k]
      BY <1>1, <1>3
    <3> QED
      BY <1>2, <2>1, <3>1 DEF IInv, AnswersOK
  <2> QED
    BY <1>1, <1>5, <2>1 DEF AnswersOK
<1>7. Coming => Coming'
  <2>1. ASSUME Coming PROVE Coming'
    <3>1. PICK k \in 1..n : answers[k].kind = "final_acceptance" /\ ~answers[k].applied
      BY <1>2, <2>1 DEF Coming
    <3>2. k # i
      BY <1>1, <3>1
    <3>3. CASE k < i
      <4>1. k \in 1..(n - 1)
        BY <1>2, <1>3, <3>3
      <4>2. answers'[k] = answers[k]
        BY <1>1, <3>3, <4>1
      <4> QED
        BY <1>5, <3>1, <4>1, <4>2 DEF Coming
    <3>4. CASE i < k
      <4>1. k - 1 \in 1..(n - 1) /\ ~(k - 1 < i) /\ (k - 1) + 1 = k
        BY <1>2, <1>3, <3>4
      <4>2. answers'[k - 1] = answers[k]
        BY <1>1, <4>1
      <4> QED
        BY <1>5, <3>1, <4>1, <4>2 DEF Coming
    <3> QED
      BY <1>2, <1>3, <3>2, <3>3, <3>4
  <2> QED
    BY <2>1
<1>8. Verdict
  BY <1>1 DEF Verdict
<1>9. BoardOK(board)' /\ (Asked(board) => Asked(board)')
  BY <1>1, Kept DEF BoardOK, Backed, Claimed, OneTool, Asked
<1>10. ScanOK' /\ jobs' \subseteq RunIds /\ setting' \in Settings
  BY <1>1, Kept DEF IInv
<1> QED
  BY <1>6, <1>7, <1>8, <1>9, <1>10 DEF Good, IInv

-----------------------------------------------------------------------------
\* Together.

LEMMA InitOK == ASSUME Init PROVE IInv
<1> DEFINE P == [k \in Questions |-> IF k = "dispatch" /\ setting.origin = "agent" THEN 1 ELSE 0]
<1>1. /\ board = [task |-> NewTask, attempts |-> {}, runs |-> {}, ev |-> {}, pending |-> P]
      /\ setting \in Settings /\ jobs = {} /\ memory = Idle /\ answers = <<>>
  BY DEF Init
<1>2. P \in [Questions -> 0..MaxQuestions] /\ P["final_acceptance"] = 0
  <2>1. "final_acceptance" \in Questions
    BY DEF Questions
  <2> QED
    BY <2>1, Small
<1> HIDE DEF P
<1>3. NewTask \in TaskRows /\ NewTask.acc = "not_ready"
  <2>1. Runbook[1].phase \in Phases
    BY BoardConstants DEF BoardConstants, Phases
  <2>2. /\ "planned" \in States /\ "not_ready" \in Acceptances
        /\ "ready" \in Dispatches /\ "awaiting_approval" \in Dispatches
    BY DEF States, Acceptances, Dispatches
  <2> QED
    BY <2>1, <2>2 DEF NewTask, TaskRows
<1> DEFINE t == NewTask
<1>4. board = [task |-> t, attempts |-> {}, runs |-> {}, ev |-> {}, pending |-> P]
  BY <1>1
<1>5. t \in TaskRows /\ t.acc = "not_ready"
  BY <1>3
<1> HIDE DEF t
<1>6. board \in Boards /\ board.task = t /\ board.attempts = {} /\ board.runs = {} /\ board.pending = P
  BY <1>2, <1>4, <1>5 DEF Boards
<1>7. OneTool(board) /\ board.attempts \subseteq {board.task.phase}
  BY <1>6 DEF OneTool
<1>8. ~Claimed(board)
  BY <1>2, <1>5, <1>6 DEF Claimed, Offered
<1>9. BoardOK(board)
  BY <1>2, <1>6, <1>7, <1>8 DEF BoardOK, Backed
<1>10. Asked(board)
  BY <1>5, <1>6 DEF Asked
<1>11. AnswersOK
  BY <1>1 DEF AnswersOK
<1>12. ScanOK /\ jobs \subseteq RunIds
  BY <1>1 DEF ScanOK
<1> QED
  BY <1>1, <1>9, <1>10, <1>11, <1>12 DEF IInv

LEMMA HumanGood == ASSUME IInv, Human PROVE Good
BY UpdateOK, PhasesByHandOK, RunToolOK, StartExecutionOK, DecideInDocumentOK,
   DecideInGatewayOK, AnswerOtherOK DEF Human

LEMMA ServerGood == ASSUME IInv, Server PROVE Good
<1>1. CASE ToggleGate
  <2>1. /\ setting' = setting /\ board' = board /\ answers' = answers /\ memory' = memory
        /\ jobs' = jobs
    BY <1>1 DEF ToggleGate
  <2> QED
    BY <2>1, Kept, LeadsGood
<1>2. CASE Crash
  <2>1. /\ setting' = setting /\ board' = board /\ answers' = answers /\ memory' = Idle
        /\ jobs' = {}
    BY <1>2 DEF Crash
  <2> QED
    BY <2>1, Kept, LeadsGood
<1> QED
  BY <1>1, <1>2, JobsOK, RunsEndOK, ScheduledOK, ApplyProjectionOK, MarkAppliedOK DEF Server

LEMMA AgentGood == ASSUME IInv, Agent PROVE Good
BY SubmitArtifactOK, CompleteSubmittedOK, AgentAsksOK DEF Agent

LEMMA StepGood == ASSUME IInv, [Next]_vars PROVE Good
<1>1. CASE UNCHANGED vars
  <2>1. /\ setting' = setting /\ board' = board /\ answers' = answers /\ memory' = memory
        /\ jobs' = jobs
    BY <1>1 DEF vars
  <2> QED
    BY <2>1, Kept, LeadsGood
<1> QED
  BY <1>1, HumanGood, ServerGood, AgentGood DEF Next

LEMMA Invariance == Spec => []IInv
<1>1. IInv /\ [Next]_vars => IInv'
  BY StepGood DEF Good
<1> QED
  BY <1>1, InitOK, PTL DEF Spec

\* The task stays in the states the board knows, at most one attempt is under
\* way and it is of the task's phase, and tools do not run side by side in one
\* attempt (project_control.go, the handlers of the task table).
THEOREM TypeCorrect == Spec => []TypeOK
<1>1. IInv => TypeOK
  <2> SUFFICES ASSUME IInv PROVE TypeOK
    OBVIOUS
  <2>1. BoardOK(board) /\ jobs \subseteq RunIds
    BY DEF IInv
  <2>2. /\ board.task \in TaskRows /\ board.attempts \subseteq Phases /\ board.runs \subseteq RunRows
        /\ board.ev \subseteq Rules /\ board.pending \in [Questions -> 0..MaxQuestions]
    BY <2>1 DEF BoardOK, Boards
  <2>3. /\ board.task.state \in States /\ board.task.acc \in Acceptances
        /\ board.task.phase \in Phases \cup {"ready_for_acceptance"}
        /\ board.task.dispatch \in Dispatches
    BY <2>2 DEF TaskRows
  <2>4. board.attempts \subseteq {board.task.phase} /\ OneTool(board)
    BY <2>1 DEF BoardOK
  <2> QED
    BY <2>1, <2>2, <2>3, <2>4
       DEF TypeOK, OneTool, Rival, RunRows, Acceptances, Offered, Dispatches
<1> QED
  BY <1>1, Invariance, PTL

\* A task is offered, reviewed and, with the gateway, accepted only with all
\* the evidence its runbook asks for, in whatever order handlers, tools, agents
\* and answers come (validateProjectControlAcceptanceTransition,
\* applyTaskProjection).
THEOREM EvidenceFirst == Spec => []EvidenceBacksReview
<1>1. IInv => EvidenceBacksReview
  BY DEF IInv, BoardOK, Backed, Claimed, Offered, EvidenceBacksReview
<1> QED
  BY <1>1, Invariance, PTL

\* A task under human review has its question in the inbox or an answer on its
\* way (syncProjectControlFinalAcceptanceCheckpoint).
THEOREM ReviewsAreAsked == Spec => []ReviewIsAsked
<1>1. IInv => ReviewIsAsked
  BY DEF IInv, Asked, Coming, ReviewIsAsked
<1> QED
  BY <1>1, Invariance, PTL

\* With the gateway, a task is accepted or rejected only by an answer of its
\* own that was not applied before, and as that answer says
\* (applyProjectedTaskDecision).
THEOREM OneVerdict == Spec => OneVerdictPerAnswer
<1>1. IInv /\ [Next]_vars => Verdict
  BY StepGood DEF Good
<1>2. Verdict => [setting.gateway /\ board'.task.acc \in Decisive /\ board'.task.acc # board.task.acc =>
       \E i \in DOMAIN answers :
         /\ answers[i].kind = "final_acceptance" /\ ~answers[i].applied
         /\ (answers[i].action = "approve") <=> (board'.task.acc = "accepted")]_vars
  BY DEF Verdict
<1> QED
  BY <1>1, <1>2, Invariance, PTL DEF Spec, OneVerdictPerAnswer

-----------------------------------------------------------------------------
(***************************************************************************)
(* The handoff.                                                            *)
(***************************************************************************)
\* A row that was pinned goes only with its reference.
THEOREM PinsAreKept == HandoffSpec => PinnedIsKept
<1> DEFINE PinsKept == \A r \in rows : r.pin # None => Recovered(r) \/ Resubmitted(r)
<1>1. ASSUME \A r \in rows : r.pin # None => r \in rows'
      PROVE  PinsKept
  <2>1. \A r \in rows : SameRow(r, r)
    BY DEF SameRow
  <2>. QED BY <1>1, <2>1 DEF Recovered
<1>2. ASSUME NEW p \in Calls, StorePaste(p)
      PROVE  PinsKept
  <2>1. rows \subseteq rows'
    BY <1>2 DEF StorePaste, WithRow
  <2>. QED BY <1>1, <2>1
<1>3. ASSUME NEW p \in Calls, Pin(p)
      PROVE  PinsKept
  <2>1. \A r \in rows : r.pin # None => r \in rows'
    BY <1>3 DEF Pin
  <2>. QED BY <1>1, <2>1
<1>4. ASSUME NEW p \in Calls, Promote(p)
      PROVE  PinsKept
  <2>1. PICK gone \in SUBSET rows :
          /\ rows' = rows \ gone
          /\ \A r \in gone : <<Goal(call[p], r), r.source>> \in refs'
    BY <1>4 DEF Promote, Listed, Referred
  <2>2. ASSUME NEW r \in rows, r.pin # None
        PROVE  Recovered(r)
    <3>1. CASE r \in gone
      BY <2>1, <2>2, <3>1 DEF Goal, Recovered
    <3>2. CASE r \notin gone
      BY <2>1, <3>2 DEF Recovered, SameRow
    <3>. QED BY <3>1, <3>2
  <2>. QED BY <2>2
<1>5. ASSUME NEW p \in Calls, Link(p)
      PROVE  PinsKept
  <2> DEFINE c == call[p]
             own == Row(c.term, c.copy, c.source, c.draft, c.task)
             kept == WithRow(rows, own)
  <2>1. rows \subseteq kept
    BY DEF WithRow
  <2>2. /\ c.op = "submit"
        /\ \/ rows' = rows
           \/ rows' = kept
           \/ /\ <<c.task, c.source>> \in refs'
              /\ rows' = {r \in kept : ~SameRow(r, own)}
    BY <1>5 DEF Link, Referred
  <2>3. own.draft = c.draft
    BY DEF Row
  <2> HIDE DEF own, kept
  <2>4. CASE rows \subseteq rows'
    BY <1>1, <2>4
  <2>5. CASE <<c.task, c.source>> \in refs' /\ rows' = {r \in kept : ~SameRow(r, own)}
    <3>1. ASSUME NEW r \in rows, r.pin # None
          PROVE  Recovered(r) \/ Resubmitted(r)
      <4>1. CASE SameRow(r, own)
        BY <2>2, <2>3, <2>5, <4>1 DEF SameRow, Resubmitted
      <4>2. CASE ~SameRow(r, own)
        BY <2>1, <2>5, <4>2 DEF Recovered, SameRow
      <4>. QED BY <4>1, <4>2
    <3>. QED BY <3>1
  <2>. QED BY <2>1, <2>2, <2>4, <2>5
<1>6. ASSUME NEW e \in editors, Cancel(e[1], e[2])
      PROVE  PinsKept
  <2>1. \A r \in rows : r.pin # None => r \in rows'
    BY <1>6 DEF Cancel
  <2>. QED BY <1>1, <2>1
<1>7. ASSUME UNCHANGED rows
      PROVE  PinsKept
  BY <1>1, <1>7
<1>8. ASSUME NEW p \in Calls, Handler(p)
      PROVE  PinsKept
  BY <1>2, <1>3, <1>4, <1>5, <1>7, <1>8
  DEF Handler, CopyText, StoreCopy, PasteText, Supplement, Submit, Register,
      FindTarget, MakeCard, Bind, Fail, store
<1>9. [HandoffNext]_handoffVars => [PinsKept]_handoffVars
  BY <1>6, <1>7, <1>8 DEF HandoffNext, FinishGoal
<1>. QED BY <1>9, PTL DEF HandoffSpec, PinnedIsKept

-----------------------------------------------------------------------------
(***************************************************************************)
(* The invariant for NoLeak and OneCardPerDraft. A task keeps its maker,   *)
(* and a terminal is bound to no task another terminal's draft made. What  *)
(* a submission knows of its task (Aimed), and that it found none (Alone), *)
(* stays true while it runs since it holds the lock; and a pinned row is   *)
(* pinned to a goal of its draft.                                          *)
(***************************************************************************)
MadeBy(t, term, draft) == maker[t] = <<term, draft>>

\* No other terminal's draft made t.
MadeAt(t, term) ==
  \A other \in Terminals, draft \in Drafts : MadeBy(t, other, draft) => other = term

Known(t, term) == t \in Ids /\ tasks[t] # "none" /\ MadeAt(t, term)

WorldOK ==
  /\ tasks \in [Ids -> {"none", "open", "finished"}]
  /\ bound \in [Terminals -> Ids \cup {None}]
  /\ accepted \in [Drafts -> SUBSET Ids]
  /\ maker = [t \in Ids |-> maker[t]]
  /\ \A e \in editors : e[1] \in Terminals /\ e[2] \in Drafts
  /\ \A t \in Free : maker[t] = Nobody
  /\ \A term \in Terminals : bound[term] # None => Known(bound[term], term)

Aimed(c) == Known(c.task, c.term) /\ c.task \in accepted[c.draft]

Alone(c) ==
  \A t \in Open : MadeBy(t, c.term, c.draft) => bound[c.term] # t

AimedSteps == {"pin", "promote", "link", "bind"}

\* A submission, and a registration.
SubmitOK(c) ==
  /\ c = [op |-> "submit", step |-> c.step, term |-> c.term, draft |-> c.draft,
          copy |-> c.copy, source |-> c.source, task |-> c.task]
  /\ c.term \in Terminals /\ c.draft \in Drafts
  /\ c.step \in AimedSteps => Aimed(c)
  /\ c.step = "create" => Alone(c)

RegisterOK(c) ==
  /\ c = [op |-> "register", step |-> c.step, term |-> c.term, task |-> c.task,
          draft |-> Untracked]
  /\ c.task \in Ids /\ maker[c.task] = ByAgent

CallOK(c) ==
  /\ c.op = "submit" => SubmitOK(c)
  /\ c.op = "register" => RegisterOK(c)

Locking == {"submit", "register"}

RequestsOK ==
  /\ call = [p \in Calls |-> call[p]]
  /\ \A p \in Calls : CallOK(call[p])
  /\ \A p, q \in Calls : call[p].op \in Locking /\ call[q].op \in Locking => p = q

RowsOK ==
  \A r \in rows : /\ r = Row(r.term, r.copy, r.source, r.draft, r.pin)
                  /\ r.pin # None => r.pin \in Goals(r.draft)

HandoffInv == WorldOK /\ RequestsOK /\ RowsOK

\* What every step does to tasks: it makes some, and credits drafts with some.
WorldGrows ==
  /\ \A t \in Ids : tasks[t] # "none" => tasks'[t] # "none" /\ maker'[t] = maker[t]
  /\ \A d \in Drafts : accepted[d] \subseteq accepted'[d]

LEMMA MakersDiffer ==
  /\ Nobody # ByAgent
  /\ \A x, y : <<x, y>> # Nobody /\ <<x, y>> # ByAgent
BY DEF Nobody, ByAgent

LEMMA FreshIsFree ==
  ASSUME Free # {}
  PROVE  Fresh \in Free
BY DEF Fresh

LEMMA HandoffStart ==
  ASSUME HandoffInit
  PROVE  HandoffInv
<1>1. WorldOK
  <2>1. PICK start \in Starts :
          /\ editors = start.editors
          /\ tasks = [t \in Ids |-> IF t \in start.finished THEN "finished" ELSE "none"]
    BY DEF HandoffInit
  <2>2. \A e \in editors : e[1] \in Terminals /\ e[2] \in Drafts
    BY <2>1, HandoffConstants DEF HandoffConstants, Drafts
  <2>3. /\ bound = [term \in Terminals |-> None]
        /\ accepted = [d \in Drafts |-> {}]
        /\ maker = [t \in Ids |-> Nobody]
    BY DEF HandoffInit
  <2>. QED BY <2>1, <2>2, <2>3 DEF WorldOK, Free
<1>2. RequestsOK
  <2>1. call = [p \in Calls |-> NoCall]
    BY DEF HandoffInit
  <2>2. NoCall.op = "none"
    BY DEF NoCall
  <2>. QED BY <2>1, <2>2 DEF RequestsOK, CallOK, Locking
<1>3. RowsOK
  BY DEF HandoffInit, RowsOK
<1>. QED BY <1>1, <1>2, <1>3 DEF HandoffInv

\* Goals are never lost.
LEMMA GoalsGrow ==
  ASSUME WorldOK, WorldGrows, NEW d, NEW t \in Goals(d)
  PROVE  t \in Goals(d)'
<1>1. CASE \E e \in Drafts \cap {d, Untracked} : t \in accepted[e]
  BY <1>1 DEF Goals, WorldGrows
<1>2. CASE maker[t] = ByAgent
  <2>1. t \in Ids /\ tasks[t] # "none"
    BY <1>2, MakersDiffer DEF WorldOK, Free, Goals
  <2>. QED BY <1>2, <2>1 DEF Goals, WorldGrows
<1>. QED BY <1>1, <1>2 DEF Goals

LEMMA RowsStayOK ==
  ASSUME WorldOK, RowsOK, WorldGrows,
         \A r \in rows' : r \in rows \/ /\ r = Row(r.term, r.copy, r.source, r.draft, r.pin)
                                        /\ r.pin # None => r.pin \in Goals(r.draft)'
  PROVE  RowsOK'
<1>1. ASSUME NEW r \in rows
      PROVE  /\ r = Row(r.term, r.copy, r.source, r.draft, r.pin)
             /\ r.pin # None => r.pin \in Goals(r.draft)'
  BY GoalsGrow DEF RowsOK
<1>. QED BY <1>1 DEF RowsOK

LEMMA KnownStays ==
  ASSUME WorldGrows, NEW t, NEW term, Known(t, term)
  PROVE  Known(t, term)'
BY DEF WorldGrows, Known, MadeAt, MadeBy

\* A step that makes no task known to anybody: one may be made for a source,
\* one may be finished.
Drifts ==
  /\ UNCHANGED <<maker, accepted, editors>>
  /\ \/ UNCHANGED <<tasks, bound>>
     \/ \E t \in Open : tasks' = [tasks EXCEPT ![t] = "finished"] /\ UNCHANGED bound
     \/ \E t \in Free : \E term : /\ tasks' = [tasks EXCEPT ![t] = "open"]
                                     /\ bound' = [bound EXCEPT ![term] = t]

LEMMA DriftGrows ==
  ASSUME WorldOK, Drifts
  PROVE  WorldGrows
BY DEF WorldOK, Drifts, WorldGrows, Open, Free

LEMMA DriftWorld ==
  ASSUME WorldOK, Drifts
  PROVE  WorldOK'
<1>1. WorldGrows
  BY DriftGrows
<1>2. /\ tasks' \in [Ids -> {"none", "open", "finished"}]
      /\ bound' \in [Terminals -> Ids \cup {None}]
      /\ \A t \in Ids : tasks'[t] = "none" => tasks[t] = "none"
  BY DEF WorldOK, Drifts, Open, Free
<1>3. \A term \in Terminals : bound'[term] # bound[term] =>
        bound'[term] \in Ids /\ tasks'[bound'[term]] # "none" /\ maker'[bound'[term]] = Nobody
  BY DEF WorldOK, Drifts, Free
<1>4. ASSUME NEW term \in Terminals, bound'[term] # None
      PROVE  Known(bound[term], term)'
  <2>1. PICK t : t = bound'[term]
    OBVIOUS
  <2>2. CASE t = bound[term]
    <3>1. Known(t, term)
      BY <1>4, <2>1, <2>2 DEF WorldOK
    <3>2. Known(t, term)'
      BY <1>1, <3>1, KnownStays
    <3>. QED BY <2>1, <3>2 DEF Known, MadeAt, MadeBy
  <2>3. CASE t # bound[term]
    BY <1>3, <2>1, <2>3, MakersDiffer DEF Known, MadeAt, MadeBy
  <2>. QED BY <2>2, <2>3
<1>. QED BY <1>2, <1>4 DEF WorldOK, Drifts, Free

\* Nothing that drifts disturbs a submission or a registration.
LEMMA DriftCall ==
  ASSUME WorldOK, Drifts, NEW c, CallOK(c)
  PROVE  CallOK(c)'
<1>1. WorldGrows
  BY DriftGrows
<1>2. Aimed(c) /\ c.draft \in Drafts => Aimed(c)'
  BY <1>1, KnownStays DEF Aimed, WorldGrows
<1>3. ASSUME Alone(c), c.term \in Terminals
      PROVE  Alone(c)'
  <2>1. ASSUME NEW t \in Ids, tasks'[t] = "open", MadeBy(t, c.term, c.draft)', bound'[c.term] = t
        PROVE  FALSE
    <3>1. maker[t] = <<c.term, c.draft>> /\ maker[t] # Nobody
      BY <2>1, MakersDiffer DEF Drifts, MadeBy
    <3>2. tasks[t] # "none"
      BY <3>1 DEF WorldOK, Free
    <3>3. tasks[t] = "open" /\ bound[c.term] = t
      BY <1>3, <2>1, <3>2 DEF Drifts, WorldOK, Open, Free
    <3>. QED BY <1>3, <3>1, <3>3 DEF Alone, MadeBy, Open
  <2>. QED BY <2>1 DEF Alone, Open
<1>4. c.op = "submit" => SubmitOK(c)'
  BY <1>2, <1>3 DEF CallOK, SubmitOK
<1>5. c.op = "register" => RegisterOK(c)'
  BY DEF CallOK, RegisterOK, Drifts
<1>. QED BY <1>4, <1>5 DEF CallOK

\* Requests that hold no lock come and go.
LEMMA DriftRequests ==
  ASSUME WorldOK, RequestsOK, Drifts,
         NEW p \in Calls, NEW c, c.op \notin Locking,
         call' = [call EXCEPT ![p] = c]
  PROVE  RequestsOK'
<1>1. /\ call' = [q \in Calls |-> call'[q]]
      /\ \A q \in Calls : call'[q] = IF q = p THEN c ELSE call[q]
  BY DEF RequestsOK
<1>2. ASSUME NEW q \in Calls
      PROVE  CallOK(call[q])'
  <2>1. PICK b : b = call'[q]
    OBVIOUS
  <2>2. CASE q = p
    BY <1>1, <2>1, <2>2 DEF CallOK, Locking
  <2>3. CASE q # p
    <3>1. CallOK(b)
      BY <1>1, <2>1, <2>3 DEF RequestsOK
    <3>2. CallOK(b)'
      BY <3>1, DriftCall
    <3>. QED BY <2>1, <3>2
         DEF CallOK, SubmitOK, RegisterOK, Aimed, Alone, Known, MadeAt, MadeBy
  <2>. QED BY <2>2, <2>3
<1>. QED BY <1>1, <1>2 DEF RequestsOK

LEMMA SameRequests ==
  ASSUME WorldOK, RequestsOK, Drifts, call' = call
  PROVE  RequestsOK'
<1>1. ASSUME NEW q \in Calls
      PROVE  CallOK(call[q])'
  <2>1. PICK b : b = call[q]
    OBVIOUS
  <2>2. CallOK(b)'
    BY <2>1, DriftCall DEF RequestsOK
  <2>. QED BY <2>1, <2>2
       DEF CallOK, SubmitOK, RegisterOK, Aimed, Alone, Known, MadeAt, MadeBy
<1>. QED BY <1>1 DEF RequestsOK

\* The call that holds the lock is the only one to look at.
LEMMA LockedRequests ==
  ASSUME RequestsOK, NEW p \in Calls,
         \A q \in Calls : q # p => call[q].op \notin Locking,
         NEW c, call' = [call EXCEPT ![p] = c], CallOK(c)'
  PROVE  RequestsOK'
<1>1. /\ call' = [q \in Calls |-> call'[q]]
      /\ \A q \in Calls : call'[q] = IF q = p THEN c ELSE call[q]
  BY DEF RequestsOK
<1>2. ASSUME NEW q \in Calls
      PROVE  CallOK(call[q])'
  <2>1. CASE q = p
    <3>1. call'[q] = c
      BY <1>1, <2>1
    <3>. QED BY <3>1
         DEF CallOK, SubmitOK, RegisterOK, Aimed, Alone, Known, MadeAt, MadeBy
  <2>2. CASE q # p
    BY <1>1, <2>2 DEF CallOK, Locking
  <2>. QED BY <2>1, <2>2
<1>. QED BY <1>1, <1>2 DEF RequestsOK

LEMMA SourceDrifts ==
  ASSUME NEW i, NEW s \in SourceTask(i), Registered(s),
         UNCHANGED <<maker, accepted, editors>>
  PROVE  Drifts
<1> DEFINE source == copies[i].term
<1>1. \/ \E t : s = [source |-> t, tasks |-> tasks, bound |-> bound]
      \/ \E t \in Free :
           s = [source |-> t, tasks |-> [tasks EXCEPT ![t] = "open"],
                bound |-> [bound EXCEPT ![source] = t]]
  BY DEF SourceTask, BoundTo
<1> HIDE DEF source
<1>2. tasks' = s.tasks /\ bound' = s.bound
  BY DEF Registered
<1>3. CASE \E t : s = [source |-> t, tasks |-> tasks, bound |-> bound]
  BY <1>2, <1>3 DEF Drifts
<1>4. CASE \E t \in Free :
             s = [source |-> t, tasks |-> [tasks EXCEPT ![t] = "open"],
                  bound |-> [bound EXCEPT ![source] = t]]
  <2>1. PICK t \in Free :
          s = [source |-> t, tasks |-> [tasks EXCEPT ![t] = "open"],
               bound |-> [bound EXCEPT ![source] = t]]
    BY <1>4
  <2> DEFINE ts == [tasks EXCEPT ![t] = "open"]
             bs == [bound EXCEPT ![source] = t]
  <2>2. s = [source |-> t, tasks |-> ts, bound |-> bs]
    BY <2>1
  <2> HIDE DEF ts, bs
  <2>3. tasks' = ts /\ bound' = bs
    BY <1>2, <2>2
  <2>4. tasks' = [tasks EXCEPT ![t] = "open"] /\ bound' = [bound EXCEPT ![source] = t]
    BY <2>3 DEF ts, bs
  <2>. QED BY <2>4 DEF Drifts
<1>. QED BY <1>1, <1>3, <1>4

LEMMA SameRowsStayOK ==
  ASSUME WorldOK, RowsOK, WorldGrows, rows' \subseteq rows
  PROVE  RowsOK'
BY RowsStayOK

\* Copies, pastes and cancellations.
LEMMA UnlockedStep ==
  ASSUME HandoffInv, NEW p \in Calls,
         \/ \E term \in Copied, text \in Texts : CopyText(p, term, text)
         \/ StoreCopy(p)
         \/ \E e \in editors, text \in Texts : PasteText(p, e[1], text, e[2])
         \/ StorePaste(p) \/ Supplement(p) \/ Fail(p)
  PROVE  HandoffInv'
<1> USE DEF HandoffInv
<1>1. Drifts
  <2>1. ASSUME NEW e \in editors, NEW text \in Texts, PasteText(p, e[1], text, e[2])
        PROVE  Drifts
    <3>1. PICK i : \E s \in SourceTask(i) : Registered(s)
      BY <2>1 DEF PasteText
    <3>. QED BY <2>1, <3>1, SourceDrifts DEF PasteText, history
  <2>2. ASSUME \/ \E term \in Copied, text \in Texts : CopyText(p, term, text)
               \/ StoreCopy(p) \/ StorePaste(p) \/ Supplement(p) \/ Fail(p)
        PROVE  Drifts
    BY <2>2 DEF Drifts, CopyText, StoreCopy, StorePaste, Supplement, Fail,
                store, history
  <2>. QED BY <2>1, <2>2
<1>2. PICK c : c.op \notin Locking /\ call' = [call EXCEPT ![p] = c]
  <2>1. NoCall.op \notin Locking
    BY DEF NoCall, Locking
  <2>2. ASSUME NEW term \in Copied, NEW text \in Texts, CopyText(p, term, text)
        PROVE  \E c : c.op \notin Locking /\ call' = [call EXCEPT ![p] = c]
    <3> DEFINE c == [op |-> "copy", term |-> term, text |-> text, task |-> bound[term]]
    <3>1. call' = [call EXCEPT ![p] = c]
      BY <2>2 DEF CopyText
    <3>2. c.op \notin Locking
      BY DEF Locking
    <3> HIDE DEF c
    <3>. QED BY <3>1, <3>2
  <2>3. ASSUME NEW e \in editors, NEW text \in Texts, PasteText(p, e[1], text, e[2])
        PROVE  \E c : c.op \notin Locking /\ call' = [call EXCEPT ![p] = c]
    <3>1. PICK i, s : call' = [call EXCEPT ![p] =
                        [op |-> "paste", term |-> e[1], copy |-> i, source |-> s.source,
                         draft |-> e[2]]]
      BY <2>3 DEF PasteText
    <3> DEFINE c == [op |-> "paste", term |-> e[1], copy |-> i, source |-> s.source,
                     draft |-> e[2]]
    <3>2. c.op \notin Locking
      BY DEF Locking
    <3>3. call' = [call EXCEPT ![p] = c]
      BY <3>1
    <3> HIDE DEF c
    <3>. QED BY <3>2, <3>3
  <2>4. ASSUME StoreCopy(p) \/ StorePaste(p) \/ Supplement(p) \/ Fail(p)
        PROVE  call' = [call EXCEPT ![p] = NoCall]
    BY <2>4 DEF StoreCopy, StorePaste, Supplement, Fail, Finish
  <2>. QED BY <2>1, <2>2, <2>3, <2>4
<1>3. RequestsOK'
  BY <1>1, <1>2, DriftRequests
<1>4. RowsOK'
  <2>1. CASE StorePaste(p)
    <3>1. PICK r : /\ r = Row(call[p].term, call[p].copy, call[p].source,
                                call[p].draft, None)
                   /\ rows' \subseteq rows \cup {r}
      BY <2>1 DEF StorePaste, WithRow
    <3>2. r = Row(r.term, r.copy, r.source, r.draft, r.pin) /\ r.pin = None
      BY <3>1 DEF Row
    <3>. QED BY <1>1, <3>1, <3>2, DriftGrows, RowsStayOK
  <2>2. CASE rows' = rows
    BY <1>1, <2>2, DriftGrows, SameRowsStayOK
  <2>. QED BY <2>1, <2>2 DEF CopyText, StoreCopy, PasteText, Supplement, Fail, store
<1>. QED BY <1>1, <1>3, <1>4, DriftWorld

LEMMA OtherStep ==
  ASSUME HandoffInv,
         \/ \E e \in editors : Cancel(e[1], e[2])
         \/ \E t \in Ids : FinishGoal(t)
         \/ UNCHANGED handoffVars
  PROVE  HandoffInv'
<1> USE DEF HandoffInv
<1>1. Drifts /\ call' = call /\ rows' \subseteq rows
  BY DEF Drifts, Cancel, FinishGoal, handoffVars, store, history
<1>2. RequestsOK'
  BY <1>1, SameRequests
<1>. QED BY <1>1, <1>2, DriftWorld, DriftGrows, SameRowsStayOK

-----------------------------------------------------------------------------
\* Submissions and registrations.

LEMMA NothingGrows ==
  ASSUME WorldOK, UNCHANGED <<tasks, bound, maker, accepted, editors>>
  PROVE  Drifts /\ WorldOK' /\ WorldGrows
<1>1. Drifts
  BY DEF Drifts
<1>. QED BY <1>1, DriftWorld, DriftGrows

LEMMA OthersUnlocked ==
  ASSUME RequestsOK, NEW p \in Calls, call[p].op \in Locking \/ Unlocked
  PROVE  \A q \in Calls : q # p => call[q].op \notin Locking
BY DEF RequestsOK, Locking, Unlocked

\* What a call does next, in the same record.
LEMMA SubmitRecord ==
  ASSUME NEW c, NEW s,
         c = [op |-> "submit", step |-> c.step, term |-> c.term, draft |-> c.draft,
              copy |-> c.copy, source |-> c.source, task |-> c.task]
  PROVE  [c EXCEPT !.step = s] =
           [op |-> "submit", step |-> s, term |-> c.term, draft |-> c.draft,
            copy |-> c.copy, source |-> c.source, task |-> c.task]
OBVIOUS

LEMMA RegisterRecord ==
  ASSUME NEW c, NEW s,
         c = [op |-> "register", step |-> c.step, term |-> c.term, task |-> c.task,
              draft |-> Untracked]
  PROVE  [c EXCEPT !.step = s] =
           [op |-> "register", step |-> s, term |-> c.term, task |-> c.task,
            draft |-> Untracked]
OBVIOUS

\* A submission stays aimed while it advances, a registration what it is.
LEMMA AdvanceKeeps ==
  ASSUME WorldOK, RequestsOK, NEW p \in Calls, call[p].op \in Locking,
         call[p].op = "submit" => call[p].step \in AimedSteps,
         NEW s \in AimedSteps, Advance(p, s),
         UNCHANGED <<tasks, bound, maker, accepted, editors>>
  PROVE  RequestsOK' /\ WorldOK' /\ WorldGrows
<1>1. PICK b : b = call[p]
  OBVIOUS
<1>2. CallOK(b) /\ b.op \in Locking
  BY <1>1 DEF RequestsOK
<1>3. s # "create"
  BY DEF AimedSteps
<1>4. PICK c : call' = [call EXCEPT ![p] = c] /\ c = [b EXCEPT !.step = s]
  <2> DEFINE c == [b EXCEPT !.step = s]
  <2>1. call' = [call EXCEPT ![p] = c]
    BY <1>1 DEF Advance
  <2> HIDE DEF c
  <2>. QED BY <2>1 DEF c
<1>5. CASE b.op = "submit"
  <2>1. SubmitOK(b) /\ Aimed(b)
    BY <1>1, <1>2, <1>5 DEF CallOK, SubmitOK
  <2>2. c = [op |-> "submit", step |-> s, term |-> b.term, draft |-> b.draft,
             copy |-> b.copy, source |-> b.source, task |-> b.task]
    BY <1>4, <2>1, SubmitRecord DEF SubmitOK
  <2>3. c.op = "submit" /\ c.step = s /\ c.term = b.term /\ c.draft = b.draft /\ c.task = b.task
    BY <2>2
  <2>4. Aimed(c)'
    BY <2>1, <2>3 DEF Aimed, Known, MadeAt, MadeBy
  <2>5. SubmitOK(c)'
    <3>1. c = [op |-> "submit", step |-> c.step, term |-> c.term, draft |-> c.draft,
               copy |-> c.copy, source |-> c.source, task |-> c.task]
      BY <2>2
    <3>2. c.term \in Terminals /\ c.draft \in Drafts
      BY <2>1, <2>3 DEF SubmitOK
    <3>. QED BY <1>3, <2>3, <2>4, <3>1, <3>2 DEF SubmitOK
  <2>6. CallOK(c)'
    BY <2>3, <2>5 DEF CallOK
  <2>. QED BY <1>1, <1>2, <1>4, <2>6, OthersUnlocked, LockedRequests, NothingGrows
<1>6. CASE b.op = "register"
  <2>1. RegisterOK(b)
    BY <1>2, <1>6 DEF CallOK
  <2>2. c = [op |-> "register", step |-> s, term |-> b.term, task |-> b.task,
             draft |-> Untracked]
    BY <1>4, <2>1, RegisterRecord DEF RegisterOK
  <2>3. c.op = "register" /\ c.task = b.task
    BY <2>2
  <2>4. RegisterOK(c)'
    <3>1. c = [op |-> "register", step |-> c.step, term |-> c.term, task |-> c.task,
               draft |-> Untracked]
      BY <2>2
    <3>. QED BY <2>1, <2>3, <3>1 DEF RegisterOK
  <2>5. CallOK(c)'
    BY <2>3, <2>4 DEF CallOK
  <2>. QED BY <1>1, <1>2, <1>4, <2>5, OthersUnlocked, LockedRequests, NothingGrows
<1>. QED BY <1>2, <1>5, <1>6 DEF Locking

\* What a submission or a registration is for is a goal of the drafts it takes.
LEMMA TaskIsGoal ==
  ASSUME WorldOK, RequestsOK, NEW p \in Calls, call[p].op \in Locking,
         call[p].op = "submit" => call[p].step \in AimedSteps,
         NEW d, call[p].draft = Untracked \/ d = call[p].draft
  PROVE  call[p].task \in Goals(d)
<1>1. PICK c : c = call[p] /\ CallOK(c)
  BY DEF RequestsOK
<1>2. CASE c.op = "submit"
  <2>1. c.draft \in Drafts /\ c.task \in accepted[c.draft] /\ c.task \in Ids
    BY <1>1, <1>2 DEF CallOK, SubmitOK, Aimed, Known
  <2>2. c.draft \in Drafts \cap {d, Untracked}
    BY <1>1, <2>1
  <2>. QED BY <1>1, <2>1, <2>2 DEF Goals
<1>3. CASE c.op = "register"
  BY <1>1, <1>3 DEF CallOK, RegisterOK, Goals
<1>. QED BY <1>1, <1>2, <1>3 DEF Locking

LEMMA PinStep ==
  ASSUME HandoffInv, NEW p \in Calls, Pin(p)
  PROVE  HandoffInv'
<1> USE DEF HandoffInv
<1>1. /\ call[p].op \in Locking /\ call[p].step = "pin"
      /\ UNCHANGED <<tasks, bound, maker, accepted, editors>>
      /\ Advance(p, "promote") \/ Advance(p, "link")
  BY DEF Pin, history, Locking
<1>2. RequestsOK' /\ WorldOK' /\ WorldGrows
  BY <1>1, AdvanceKeeps DEF AimedSteps
<1>3. RowsOK'
  <2>1. CASE rows' = rows
    BY <1>2, <2>1, SameRowsStayOK
  <2>2. CASE rows' = {IF Mine(call[p], r) /\ r.pin = None
                      THEN [r EXCEPT !.pin = call[p].task] ELSE r : r \in rows}
    <3>1. ASSUME NEW r \in rows, Mine(call[p], r), NEW q, q = [r EXCEPT !.pin = call[p].task]
          PROVE  /\ q = Row(q.term, q.copy, q.source, q.draft, q.pin)
                 /\ q.pin # None => q.pin \in Goals(q.draft)'
      <4>1. q = Row(r.term, r.copy, r.source, r.draft, call[p].task)
        BY <3>1 DEF RowsOK, Row
      <4>2. /\ q.pin = call[p].task /\ q.draft = r.draft
            /\ q = Row(q.term, q.copy, q.source, q.draft, q.pin)
        BY <4>1 DEF Row
      <4>3. q.pin \in Goals(q.draft)
        BY <1>1, <3>1, <4>2, TaskIsGoal DEF Mine, AimedSteps
      <4>. QED BY <1>2, <4>2, <4>3, GoalsGrow
    <3>2. \A q \in rows' : q \in rows
             \/ \E r \in rows : Mine(call[p], r) /\ q = [r EXCEPT !.pin = call[p].task]
      BY <2>2
    <3>. QED BY <1>2, <3>1, <3>2, RowsStayOK
  <2>. QED BY <2>1, <2>2 DEF Pin
<1>. QED BY <1>2, <1>3

LEMMA PromoteStep ==
  ASSUME HandoffInv, NEW p \in Calls, Promote(p)
  PROVE  HandoffInv'
<1> USE DEF HandoffInv
<1>1. /\ call[p].op \in Locking /\ call[p].step = "promote"
      /\ UNCHANGED <<tasks, bound, maker, accepted, editors>>
      /\ Advance(p, "link") /\ rows' \subseteq rows
  BY DEF Promote, history, Locking
<1>2. RequestsOK' /\ WorldOK' /\ WorldGrows
  BY <1>1, AdvanceKeeps DEF AimedSteps
<1>. QED BY <1>1, <1>2, SameRowsStayOK

LEMMA LinkStep ==
  ASSUME HandoffInv, NEW p \in Calls, Link(p)
  PROVE  HandoffInv'
<1> USE DEF HandoffInv
<1>1. PICK r : /\ r = Row(call[p].term, call[p].copy, call[p].source,
                            call[p].draft, call[p].task)
               /\ rows' \subseteq rows \cup {r}
  BY DEF Link, WithRow
<1>2. /\ call[p].op \in Locking /\ call[p].step = "link"
      /\ UNCHANGED <<tasks, bound, maker, accepted, editors>>
      /\ Advance(p, "bind")
  BY DEF Link, history, Locking
<1>3. RequestsOK' /\ WorldOK' /\ WorldGrows
  BY <1>2, AdvanceKeeps DEF AimedSteps
<1>4. /\ r = Row(r.term, r.copy, r.source, r.draft, r.pin)
      /\ r.pin = call[p].task /\ r.draft = call[p].draft
  BY <1>1 DEF Row
<1>5. r.pin \in Goals(r.draft)
  BY <1>2, <1>4, TaskIsGoal DEF AimedSteps
<1>6. r.pin \in Goals(r.draft)'
  BY <1>3, <1>5, GoalsGrow
<1>7. RowsOK'
  BY <1>1, <1>3, <1>4, <1>6, RowsStayOK
<1>. QED BY <1>3, <1>7

LEMMA SubmitStep ==
  ASSUME HandoffInv, NEW p \in Calls, NEW e \in editors, NEW text,
         Submit(p, e[1], text, e[2])
  PROVE  HandoffInv'
<1> USE DEF HandoffInv
<1>1. PICK i, source :
        /\ Drifts
        /\ call' = [call EXCEPT ![p] =
             [op |-> "submit", step |-> "target", term |-> e[1], draft |-> e[2],
              copy |-> i, source |-> source, task |-> None]]
  <2>1. PICK i \in Matches(text, e[1]) :
          \E s \in IF i = 0 THEN {[source |-> None, tasks |-> tasks, bound |-> bound]}
                   ELSE SourceTask(i) :
            /\ Registered(s)
            /\ call' = [call EXCEPT ![p] =
                 [op |-> "submit", step |-> "target", term |-> e[1], draft |-> e[2],
                  copy |-> i, source |-> s.source, task |-> None]]
    BY DEF Submit
  <2>2. PICK s \in IF i = 0 THEN {[source |-> None, tasks |-> tasks, bound |-> bound]}
                   ELSE SourceTask(i) :
            /\ Registered(s)
            /\ call' = [call EXCEPT ![p] =
                 [op |-> "submit", step |-> "target", term |-> e[1], draft |-> e[2],
                  copy |-> i, source |-> s.source, task |-> None]]
    BY <2>1
  <2>3. UNCHANGED <<maker, accepted, editors>>
    BY DEF Submit, history
  <2>4. Drifts
    <3>1. CASE i = 0
      BY <2>2, <2>3, <3>1 DEF Registered, Drifts
    <3>2. CASE i # 0
      BY <2>2, <2>3, <3>2, SourceDrifts
    <3>. QED BY <3>1, <3>2
  <2>. QED BY <2>2, <2>4
<1> DEFINE c == [op |-> "submit", step |-> "target", term |-> e[1], draft |-> e[2],
                 copy |-> i, source |-> source, task |-> None]
<1>2. /\ c.op = "submit" /\ c.step = "target" /\ c.term = e[1] /\ c.draft = e[2]
      /\ c = [op |-> "submit", step |-> c.step, term |-> c.term, draft |-> c.draft,
              copy |-> c.copy, source |-> c.source, task |-> c.task]
      /\ call' = [call EXCEPT ![p] = c]
  BY <1>1
<1> HIDE DEF c
<1>3. e[1] \in Terminals /\ e[2] \in Drafts
  BY DEF WorldOK
<1>4. PICK b : b = c
  OBVIOUS
<1>5. CallOK(b)'
  BY <1>2, <1>3, <1>4 DEF CallOK, SubmitOK, AimedSteps
<1>6. Unlocked /\ rows' = rows
  BY DEF Submit
<1>7. RequestsOK'
  BY <1>2, <1>4, <1>5, <1>6, OthersUnlocked, LockedRequests
<1>. QED BY <1>1, <1>6, <1>7, DriftWorld, DriftGrows, SameRowsStayOK

\* A card is made for a terminal.
LEMMA MakeGrows ==
  ASSUME WorldOK, NEW t \in Free, NEW m,
         tasks' = [tasks EXCEPT ![t] = "open"], maker' = [maker EXCEPT ![t] = m],
         \A d \in Drafts : accepted[d] \subseteq accepted'[d]
  PROVE  WorldGrows
BY DEF WorldOK, WorldGrows, Free

LEMMA MakeWorld ==
  ASSUME WorldOK, NEW t \in Free, NEW term \in Terminals, NEW m,
         \A other \in Terminals, draft \in Drafts : m = <<other, draft>> => other = term,
         tasks' = [tasks EXCEPT ![t] = "open"], bound' = [bound EXCEPT ![term] = t],
         maker' = [maker EXCEPT ![t] = m],
         accepted' \in [Drafts -> SUBSET Ids],
         \A d \in Drafts : accepted[d] \subseteq accepted'[d],
         editors' = editors
  PROVE  WorldOK' /\ WorldGrows /\ Known(t, term)'
<1>1. WorldGrows
  BY MakeGrows
<1>2. /\ t \in Ids
      /\ tasks' \in [Ids -> {"none", "open", "finished"}]
      /\ bound' \in [Terminals -> Ids \cup {None}]
      /\ maker' = [u \in Ids |-> maker'[u]]
      /\ maker'[t] = m /\ tasks'[t] = "open" /\ bound'[term] = t
      /\ \A x \in Terminals : x # term => bound'[x] = bound[x]
      /\ \A u \in Ids : u # t => tasks'[u] = tasks[u] /\ maker'[u] = maker[u]
  BY DEF WorldOK, Free
<1>3. Known(t, term)'
  BY <1>2 DEF Known, MadeAt, MadeBy
<1>4. ASSUME NEW x \in Terminals, bound'[x] # None
      PROVE  Known(bound[x], x)'
  <2>1. PICK u : u = bound'[x]
    OBVIOUS
  <2>2. CASE x = term
    BY <1>2, <1>3, <2>1, <2>2 DEF Known, MadeAt, MadeBy
  <2>3. CASE x # term
    <3>1. Known(u, x)
      BY <1>2, <1>4, <2>1, <2>3 DEF WorldOK
    <3>2. Known(u, x)'
      BY <1>1, <3>1, KnownStays
    <3>. QED BY <2>1, <3>2 DEF Known, MadeAt, MadeBy
  <2>. QED BY <2>2, <2>3
<1>5. \A u \in Free' : maker'[u] = Nobody
  BY <1>2 DEF WorldOK, Free
<1>. QED BY <1>1, <1>2, <1>3, <1>4, <1>5 DEF WorldOK

LEMMA RegisterStep ==
  ASSUME HandoffInv, NEW p \in Calls, NEW term \in Agents,
         Register(p, term)
  PROVE  HandoffInv'
<1> USE DEF HandoffInv
<1>1. PICK t \in Free :
        /\ tasks' = [tasks EXCEPT ![t] = "open"] /\ bound' = [bound EXCEPT ![term] = t]
        /\ maker' = [maker EXCEPT ![t] = ByAgent]
        /\ call' = [call EXCEPT ![p] =
             [op |-> "register", step |-> "pin", term |-> term, task |-> t,
              draft |-> Untracked]]
        /\ UNCHANGED <<rows, accepted, editors>> /\ Unlocked
  BY FreshIsFree DEF Register, BoundTo
<1>2. WorldOK' /\ WorldGrows
  <2>1. term \in Terminals
    BY HandoffConstants DEF HandoffConstants
  <2>2. \A other \in Terminals, draft \in Drafts : ByAgent # <<other, draft>>
    BY MakersDiffer
  <2>3. accepted' \in [Drafts -> SUBSET Ids] /\ \A d \in Drafts : accepted[d] \subseteq accepted'[d]
    BY <1>1 DEF WorldOK
  <2>4. PICK m : m = ByAgent
    OBVIOUS
  <2>5. \A other \in Terminals, draft \in Drafts : m = <<other, draft>> => other = term
    BY <2>2, <2>4
  <2>6. /\ tasks' = [tasks EXCEPT ![t] = "open"] /\ bound' = [bound EXCEPT ![term] = t]
        /\ maker' = [maker EXCEPT ![t] = m] /\ editors' = editors
    BY <1>1, <2>4
  <2>. QED BY <2>1, <2>3, <2>5, <2>6, MakeWorld
<1> DEFINE c == [op |-> "register", step |-> "pin", term |-> term, task |-> t,
                 draft |-> Untracked]
<1>3. /\ c.op = "register" /\ c.task = t
      /\ c = [op |-> "register", step |-> c.step, term |-> c.term, task |-> c.task,
              draft |-> Untracked]
      /\ call' = [call EXCEPT ![p] = c]
  BY <1>1
<1> HIDE DEF c
<1>4. t \in Ids /\ maker'[t] = ByAgent
  BY <1>1 DEF WorldOK, Free
<1>5. CallOK(c)'
  BY <1>3, <1>4 DEF CallOK, RegisterOK
<1>6. RequestsOK'
  BY <1>1, <1>3, <1>5, OthersUnlocked, LockedRequests
<1>7. RowsOK'
  BY <1>1, <1>2, SameRowsStayOK
<1>. QED BY <1>2, <1>6, <1>7

LEMMA FindTargetStep ==
  ASSUME HandoffInv, NEW p \in Calls, FindTarget(p)
  PROVE  HandoffInv'
<1> USE DEF HandoffInv
<1>1. PICK b : b = call[p] /\ b.op = "submit" /\ SubmitOK(b)
  BY DEF FindTarget, RequestsOK, CallOK
<1>2. PICK t : t = TargetOf(b.term)
  OBVIOUS
<1>3. /\ UNCHANGED <<tasks, bound, rows, maker, editors>>
      /\ accepted' = IF t = None THEN accepted
                     ELSE [accepted EXCEPT ![b.draft] = @ \cup {t}]
  BY <1>1, <1>2 DEF FindTarget, store
<1>4. PICK s : s = IF t = None THEN "create" ELSE "pin"
  OBVIOUS
<1> DEFINE c == [b EXCEPT !.task = t, !.step = s]
<1>5. call' = [call EXCEPT ![p] = c]
  BY <1>1, <1>2, <1>4 DEF FindTarget
<1>6. c = [op |-> "submit", step |-> s, term |-> b.term, draft |-> b.draft,
           copy |-> b.copy, source |-> b.source, task |-> t]
  <2>1. b = [op |-> "submit", step |-> b.step, term |-> b.term, draft |-> b.draft,
             copy |-> b.copy, source |-> b.source, task |-> b.task]
    BY <1>1 DEF SubmitOK
  <2> DEFINE b1 == [b EXCEPT !.task = t]
  <2>2. b1 = [op |-> "submit", step |-> b.step, term |-> b.term, draft |-> b.draft,
              copy |-> b.copy, source |-> b.source, task |-> t]
    BY <2>1
  <2> HIDE DEF b1
  <2>3. [b1 EXCEPT !.step = s] =
          [op |-> "submit", step |-> s, term |-> b.term, draft |-> b.draft,
           copy |-> b.copy, source |-> b.source, task |-> t]
    BY <2>2
  <2>. QED BY <2>3 DEF b1
<1> HIDE DEF c
<1>7. PICK d : d = c
  OBVIOUS
<1>8. /\ d.op = "submit" /\ d.step = s /\ d.term = b.term /\ d.draft = b.draft /\ d.task = t
      /\ d = [op |-> "submit", step |-> d.step, term |-> d.term, draft |-> d.draft,
              copy |-> d.copy, source |-> d.source, task |-> d.task]
  BY <1>6, <1>7
<1>9. b.term \in Terminals /\ b.draft \in Drafts
  BY <1>1 DEF SubmitOK
<1>10. CASE t = None
  <2>1. Alone(d)'
    <3>1. bound[b.term] \notin Open
      BY <1>2, <1>10, HandoffConstants DEF TargetOf, HandoffConstants, Open
    <3>. QED BY <1>3, <1>8, <3>1 DEF Alone, Open
  <2>2. CallOK(d)'
    BY <1>4, <1>8, <1>9, <1>10, <2>1 DEF CallOK, SubmitOK, AimedSteps
  <2>3. RequestsOK'
    BY <1>1, <1>5, <1>7, <2>2, OthersUnlocked, LockedRequests DEF Locking
  <2>4. accepted' = accepted
    BY <1>3, <1>10
  <2>. QED BY <1>3, <2>3, <2>4, NothingGrows, SameRowsStayOK
<1>11. CASE t # None
  <2>1. t = bound[b.term] /\ t \in Open
    BY <1>2, <1>11 DEF TargetOf
  <2>2. Known(t, b.term) /\ t \in Ids
    BY <1>9, <1>11, <2>1 DEF WorldOK, Open
  <2>3. /\ accepted' \in [Drafts -> SUBSET Ids]
        /\ \A x \in Drafts : accepted[x] \subseteq accepted'[x]
        /\ t \in accepted'[b.draft]
    BY <1>3, <1>9, <1>11, <2>2 DEF WorldOK
  <2>4. WorldGrows
    BY <1>3, <2>3 DEF WorldGrows
  <2>5. WorldOK'
    <3>1. \A x \in Terminals : bound'[x] # None => Known(bound[x], x)'
      BY <1>3 DEF WorldOK, Known, MadeAt, MadeBy
    <3>2. \A u \in Free' : maker'[u] = Nobody
      BY <1>3 DEF WorldOK, Free
    <3>. QED BY <1>3, <2>3, <3>1, <3>2 DEF WorldOK
  <2>6. Aimed(d)'
    BY <1>8, <2>2, <2>3, <2>4, KnownStays DEF Aimed
  <2>7. CallOK(d)'
    BY <1>4, <1>8, <1>9, <1>11, <2>6 DEF CallOK, SubmitOK, AimedSteps
  <2>8. RequestsOK'
    BY <1>1, <1>5, <1>7, <2>7, OthersUnlocked, LockedRequests DEF Locking
  <2>. QED BY <1>3, <2>4, <2>5, <2>8, SameRowsStayOK
<1>. QED BY <1>10, <1>11

LEMMA MakeCardStep ==
  ASSUME HandoffInv, NEW p \in Calls, MakeCard(p)
  PROVE  HandoffInv'
<1> USE DEF HandoffInv
<1>1. PICK b : b = call[p] /\ b.op = "submit" /\ SubmitOK(b)
  BY DEF MakeCard, RequestsOK, CallOK
<1>2. PICK t \in Free : t = Fresh
  BY FreshIsFree DEF MakeCard
<1>3. /\ tasks' = [tasks EXCEPT ![t] = "open"] /\ bound' = [bound EXCEPT ![b.term] = t]
      /\ maker' = [maker EXCEPT ![t] = <<b.term, b.draft>>]
      /\ accepted' = [accepted EXCEPT ![b.draft] = @ \cup {t}]
      /\ UNCHANGED <<rows, editors>>
  BY <1>1, <1>2 DEF MakeCard, BoundTo
<1>4. b.term \in Terminals /\ b.draft \in Drafts /\ t \in Ids
  BY <1>1, <1>2 DEF SubmitOK, Free
<1>5. /\ accepted' \in [Drafts -> SUBSET Ids]
      /\ \A x \in Drafts : accepted[x] \subseteq accepted'[x]
      /\ t \in accepted'[b.draft]
  BY <1>3, <1>4 DEF WorldOK
<1>6. WorldOK' /\ WorldGrows /\ Known(t, b.term)'
  <2>1. \A other \in Terminals, draft \in Drafts :
          <<b.term, b.draft>> = <<other, draft>> => other = b.term
    OBVIOUS
  <2>. QED BY <1>2, <1>3, <1>4, <1>5, <2>1, MakeWorld
<1> DEFINE c == [b EXCEPT !.task = t, !.step = "pin"]
<1>7. call' = [call EXCEPT ![p] = c]
  BY <1>1, <1>2 DEF MakeCard
<1>8. c = [op |-> "submit", step |-> "pin", term |-> b.term, draft |-> b.draft,
           copy |-> b.copy, source |-> b.source, task |-> t]
  <2>1. b = [op |-> "submit", step |-> b.step, term |-> b.term, draft |-> b.draft,
             copy |-> b.copy, source |-> b.source, task |-> b.task]
    BY <1>1 DEF SubmitOK
  <2> DEFINE b1 == [b EXCEPT !.task = t]
  <2>2. b1 = [op |-> "submit", step |-> b.step, term |-> b.term, draft |-> b.draft,
              copy |-> b.copy, source |-> b.source, task |-> t]
    BY <2>1
  <2> HIDE DEF b1
  <2>3. [b1 EXCEPT !.step = "pin"] =
          [op |-> "submit", step |-> "pin", term |-> b.term, draft |-> b.draft,
           copy |-> b.copy, source |-> b.source, task |-> t]
    BY <2>2
  <2>. QED BY <2>3 DEF b1
<1> HIDE DEF c
<1>9. PICK d : d = c
  OBVIOUS
<1>10. /\ d.op = "submit" /\ d.step = "pin" /\ d.term = b.term /\ d.draft = b.draft /\ d.task = t
       /\ d = [op |-> "submit", step |-> d.step, term |-> d.term, draft |-> d.draft,
               copy |-> d.copy, source |-> d.source, task |-> d.task]
  BY <1>8, <1>9
<1>11. Aimed(d)'
  BY <1>5, <1>6, <1>10 DEF Aimed, Known, MadeAt, MadeBy
<1>12. CallOK(d)'
  BY <1>4, <1>10, <1>11 DEF CallOK, SubmitOK
<1>13. RequestsOK'
  BY <1>1, <1>7, <1>9, <1>12, OthersUnlocked, LockedRequests DEF Locking
<1>. QED BY <1>3, <1>6, <1>13, SameRowsStayOK

LEMMA BindStep ==
  ASSUME HandoffInv, NEW p \in Calls, Bind(p)
  PROVE  HandoffInv'
<1> USE DEF HandoffInv
<1>1. /\ call' = [call EXCEPT ![p] = NoCall]
      /\ UNCHANGED <<tasks, rows, maker, accepted, editors>>
      /\ call[p].op \in Locking
  BY DEF Bind, Finish, history, Locking
<1>2. WorldGrows
  BY <1>1 DEF WorldGrows
<1>3. RequestsOK'
  <2>1. PICK c : c = NoCall
    OBVIOUS
  <2>2. c.op = "none"
    BY <2>1 DEF NoCall
  <2>3. CallOK(c)'
    BY <2>2 DEF CallOK
  <2>. QED BY <1>1, <2>1, <2>3, OthersUnlocked, LockedRequests
<1>4. WorldOK'
  <2>1. CASE bound' = bound
    BY <1>1, <2>1, NothingGrows
  <2>2. CASE call[p].op = "submit" /\ call[p].step = "bind"
             /\ bound' = BoundTo(call[p].term, call[p].task)
    <3>1. PICK b : b = call[p] /\ SubmitOK(b) /\ Aimed(b)
      BY <2>2 DEF RequestsOK, CallOK, SubmitOK, AimedSteps
    <3>2. bound' = [bound EXCEPT ![b.term] = b.task]
      BY <2>2, <3>1 DEF BoundTo
    <3>3. b.task \in Ids /\ Known(b.task, b.term)
      BY <3>1 DEF Aimed, Known
    <3>4. bound' \in [Terminals -> Ids \cup {None}]
      BY <3>2, <3>3 DEF WorldOK
    <3>5. ASSUME NEW x \in Terminals, bound'[x] # None
          PROVE  Known(bound'[x], x)
      BY <3>2, <3>3, <3>5 DEF WorldOK
    <3>6. \A x \in Terminals : bound'[x] # None => Known(bound[x], x)'
      BY <1>1, <3>5 DEF Known, MadeAt, MadeBy
    <3>. QED BY <1>1, <3>4, <3>6 DEF WorldOK, Free
  <2>. QED BY <2>1, <2>2 DEF Bind
<1>. QED BY <1>1, <1>2, <1>3, <1>4, SameRowsStayOK

LEMMA HandoffStep ==
  ASSUME HandoffInv, [HandoffNext]_handoffVars
  PROVE  HandoffInv'
<1>1. ASSUME NEW p \in Calls, Handler(p)
      PROVE  HandoffInv'
  <2>1. CASE \/ \E term \in Copied, text \in Texts : CopyText(p, term, text)
             \/ StoreCopy(p)
             \/ \E e \in editors, text \in Texts : PasteText(p, e[1], text, e[2])
             \/ StorePaste(p) \/ Supplement(p) \/ Fail(p)
    BY <2>1, UnlockedStep
  <2>2. CASE \E e \in editors, text \in Texts : Submit(p, e[1], text, e[2])
    BY <2>2, SubmitStep
  <2>3. CASE \E term \in Agents : Register(p, term)
    BY <2>3, RegisterStep
  <2>4. CASE FindTarget(p) \/ MakeCard(p)
    BY <2>4, FindTargetStep, MakeCardStep
  <2>5. CASE Pin(p) \/ Promote(p) \/ Link(p) \/ Bind(p)
    BY <2>5, PinStep, PromoteStep, LinkStep, BindStep
  <2>. QED BY <1>1, <2>1, <2>2, <2>3, <2>4, <2>5 DEF Handler
<1>2. CASE \/ \E e \in editors : Cancel(e[1], e[2])
           \/ \E t \in Ids : FinishGoal(t)
           \/ UNCHANGED handoffVars
  BY <1>2, OtherStep
<1>. QED BY <1>1, <1>2 DEF HandoffNext

LEMMA HandoffInvariance ==
  HandoffSpec => []HandoffInv
<1>1. HandoffInit => HandoffInv
  BY HandoffStart
<1>2. HandoffInv /\ [HandoffNext]_handoffVars => HandoffInv'
  BY HandoffStep
<1>. QED BY <1>1, <1>2, PTL DEF HandoffSpec

-----------------------------------------------------------------------------
\* What was pasted into a draft becomes provenance of no other goal.
THEOREM NoLeaks == HandoffSpec => NoLeak
<1> DEFINE Right(ref) ==
             \/ \E r \in rows : r.source = ref[2] /\ ref[1] \in Goals(r.draft)
             \/ \E p \in Calls :
                  /\ \/ call[p].op = "submit" /\ call[p].task = ref[1]
                     \/ call[p].op = "paste" /\ call[p].draft = Untracked
                  /\ call[p].source = ref[2]
           Proper == \A ref \in refs' \ refs : Right(ref)
<1>1. ASSUME UNCHANGED refs
      PROVE  Proper
  BY <1>1
<1>2. ASSUME NEW p \in Calls, Supplement(p)
      PROVE  Proper
  <2>1. PICK t : /\ call[p].op = "paste" /\ call[p].draft = Untracked
                 /\ refs' = refs \cup {<<t, call[p].source>>}
    BY <1>2 DEF Supplement, Referred
  <2>2. ASSUME NEW ref \in refs' \ refs
        PROVE  call[p].source = ref[2]
    BY <2>1
  <2>. QED BY <2>1, <2>2
<1>3. ASSUME HandoffInv, NEW p \in Calls, Promote(p)
      PROVE  Proper
  <2>1. PICK referred \in SUBSET Listed(call[p]) :
          refs' = refs \cup {<<Goal(call[p], q), q.source>> : q \in referred}
    BY <1>3 DEF Promote, Referred
  <2>2. PICK c : /\ c = call[p] /\ c.op \in Locking /\ CallOK(c)
                 /\ c.step = "promote"
    BY <1>3 DEF Promote, HandoffInv, RequestsOK, Locking
  <2>3. ASSUME NEW r \in Listed(c), r.pin = None
        PROVE  c.task \in Goals(r.draft)
    <3>1. Mine(c, r) /\ r \in rows
      BY <2>3 DEF Listed
    <3>2. call[p].draft = Untracked \/ r.draft = call[p].draft
      BY <2>2, <3>1 DEF Mine
    <3>3. call[p].step \in AimedSteps
      BY <2>2 DEF AimedSteps
    <3>. QED BY <1>3, <2>2, <3>2, <3>3, TaskIsGoal DEF HandoffInv
  <2>4. ASSUME NEW r \in Listed(c)
        PROVE  r \in rows /\ Goal(c, r) \in Goals(r.draft)
    BY <1>3, <2>3 DEF Listed, Goal, HandoffInv, RowsOK
  <2>5. ASSUME NEW ref \in refs' \ refs
        PROVE  Right(ref)
    <3>1. PICK r \in Listed(c) : ref = <<Goal(c, r), r.source>>
      BY <2>1, <2>2, <2>5
    <3>2. r.source = ref[2] /\ ref[1] = Goal(c, r)
      BY <3>1
    <3>. QED BY <2>4, <3>2
  <2>. QED BY <2>5
<1>4. ASSUME NEW p \in Calls, Link(p)
      PROVE  Proper
  <2>1. /\ call[p].op = "submit"
        /\ refs' = refs \/ refs' = refs \cup {<<call[p].task, call[p].source>>}
    BY <1>4 DEF Link, Referred
  <2>2. ASSUME NEW ref \in refs' \ refs
        PROVE  call[p].task = ref[1] /\ call[p].source = ref[2]
    BY <2>1
  <2>. QED BY <2>1, <2>2
<1>5. ASSUME HandoffInv, NEW p \in Calls, Handler(p)
      PROVE  Proper
  BY <1>1, <1>2, <1>3, <1>4, <1>5
  DEF Handler, CopyText, StoreCopy, PasteText, StorePaste, Submit, Register,
      FindTarget, MakeCard, Pin, Bind, Fail, store
<1>6. HandoffInv /\ [HandoffNext]_handoffVars => [Proper]_handoffVars
  BY <1>1, <1>5 DEF HandoffNext, FinishGoal, Cancel
<1>. QED BY <1>6, HandoffInvariance, PTL DEF HandoffSpec, NoLeak

\* One submission makes one card, however often it is reported.
THEOREM OneCard == HandoffSpec => OneCardPerDraft
<1> DEFINE Once ==
             \A t \in Ids : maker[t] = Nobody /\ maker'[t] \in Terminals \X Drafts =>
               \A u \in Open : maker[u] = maker'[t] =>
                 \A term \in Terminals : bound[term] # u
<1>1. ASSUME UNCHANGED maker
      PROVE  Once
  BY <1>1, MakersDiffer
<1>2. ASSUME HandoffInv, NEW p \in Calls, NEW term \in Agents, Register(p, term)
      PROVE  Once
  BY <1>2, MakersDiffer DEF Register, HandoffInv, WorldOK
<1>3. ASSUME HandoffInv, NEW p \in Calls, MakeCard(p)
      PROVE  Once
  <2>1. PICK c : /\ c = call[p] /\ Alone(c)
                 /\ maker' = [maker EXCEPT ![Fresh] = <<c.term, c.draft>>]
                 /\ c.term \in Terminals /\ c.draft \in Drafts
    BY <1>3 DEF MakeCard, HandoffInv, RequestsOK, CallOK, SubmitOK
  <2>2. ASSUME NEW t \in Ids, maker[t] = Nobody, maker'[t] \in Terminals \X Drafts,
               NEW u \in Open, maker[u] = maker'[t], NEW term \in Terminals
        PROVE  bound[term] # u
    <3>1. maker'[t] # Nobody
      BY <2>2, MakersDiffer
    <3>2. maker[u] = <<c.term, c.draft>>
      BY <2>1, <2>2, <3>1 DEF HandoffInv, WorldOK
    <3>3. CASE term = c.term
      BY <2>1, <3>2, <3>3 DEF Alone, MadeBy
    <3>4. CASE term # c.term
      <4>1. MadeBy(u, c.term, c.draft) /\ u # None
        BY <2>2, <3>2, HandoffConstants DEF MadeBy, Open, HandoffConstants
      <4>2. ~Known(u, term)
        BY <2>1, <3>4, <4>1 DEF Known, MadeAt
      <4>. QED BY <1>3, <4>1, <4>2 DEF HandoffInv, WorldOK
    <3>. QED BY <3>3, <3>4
  <2>. QED BY <2>2
<1>4. ASSUME HandoffInv, NEW p \in Calls, Handler(p)
      PROVE  Once
  BY <1>1, <1>2, <1>3, <1>4
  DEF Handler, CopyText, StoreCopy, PasteText, StorePaste, Supplement, Submit,
      FindTarget, Pin, Promote, Link, Bind, Fail, history
<1>5. HandoffInv /\ [HandoffNext]_handoffVars => [Once]_handoffVars
  BY <1>1, <1>4 DEF HandoffNext, FinishGoal, Cancel, history
<1>. QED BY <1>5, HandoffInvariance, PTL DEF HandoffSpec, OneCardPerDraft
=============================================================================
