------------------------------ MODULE Handoff ------------------------------
(***************************************************************************)
(* Provenance by copy and paste (server/terminal_handoff.go,               *)
(* server/agent_register_task.go, controlplane/handoff.go): text copied in *)
(* one terminal and pasted into another waits as a row until the goal is   *)
(* submitted there; then it becomes a source reference of the goal's task. *)
(*                                                                         *)
(* Submissions, registrations and cancellations hold handoffSubmitMu,      *)
(* pastes and copies do not. A step is one session of the JSON store or    *)
(* one statement of SQLite, each of which may fail; consecutive statements *)
(* on one row are one step that may stop after any of them.                *)
(***************************************************************************)
EXTENDS Naturals, Sequences, FiniteSets

CONSTANTS
  Terminals,  \* terminals of one user
  Texts,      \* what can be copied
  Copied,     \* terminals that text is copied from
  Agents,     \* terminals whose agents register tasks
  Starts,     \* records [editors, finished]: drafts of browsers as <<terminal, draft>>,
              \* Untracked for old clients, and tasks finished before the run
  Calls,      \* requests under way at once
  Ids,        \* tasks that can ever be made, as numbers
  MaxCopies   \* bound on copy events

None == 0

ASSUME HandoffConstants ==
  /\ None \notin Ids
  /\ Agents \subseteq Terminals
  /\ \A start \in Starts : \A e \in start.editors : e[1] \in Terminals

VARIABLES
  tasks,      \* task -> "none", "open" or "finished"
  bound,      \* terminal -> the task whose sessionIds hold it
  copies,     \* terminal_copies, oldest first
  rows,       \* pending_handoffs that are not promoted
  refs,       \* task_source_refs: <<target task, source task>>
  call,       \* the requests under way
  accepted,   \* history: draft -> tasks its submissions were accepted for
  maker,      \* history: task -> the draft <<terminal, draft>> whose submission
              \* made it, or who else
  editors     \* the start that was chosen. Constant.

store == <<tasks, bound, rows, refs, copies>>
history == <<accepted, maker, editors>>
handoffVars == <<store, call, history>>

Drafts == {e[2] : e \in UNION {start.editors : start \in Starts}}
Untracked == ""
Nobody == <<>>
ByAgent == <<"agent">>
NoCall == [op |-> "none"]
Open == {t \in Ids : tasks[t] = "open"}
Free == {t \in Ids : tasks[t] = "none"}
Fresh == CHOOSE t \in Free : TRUE

\* bindTaskSessionExclusive, and AddSourceRef for all pairs of S
BoundTo(term, t) == [bound EXCEPT ![term] = t]
Referred(S) == refs \cup S

\* The newest copy of a text that the pasting terminal has not made itself;
\* 0 is none. The window of 30 minutes may have closed on any of them.
Matches(text, term) ==
  LET found == {i \in DOMAIN copies : copies[i].text = text /\ copies[i].term # term}
  IN {0} \cup {i \in found : \A j \in found : j <= i}

\* registerTaskForTerminalPersisted: the task of the copy, or of the terminal it
\* came from, or a new one; None if that terminal has been closed meanwhile.
SourceTask(i) ==
  LET known == IF copies[i].task # None THEN copies[i].task ELSE bound[copies[i].term]
      found(t) == [source |-> t, tasks |-> tasks, bound |-> bound]
      made(t) == [source |-> t, tasks |-> [tasks EXCEPT ![t] = "open"],
                  bound |-> BoundTo(copies[i].term, t)]
  IN {found(t) : t \in {known} \ {None}}
     \cup {made(t) : t \in {u \in Free : known = None /\ u = Fresh}}
     \cup {found(t) : t \in {None} \cap {copies[i].task}}

Registered(s) == tasks' = s.tasks /\ bound' = s.bound

\* handoffTargetTask. It asks the agent's generation next, which names a task
\* only when the terminal is bound already, and then the session's metadata,
\* which name the task of a worker's terminal: those are left out.
TargetOf(term) == IF bound[term] \in Open THEN bound[term] ELSE None

\* Tasks that draft d was submitted for, that an old client submitted to, which
\* knows no drafts, or that an agent registered itself.
Goals(d) ==
  {t \in Ids : \/ maker[t] = ByAgent
              \/ \E e \in Drafts \cap {d, Untracked} : t \in accepted[e]}

\* The row of one paste event and draft; a repetition meets the one that waits.
Row(term, i, source, draft, pin) ==
  [term |-> term, copy |-> i, source |-> source, draft |-> draft, pin |-> pin]
SameRow(r, q) == r.term = q.term /\ r.copy = q.copy /\ r.draft = q.draft

WithRow(S, r) == IF \E q \in S : SameRow(q, r) THEN S ELSE S \cup {r}

\* Faulty variant: submissions are not serialized.
SubmitsAtOnce == TRUE

Unlocked == \A p \in Calls : call[p].op \notin {"submit", "register"}

Advance(p, step) == call' = [call EXCEPT ![p].step = step]
Finish(p) == call' = [call EXCEPT ![p] = NoCall]

HandoffInit ==
  /\ \E start \in Starts :
       /\ editors = start.editors
       /\ tasks = [t \in Ids |-> IF t \in start.finished THEN "finished" ELSE "none"]
  /\ bound = [term \in Terminals |-> None]
  /\ copies = <<>> /\ rows = {} /\ refs = {}
  /\ call = [p \in Calls |-> NoCall]
  /\ accepted = [d \in Drafts |-> {}]
  /\ maker = [t \in Ids |-> Nobody]

-----------------------------------------------------------------------------
\* Copies and pastes.

\* handleHandoffCopy reads the terminal's task ...
CopyText(p, term, text) ==
  /\ call[p] = NoCall /\ Len(copies) < MaxCopies
  /\ call' = [call EXCEPT ![p] = [op |-> "copy", term |-> term, text |-> text,
                                  task |-> bound[term]]]
  /\ UNCHANGED <<store, history>>

\* ... and stores the copy.
StoreCopy(p) ==
  /\ call[p].op = "copy" /\ Len(copies) < MaxCopies
  /\ copies' = Append(copies, [term |-> call[p].term, text |-> call[p].text,
                               task |-> call[p].task])
  /\ Finish(p)
  /\ UNCHANGED <<tasks, bound, rows, refs, history>>

\* A browser reports what becomes of a draft in order, and no two share one.
Quiet(draft) == \A p \in Calls : call[p].op = "paste" => call[p].draft # draft
Ended(draft) == draft # Untracked /\ accepted[draft] # {}

PasteText(p, term, text, draft) ==
  /\ call[p] = NoCall /\ ~Ended(draft)
  /\ \E i \in Matches(text, term) \ {0} : \E s \in SourceTask(i) :
       /\ s.source # None /\ Registered(s)
       /\ call' = [call EXCEPT ![p] = [op |-> "paste", term |-> term, copy |-> i,
                                       source |-> s.source, draft |-> draft]]
  /\ UNCHANGED <<copies, rows, refs, history>>

StorePaste(p) ==
  LET c == call[p]
  IN /\ c.op = "paste"
     /\ rows' = WithRow(rows, Row(c.term, c.copy, c.source, c.draft, None))
     /\ Finish(p)
     /\ UNCHANGED <<tasks, bound, copies, refs, history>>

\* supplementSourceRef, for an old client whose terminal has a goal: its
\* agent may be seen, or not.
Supplement(p) ==
  LET c == call[p]
      target == TargetOf(c.term)
  IN /\ c.op = "paste" /\ c.draft = Untracked /\ target \notin {None, c.source}
     /\ refs' = Referred({<<target, c.source>>})
     /\ Finish(p)
     /\ UNCHANGED <<tasks, bound, copies, rows, history>>

\* Faulty variant: a cancelled draft takes submissions that failed with it.
CancelEverything(term, draft) ==
  /\ Unlocked /\ Quiet(draft) /\ draft # Untracked
  /\ rows' = {r \in rows : ~(r.term = term /\ r.draft = draft)}
  /\ UNCHANGED <<tasks, bound, copies, refs, call, history>>

\* handleHandoffCancel
Cancel(term, draft) ==
  /\ Unlocked /\ Quiet(draft) /\ draft # Untracked
  /\ rows' = {r \in rows : ~(r.term = term /\ r.draft = draft /\ r.pin = None)}
  /\ UNCHANGED <<tasks, bound, copies, refs, call, history>>

-----------------------------------------------------------------------------
\* A submission, or a registration by the agent itself.

Submit(p, term, text, draft) ==
  /\ call[p] = NoCall /\ Unlocked /\ Quiet(draft)
  /\ \E i \in Matches(text, term) :
       \E s \in IF i = 0 THEN {[source |-> None, tasks |-> tasks, bound |-> bound]}
                ELSE SourceTask(i) :
         /\ Registered(s)
         /\ call' = [call EXCEPT ![p] =
              [op |-> "submit", step |-> "target", term |-> term, draft |-> draft,
               copy |-> i, source |-> s.source, task |-> None]]
  /\ UNCHANGED <<copies, rows, refs, history>>

\* The goal that the terminal has, or a card for a new one.
FindTarget(p) ==
  /\ call[p].op = "submit" /\ call[p].step = "target"
  /\ LET t == TargetOf(call[p].term)
     IN /\ call' = [call EXCEPT ![p].task = t,
                                ![p].step = IF t = None THEN "create" ELSE "pin"]
        /\ accepted' = IF t = None THEN accepted
                       ELSE [accepted EXCEPT ![call[p].draft] = @ \cup {t}]
  /\ UNCHANGED <<store, maker, editors>>

MakeCard(p) ==
  /\ call[p].op = "submit" /\ call[p].step = "create" /\ Free # {}
  /\ tasks' = [tasks EXCEPT ![Fresh] = "open"]
  /\ bound' = BoundTo(call[p].term, Fresh)
  /\ call' = [call EXCEPT ![p].task = Fresh, ![p].step = "pin"]
  /\ accepted' = [accepted EXCEPT ![call[p].draft] = @ \cup {Fresh}]
  /\ maker' = [maker EXCEPT ![Fresh] = <<call[p].term, call[p].draft>>]
  /\ UNCHANGED <<copies, rows, refs, editors>>

\* handleAgentRegisterTask: every registration makes a card.
Register(p, term) ==
  /\ call[p] = NoCall /\ Unlocked /\ Free # {}
  /\ tasks' = [tasks EXCEPT ![Fresh] = "open"]
  /\ bound' = BoundTo(term, Fresh)
  /\ maker' = [maker EXCEPT ![Fresh] = ByAgent]
  /\ call' = [call EXCEPT ![p] = [op |-> "register", step |-> "pin", term |-> term,
                                  task |-> Fresh, draft |-> Untracked]]
  /\ UNCHANGED <<copies, rows, refs, accepted, editors>>

\* A registration takes every draft; so does a submission of an old client.
Mine(c, r) == r.term = c.term /\ (c.draft = Untracked \/ r.draft = c.draft)

\* Faulty variant: a submission pins the drafts of others as well.
PinAll(p) ==
  /\ call[p].op \in {"submit", "register"} /\ call[p].step = "pin"
  /\ rows' = {IF r.term = call[p].term /\ r.pin = None
              THEN [r EXCEPT !.pin = call[p].task] ELSE r : r \in rows}
  /\ Advance(p, "promote")
  /\ UNCHANGED <<tasks, bound, copies, refs, history>>

\* SetPendingIntendedTask; if it fails nothing is promoted.
Pin(p) ==
  /\ call[p].op \in {"submit", "register"} /\ call[p].step = "pin"
  /\ \/ /\ rows' = {IF Mine(call[p], r) /\ r.pin = None
                    THEN [r EXCEPT !.pin = call[p].task] ELSE r : r \in rows}
        /\ Advance(p, "promote")
     \/ UNCHANGED rows /\ Advance(p, "link")
  /\ UNCHANGED <<tasks, bound, copies, refs, history>>

\* promotePendingHandoffs: first what earlier submissions have left, each for
\* its own task, then what is this one's; a row may arrive between the two
\* statements. done tells how far each got: the reference, and the mark.
Goal(c, r) == IF r.pin # None THEN r.pin ELSE c.task
Listed(c) ==
  {r \in rows : r.term = c.term /\ (r.pin # None \/ Mine(c, r))}
Promote(p) ==
  /\ call[p].op \in {"submit", "register"} /\ call[p].step = "promote"
  /\ LET c == call[p]
     IN \E referred \in SUBSET {r \in Listed(c) : Goal(c, r) # r.source} :
          \E marked \in SUBSET referred :
            /\ refs' = Referred({<<Goal(c, q), q.source>> : q \in referred})
            /\ rows' = rows \ marked
  /\ Advance(p, "link")
  /\ UNCHANGED <<tasks, bound, copies, history>>

\* linkSourceWithRecovery: the submitted text itself, pinned before it is
\* referred to. The row it finds may be one that waited; it stops anywhere.
Link(p) ==
  LET c == call[p]
      own == Row(c.term, c.copy, c.source, c.draft, c.task)
      kept == WithRow(rows, own)
  IN /\ c.op = "submit" /\ c.step = "link"
     /\ \/ UNCHANGED <<rows, refs>>
        \/ c.source # None /\ rows' = kept /\ UNCHANGED refs
        \/ /\ c.source \notin {None, c.task}
           /\ refs' = Referred({<<c.task, c.source>>})
           /\ rows' \in {kept, {r \in kept : ~SameRow(r, own)}}
     /\ Advance(p, "bind")
     /\ UNCHANGED <<tasks, bound, copies, history>>

\* The last step binds the terminal once more; the store may refuse.
Bind(p) ==
  LET c == call[p]
  IN /\ \/ c.op = "submit" /\ c.step = "bind" /\ bound' = BoundTo(c.term, c.task)
        \/ c.op = "register" /\ c.step = "link" /\ UNCHANGED bound
     /\ Finish(p)
     /\ UNCHANGED <<tasks, copies, rows, refs, history>>

\* A request ends with an error, or the server stops under all of them.
Fail(p) ==
  /\ call[p] # NoCall
  /\ Finish(p)
  /\ UNCHANGED <<store, history>>

-----------------------------------------------------------------------------
\* The world: goals end, terminals close, links are undone.

FinishGoal(t) ==
  /\ t \in Open
  /\ tasks' = [tasks EXCEPT ![t] = "finished"]
  /\ UNCHANGED <<bound, copies, rows, refs, call, history>>

Handler(p) ==
  \/ \E term \in Copied, text \in Texts : CopyText(p, term, text)
  \/ StoreCopy(p)
  \/ \E e \in editors, text \in Texts : PasteText(p, e[1], text, e[2])
  \/ StorePaste(p) \/ Supplement(p)
  \/ \E e \in editors, text \in Texts : Submit(p, e[1], text, e[2])
  \/ \E term \in Agents : Register(p, term)
  \/ FindTarget(p) \/ MakeCard(p) \/ Pin(p) \/ Promote(p) \/ Link(p) \/ Bind(p)
  \/ Fail(p)

HandoffNext ==
  \/ \E p \in Calls : Handler(p)
  \/ \E e \in editors : Cancel(e[1], e[2])
  \/ \E t \in Ids : FinishGoal(t)

HandoffSpec == HandoffInit /\ [][HandoffNext]_handoffVars

-----------------------------------------------------------------------------
\* Properties.

\* A row that was pinned to a task by a submission that then failed is not
\* lost: it stays until that task has the reference, or another source for the
\* same text. Whatever other drafts, registrations and cancellations of the
\* terminal do meanwhile, only a later submission of the very draft that was
\* pinned can take the row away from its task, and only for a reference.
Recovered(r) ==
  \/ \E q \in rows' : SameRow(q, r) /\ q.pin = r.pin
  \/ <<r.pin, r.source>> \in refs'
  \/ \E p \in Calls : /\ call[p].op = "submit" /\ call[p].task = r.pin
                       /\ <<r.pin, call[p].source>> \in refs'
Resubmitted(r) ==
  \E p \in Calls : /\ call[p].op = "submit" /\ call[p].draft = r.draft
                    /\ <<call[p].task, call[p].source>> \in refs'
PinnedIsKept ==
  [][\A r \in rows : r.pin # None => Recovered(r) \/ Resubmitted(r)]_handoffVars

\* What was pasted into a draft becomes provenance of the goals that this
\* draft was submitted for, or of one that an old client's submission or the
\* agent's registration made of all that waited, and of no other goal of the
\* terminal.
NoLeak ==
  [][\A ref \in refs' \ refs :
       \/ \E r \in rows : r.source = ref[2] /\ ref[1] \in Goals(r.draft)
       \/ \E p \in Calls :
            /\ \/ call[p].op = "submit" /\ call[p].task = ref[1]
               \/ call[p].op = "paste" /\ call[p].draft = Untracked
            /\ call[p].source = ref[2]]_handoffVars

\* Reports of one submission agree on one card, also when they are repeated
\* or arrive together: another one is made only when the terminal has left
\* the first, or its goal is finished.
OneCardPerDraft ==
  [][\A t \in Ids : maker[t] = Nobody /\ maker'[t] \in Terminals \X Drafts =>
       \A u \in Open : maker[u] = maker'[t] => \A term \in Terminals : bound[term] # u]_handoffVars
=============================================================================
