-------------------------- MODULE TerminalManager --------------------------
(***************************************************************************)
(* Terminal sessions (internal/terminal/manager.go) with the tmux backend: *)
(* a table in memory under one mutex, tmux sessions that outlive the       *)
(* server, and for every session a file and its write-ahead copy.          *)
(*                                                                         *)
(* A step is one critical section, one tmux command or one file operation. *)
(* Left out: PTYs and their sizes, scrolling, cgroups, host admission.     *)
(***************************************************************************)
EXTENDS Naturals, FiniteSets

CONSTANTS
  Sessions,   \* ids that generateID can give; none is given twice
  Calls,      \* requests and loops under way at once
  Names,      \* session names
  Tasks,      \* tasks a session can be bound to
  Default,    \* the name a session gets by itself
  NoTask,
  Fresh,      \* in place of an entry: the id was not given yet
  Absent,     \* in place of an entry: the session is not in the table
  MaxTouches, \* bound on changes of LastActivity
  MaxWrites   \* bound on the clock of UpdatedAt

Entries == [name : Names \cup {Default}, task : Tasks \cup {NoTask}, seen : 0..MaxTouches]

ASSUME TerminalConstants ==
  /\ MaxTouches \in Nat /\ MaxWrites \in Nat
  /\ Fresh # Absent /\ {Fresh, Absent} \cap Entries = {}

VARIABLES
  up,         \* the server runs
  table,      \* Manager.sessions, and which ids were given
  dirty,      \* sessions that the next flush writes
  tmux,       \* sessions that tmux has
  main, wal,  \* <id>.json and <id>.wal.json
  writes,     \* the clock of UpdatedAt
  call,       \* requests and loops
  ended,      \* how often sessionEnded was called since the session was listed
  saved,      \* history: UpdatedAt of the last persist that succeeded while the
              \* session was listed and that no removal followed, or 0
  alone       \* history: sessions no two persists of which ever overlapped

files == <<main, wal, writes>>
history == <<saved, alone>>
vars == <<up, table, dirty, tmux, files, call, ended, history>>

NoFile == [upd |-> 0, of |-> Absent]
NoCall == [op |-> "none", step |-> "none", id |-> "none", todo |-> {}, back |-> "done",
           data |-> NoFile, prev |-> Default]
Listed == {i \in Sessions : table[i] \notin {Fresh, Absent}}
Entry(name, task) == [name |-> name, task |-> task, seen |-> 0]
Started(op, id, step, todo) ==
  [op |-> op, id |-> id, step |-> step, todo |-> todo,
   back |-> IF op \in {"list", "reap"} THEN "next" ELSE "done",
   data |-> NoFile,
   prev |-> IF op = "rename" THEN table[id].name ELSE Default]

At(p, step) == call[p].step = step
Goto(p, step) == call' = [call EXCEPT ![p].step = step]
Begin(p, op, id, step, todo) ==
  /\ up /\ call[p] = NoCall
  /\ call' = [call EXCEPT ![p] = Started(op, id, step, todo)]
Done(p) == call' = [call EXCEPT ![p] = NoCall]

Init ==
  /\ up = TRUE /\ table = [i \in Sessions |-> Fresh] /\ dirty = {} /\ tmux = {}
  /\ main = [i \in Sessions |-> NoFile] /\ wal = main /\ writes = 0
  /\ call = [p \in Calls |-> NoCall]
  /\ ended = [i \in Sessions |-> 0] /\ saved = ended /\ alone = Sessions

-----------------------------------------------------------------------------
\* persistSession: what the table holds is copied under the lock, written
\* without it, and compared with the table again.

\* What the caller does with the result.
NextStep(op, ok) ==
  IF op = "create" THEN IF ok THEN "limit" ELSE "delete"
  ELSE IF op = "flush" THEN IF ok THEN "next" ELSE "remark"
  ELSE IF op = "rename" /\ ~ok THEN "rollback" ELSE "done"
Return(p, ok) ==
  call' = [call EXCEPT ![p].step = NextStep(call[p].op, ok), ![p].data = NoFile]

Writing(q, i) == call[q].id = i /\ call[q].step \in {"wal", "main", "clean", "settle"}

Snapshot(p) ==
  /\ At(p, "snapshot")
  /\ LET i == call[p].id
     IN IF i \in Listed
        THEN /\ call' = [call EXCEPT ![p].step = "wal",
                                     ![p].data = [upd |-> 0, of |-> table[i]]]
             /\ alone' = IF \E q \in Calls : Writing(q, i) THEN alone \ {i} ELSE alone
        ELSE Return(p, FALSE) /\ UNCHANGED alone
  /\ UNCHANGED <<up, table, dirty, tmux, files, ended, saved>>

\* writePersistedSessionFileAtomically: a file is replaced or stays.
Written(f, i, data) == [f EXCEPT ![i] = data]

\* Faulty variant: an error of the file system is taken for success.
WriteWalUnchecked(p) ==
  /\ At(p, "wal") /\ writes < MaxWrites /\ writes' = writes + 1
  /\ call' = [call EXCEPT ![p].step = "settle", ![p].data.upd = writes + 1]
  /\ UNCHANGED <<up, table, dirty, tmux, main, wal, ended, history>>

WriteWal(p) ==
  LET c == call[p]
      data == [c.data EXCEPT !.upd = writes + 1]
  IN /\ At(p, "wal")
     /\ \/ /\ writes < MaxWrites /\ writes' = writes + 1
           /\ wal' = Written(wal, c.id, data)
           /\ call' = [call EXCEPT ![p].step = "main", ![p].data = data]
        \/ Return(p, FALSE) /\ UNCHANGED <<wal, writes>>
     /\ UNCHANGED <<up, table, dirty, tmux, main, ended, history>>

\* The backup of the file that is replaced is written here as well; nothing
\* ever reads it.
WriteMain(p) ==
  /\ At(p, "main")
  /\ \/ main' = Written(main, call[p].id, call[p].data) /\ Goto(p, "clean")
     \/ Return(p, FALSE) /\ UNCHANGED main
  /\ UNCHANGED <<up, table, dirty, tmux, wal, writes, ended, history>>

RemoveWal(p) ==
  /\ At(p, "clean")
  /\ wal' \in {wal, [wal EXCEPT ![call[p].id] = NoFile]}
  /\ Goto(p, "settle")
  /\ UNCHANGED <<up, table, dirty, tmux, main, writes, ended, history>>

\* Name and LastActivity are compared with what was written, the task is not.
Settle(p) ==
  LET i == call[p].id
      old == call[p].data.of
  IN /\ At(p, "settle")
     /\ dirty' = IF i \notin Listed THEN dirty
                 ELSE IF table[i].name # old.name \/ table[i].seen # old.seen
                 THEN dirty \cup {i} ELSE dirty \ {i}
     /\ saved' = IF i \in Listed THEN [saved EXCEPT ![i] = call[p].data.upd] ELSE saved
     /\ Return(p, TRUE)
     /\ UNCHANGED <<up, table, tmux, files, ended, alone>>

-----------------------------------------------------------------------------
\* KillSession.

\* Faulty variant: whoever finds the session gone tells its end as well.
DeleteTwice(p) ==
  /\ At(p, "delete")
  /\ table' = [table EXCEPT ![call[p].id] = Absent]
  /\ dirty' = dirty \ {call[p].id}
  /\ Goto(p, "kill")
  /\ UNCHANGED <<up, tmux, files, ended, history>>

Delete(p) ==
  /\ At(p, "delete")
  /\ IF call[p].id \in Listed
     THEN /\ table' = [table EXCEPT ![call[p].id] = Absent]
          /\ dirty' = dirty \ {call[p].id}
          /\ Goto(p, "kill")
     ELSE Goto(p, call[p].back) /\ UNCHANGED <<table, dirty>>
  /\ UNCHANGED <<up, tmux, files, ended, history>>

KillTmux(p) ==
  /\ At(p, "kill")
  /\ tmux' = tmux \ {call[p].id}
  /\ Goto(p, "remove")
  /\ UNCHANGED <<up, table, dirty, files, ended, history>>

\* removePersistedSession, one file after the other
RemoveFiles(p) ==
  LET i == call[p].id
  IN /\ At(p, "remove")
     /\ \/ main[i] # NoFile /\ main' = [main EXCEPT ![i] = NoFile] /\ UNCHANGED <<wal, call>>
        \/ main[i] = NoFile /\ wal' = [wal EXCEPT ![i] = NoFile] /\ Goto(p, "tell")
           /\ UNCHANGED main
     /\ saved' = [saved EXCEPT ![i] = 0]
     /\ UNCHANGED <<up, table, dirty, tmux, writes, ended, alone>>

Tell(p) ==
  /\ At(p, "tell")
  /\ ended' = [ended EXCEPT ![call[p].id] = @ + 1]
  /\ Goto(p, call[p].back)
  /\ UNCHANGED <<up, table, dirty, tmux, files, history>>

-----------------------------------------------------------------------------
\* Requests.

\* CreateSessionWithOptions: the entry first, tmux after it.
Create(p, i) ==
  /\ table[i] = Fresh
  /\ Begin(p, "create", i, "spawn", {})
  /\ table' = [table EXCEPT ![i] = Entry(Default, NoTask)]
  /\ UNCHANGED <<up, dirty, tmux, files, ended, history>>

Spawn(p) ==
  LET i == call[p].id
  IN /\ At(p, "spawn")
     /\ \/ tmux' = tmux \cup {i} /\ Goto(p, "snapshot") /\ UNCHANGED <<table, dirty>>
        \/ /\ table' = [table EXCEPT ![i] = Absent] /\ dirty' = dirty \ {i}
           /\ Goto(p, "done") /\ UNCHANGED tmux
     /\ UNCHANGED <<up, files, ended, history>>

\* RenameSession, and its rollback when the name could not be written
Rename(p, i, name) ==
  /\ i \in Listed /\ Begin(p, "rename", i, "snapshot", {})
  /\ table' = [table EXCEPT ![i].name = name] /\ dirty' = dirty \cup {i}
  /\ UNCHANGED <<up, tmux, files, ended, history>>

RollBack(p) ==
  LET i == call[p].id
  IN /\ At(p, "rollback")
     /\ IF i \in Listed
        THEN /\ table' = [table EXCEPT ![i].name = call[p].prev]
             /\ dirty' = dirty \cup {i}
        ELSE UNCHANGED <<table, dirty>>
     /\ Done(p)
     /\ UNCHANGED <<up, tmux, files, ended, history>>

\* BindSessionTask
Bind(p, i, task) ==
  /\ i \in Listed /\ Begin(p, "bind", i, "snapshot", {})
  /\ table' = [table EXCEPT ![i].task = task] /\ dirty' = dirty \cup {i}
  /\ UNCHANGED <<up, tmux, files, ended, history>>

\* AttachSessionForUser and SendKeys look for the tmux session first.
Use(p, i, op) ==
  /\ i \in Listed /\ Begin(p, op, i, "check", {})
  /\ UNCHANGED <<up, table, dirty, tmux, files, ended, history>>

\* ListSessions: what the table held is looked up one by one.
List(p) ==
  /\ Listed # {} /\ Begin(p, "list", "none", "next", Listed)
  /\ UNCHANGED <<up, table, dirty, tmux, files, ended, history>>

\* KillSessionForUser
Kill(p, i) ==
  /\ i \in Listed /\ Begin(p, "kill", i, "delete", {})
  /\ UNCHANGED <<up, table, dirty, tmux, files, ended, history>>

\* pruneMissingTmuxSession
Check(p) ==
  /\ At(p, "check")
  /\ Goto(p, IF call[p].id \notin tmux THEN "delete"
             ELSE IF call[p].op = "list" THEN "next" ELSE "touch")
  /\ UNCHANGED <<up, table, dirty, tmux, files, ended, history>>

Touched(i) ==
  IF i \in Listed
  THEN /\ table[i].seen < MaxTouches
       /\ table' = [table EXCEPT ![i].seen = @ + 1] /\ dirty' = dirty \cup {i}
  ELSE UNCHANGED <<table, dirty>>

\* An attachment is there, or keys have been sent.
Attached(p) ==
  /\ At(p, "touch") /\ call[p].op = "attach"
  /\ Touched(call[p].id) /\ Goto(p, "snapshot")
  /\ UNCHANGED <<up, tmux, files, ended, history>>

KeysSent(p) ==
  /\ At(p, "touch") /\ call[p].op = "keys"
  /\ Touched(call[p].id) /\ Done(p)
  /\ UNCHANGED <<up, tmux, files, ended, history>>

-----------------------------------------------------------------------------
\* The loop that flushes and reaps, and the storage limit.

Flush(p) ==
  /\ dirty # {} /\ Begin(p, "flush", "none", "next", dirty)
  /\ UNCHANGED <<up, table, dirty, tmux, files, ended, history>>

\* cleanupLoop: who has been idle is collected under the lock and killed
\* without it, touched or not in between.
Reap(p, idle) ==
  /\ idle # {} /\ Begin(p, "reap", "none", "next", idle)
  /\ UNCHANGED <<up, table, dirty, tmux, files, ended, history>>

FirstStep(op) ==
  IF op = "flush" THEN "snapshot" ELSE IF op = "list" THEN "check" ELSE "delete"

NextSession(p) ==
  /\ At(p, "next")
  /\ \/ \E i \in call[p].todo :
          call' = [call EXCEPT ![p].id = i, ![p].todo = @ \ {i},
                     ![p].step = FirstStep(call[p].op)]
     \/ /\ call[p].todo = {}
        /\ IF call[p].op = "flush" THEN Goto(p, "limit") ELSE Done(p)
  /\ UNCHANGED <<up, table, dirty, tmux, files, ended, history>>

\* A session that could not be written stays for the next flush.
Remark(p) ==
  /\ At(p, "remark")
  /\ dirty' = dirty \cup ({call[p].id} \cap Listed)
  /\ Goto(p, "next")
  /\ UNCHANGED <<up, table, tmux, files, ended, history>>

\* enforcePersistedStorageLimit: the files are added up, those of sessions
\* ended meanwhile as well, and the session that was idle longest is killed.
\* Sizes and the limit are left out: any files may be too large, or not.
EnforceLimit(p) ==
  /\ At(p, "limit")
  /\ \/ /\ \E i \in Sessions : main[i] # NoFile
        /\ \E i \in Listed :
             call' = [call EXCEPT ![p].id = i, ![p].step = "delete", ![p].back = "limit"]
     \/ Done(p)
  /\ UNCHANGED <<up, table, dirty, tmux, files, ended, history>>

Finish(p) ==
  /\ At(p, "done") /\ Done(p)
  /\ UNCHANGED <<up, table, dirty, tmux, files, ended, history>>

-----------------------------------------------------------------------------
\* A shell that exits, and the server that stops and starts.

ShellExits(i) ==
  /\ i \in tmux /\ tmux' = tmux \ {i}
  /\ UNCHANGED <<up, table, dirty, files, call, ended, history>>

Crash ==
  /\ up /\ up' = FALSE
  /\ table' = [i \in Sessions |-> IF i \in Listed THEN Absent ELSE table[i]]
  /\ dirty' = {} /\ call' = [p \in Calls |-> NoCall]
  /\ UNCHANGED <<tmux, files, ended, history>>

\* The newer of the two files; the log wins a draw.
Chosen(i) == IF wal[i].upd >= main[i].upd THEN wal[i] ELSE main[i]

\* Faulty variant: whatever has a file is listed.
ReloadedUnseen(idle, failing) ==
  {i \in Sessions \ idle : Chosen(i) # NoFile /\ ~(Chosen(i) = wal[i] /\ i \in failing)}

\* Sessions that have a file and run in tmux are listed again, unless they were
\* idle too long or their log cannot be written back.
Reloaded(idle, failing) ==
  {i \in tmux \ idle : Chosen(i) # NoFile /\ ~(Chosen(i) = wal[i] /\ i \in failing)}

\* loadPersistedSessions and loadOrphanTmuxSessions, before any request.
Load(idle, failing) ==
  LET back == Reloaded(idle, failing)
      orphans == (tmux \ idle) \ back
      new(i) == [upd |-> writes + 1, of |-> Entry(Default, NoTask)]
  IN /\ ~up /\ up' = TRUE
     /\ orphans # {} => writes < MaxWrites
     /\ writes' = IF orphans = {} THEN writes ELSE writes + 1
     /\ tmux' = tmux \ idle
     /\ table' = [i \in Sessions |->
          IF i \in back THEN Chosen(i).of
          ELSE IF i \in orphans THEN Entry(Default, NoTask) ELSE table[i]]
     /\ main' = [i \in Sessions |-> IF i \in back THEN Chosen(i)
                                    ELSE IF i \in orphans THEN new(i) ELSE NoFile]
     /\ wal' = [i \in Sessions |-> NoFile]
     /\ ended' = [i \in Sessions |-> IF i \in back \cup orphans THEN 0 ELSE ended[i]]
     /\ saved' = [i \in Sessions |-> IF i \in back THEN saved[i] ELSE main'[i].upd]
     /\ UNCHANGED <<dirty, call, alone>>

Request(p) ==
  \/ \E i \in Sessions :
       \/ Create(p, i) \/ Kill(p, i)
       \/ \E name \in Names : Rename(p, i, name)
       \/ \E task \in Tasks : Bind(p, i, task)
       \/ \E op \in {"attach", "keys"} : Use(p, i, op)
  \/ List(p) \/ Flush(p)
  \/ \E idle \in SUBSET Listed : Reap(p, idle)

Continue(p) ==
  \/ Spawn(p) \/ Check(p) \/ Attached(p) \/ KeysSent(p) \/ RollBack(p) \/ NextSession(p) \/ Remark(p)
  \/ Snapshot(p) \/ WriteWal(p) \/ WriteMain(p) \/ RemoveWal(p) \/ Settle(p)
  \/ Delete(p) \/ KillTmux(p) \/ RemoveFiles(p) \/ Tell(p) \/ EnforceLimit(p) \/ Finish(p)

Next ==
  \/ \E p \in Calls : Request(p) \/ Continue(p)
  \/ \E i \in Sessions : ShellExits(i)
  \/ Crash
  \/ \E idle, failing \in SUBSET Sessions : Load(idle, failing)

Spec == Init /\ [][Next]_vars

-----------------------------------------------------------------------------
\* Properties.

Files == [upd : 0..MaxWrites, of : Entries \cup {Absent}]

Ops == {"none", "create", "rename", "bind", "attach", "keys", "list", "kill", "flush", "reap"}
Steps ==
  {"none", "spawn", "snapshot", "wal", "main", "clean", "settle", "rollback", "check",
   "touch", "next", "remark", "delete", "kill", "remove", "tell", "limit", "done"}

CallRows ==
  [op : Ops, step : Steps,
   id : Sessions \cup {"none"}, todo : SUBSET Sessions, back : {"next", "limit", "done"},
   data : Files, prev : Names \cup {Default}]

\* Types, that what is dirty is listed, that a server that is down holds
\* nothing in memory, and that a session's end is told once at most.
TypeOK ==
  /\ up \in BOOLEAN /\ table \in [Sessions -> Entries \cup {Fresh, Absent}]
  /\ dirty \subseteq Listed /\ tmux \subseteq Sessions /\ alone \subseteq Sessions
  /\ main \in [Sessions -> Files] /\ wal \in [Sessions -> Files] /\ writes \in 0..MaxWrites
  /\ \A i \in Sessions : {main[i].upd, wal[i].upd, saved[i]} \subseteq 0..writes
  /\ call \in [Calls -> CallRows] /\ saved \in [Sessions -> 0..MaxWrites]
  /\ ~up => Listed = {} /\ \A p \in Calls : call[p] = NoCall
  /\ ended \in [Sessions -> 0..1]

\* A session that was told ended, that tmux has not, and that nobody is about
\* to spawn.
Dead(i) ==
  /\ ended[i] > 0 /\ i \notin tmux /\ i \notin Listed
  /\ \A p \in Calls : ~(call[p].id = i /\ At(p, "spawn"))

\* A session that is dead stays so whatever happens, restarts included, although
\* a persist that was under way then may write its files again.
DeadStaysDead == [][\A i \in Sessions : Dead(i) => Dead(i)']_vars

\* What is on disk is what the last persist that succeeded has written, or what
\* a later one was writing, wherever the server stops; it may be an older one
\* only if two persists of the session have overlapped.
RestartFindsSaved == \A i \in alone : Chosen(i).upd >= saved[i]
=============================================================================
