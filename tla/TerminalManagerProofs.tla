----------------------- MODULE TerminalManagerProofs -----------------------
(***************************************************************************)
(* What holds of the terminal manager for any sessions, requests under way *)
(* and bounds: the end of a session is told once, who is dead stays dead,  *)
(* and what was saved is on disk wherever the server stops.                *)
(***************************************************************************)
EXTENDS TerminalManager, TLAPS

-----------------------------------------------------------------------------
\* The inductive invariant.

WritingSteps == {"wal", "main", "clean", "settle"}
EndSteps == {"kill", "remove", "tell"}
SessionSteps ==
  {"spawn", "snapshot", "rollback", "check", "touch", "remark", "delete"}
    \cup WritingSteps \cup EndSteps

\* Who is in the table was not told ended since.
Tables ==
  /\ up \in BOOLEAN
  /\ table \in [Sessions -> Entries \cup {Fresh, Absent}] /\ dirty \subseteq Listed
  /\ tmux \subseteq Sessions /\ ended \in [Sessions -> 0..1]
  /\ \A i \in Sessions : table[i] # Absent => ended[i] = 0

OnDisk(i) ==
  /\ main[i].upd <= writes /\ wal[i].upd <= writes /\ saved[i] <= writes
  /\ main[i] # NoFile => main[i].of \in Entries
  /\ wal[i] # NoFile => wal[i].of \in Entries
  /\ i \in alone => saved[i] <= main[i].upd \/ saved[i] <= wal[i].upd

Stored ==
  /\ main \in [Sessions -> Files] /\ wal \in [Sessions -> Files] /\ writes \in 0..MaxWrites
  /\ saved \in [Sessions -> 0..MaxWrites] /\ alone \subseteq Sessions

Disk == Stored /\ \A i \in Sessions : OnDisk(i)

\* What a call under way relies on. Only a session that is not in the table is
\* being ended; the main file is at least what was saved before the log that
\* may hold a newer copy goes, and it is the persist's own unless the session
\* was ended meanwhile.
Fit(p) ==
  LET c == call[p]
      i == c.id
  IN /\ c.step \in SessionSteps => i \in Sessions
     /\ c.step \in WritingSteps => c.data.of \in Entries
     /\ c.data.upd <= writes
     /\ c.step \in EndSteps => table[i] = Absent /\ ended[i] = 0
     /\ i \in alone =>
          /\ c.step = "main" => saved[i] <= c.data.upd
          /\ c.step = "clean" => saved[i] <= main[i].upd
          /\ c.step \in {"clean", "settle"} /\ table[i] # Absent => c.data.upd <= main[i].upd

\* A session has one end, and one persist at a time if it is alone.
Apart(p, q) ==
  call[p].id = call[q].id =>
    /\ ~(call[p].step \in EndSteps /\ call[q].step \in EndSteps)
    /\ call[p].id \in alone => ~(call[p].step \in WritingSteps /\ call[q].step \in WritingSteps)

CallsFit ==
  /\ call \in [Calls -> CallRows]
  /\ \A p \in Calls : Fit(p)
  /\ \A p, q \in Calls : p # q => Apart(p, q)

Down == ~up => Listed = {} /\ \A p \in Calls : call[p] = NoCall

IInv == Tables /\ Disk /\ CallsFit /\ Down

StaysDead == \A i \in Sessions : Dead(i) => Dead(i)'
Good == IInv' /\ StaysDead

-----------------------------------------------------------------------------
\* What a call becomes.

Changed(p) ==
  call' \in [Calls -> CallRows] /\ \A q \in Calls \ {p} : call'[q] = call[q]

LEMMA GotoIs ==
  ASSUME IInv, NEW p \in Calls, NEW s \in Steps, Goto(p, s)
  PROVE  /\ Changed(p)
         /\ call'[p].step = s /\ call'[p].id = call[p].id /\ call'[p].data = call[p].data
<1> DEFINE r == [call[p] EXCEPT !.step = s]
<1>1. call[p] \in CallRows /\ call \in [Calls -> CallRows]
  BY DEF IInv, CallsFit
<1>2. /\ r \in CallRows
      /\ r.step = s /\ r.id = call[p].id /\ r.data = call[p].data
  BY <1>1 DEF CallRows
<1>3. call' = [call EXCEPT ![p] = r]
  BY DEF Goto
<1> HIDE DEF r
<1> QED
  BY <1>1, <1>2, <1>3 DEF Changed

LEMMA NoCallIs ==
  /\ NoCall \in CallRows /\ NoCall.step = "none" /\ NoCall.data = NoFile
  /\ NoFile \in Files /\ NoFile.upd = 0 /\ NoFile.of = Absent
<1>1. MaxWrites \in Nat
  BY TerminalConstants DEF TerminalConstants
<1>2. 0 \in 0..MaxWrites
  BY <1>1
<1>3. NoFile \in Files /\ NoFile.upd = 0 /\ NoFile.of = Absent
  BY <1>2 DEF NoFile, Files
<1>4. NoCall.step = "none" /\ NoCall.data = NoFile
  BY DEF NoCall
<1>5. NoCall \in CallRows
  <2> HIDE DEF NoFile
  <2> QED
    BY <1>3 DEF NoCall, CallRows, Ops, Steps
<1> QED
  BY <1>3, <1>4, <1>5

LEMMA DoneIs ==
  ASSUME IInv, NEW p \in Calls, Done(p)
  PROVE  Changed(p) /\ call'[p] = NoCall
<1>1. call \in [Calls -> CallRows]
  BY DEF IInv, CallsFit
<1> QED
  BY <1>1, NoCallIs DEF Done, Changed

LEMMA ReturnIs ==
  ASSUME IInv, NEW p \in Calls, NEW ok \in BOOLEAN, Return(p, ok)
  PROVE  /\ Changed(p)
         /\ call'[p].step \in {"limit", "delete", "next", "remark", "rollback", "done"}
         /\ call'[p].id = call[p].id /\ call'[p].data = NoFile
<1> DEFINE s == NextStep(call[p].op, ok)
           r == [call[p] EXCEPT !.step = s, !.data = NoFile]
<1>1. call[p] \in CallRows /\ call \in [Calls -> CallRows]
  BY DEF IInv, CallsFit
<1>2. s \in {"limit", "delete", "next", "remark", "rollback", "done"}
  BY DEF NextStep
<1>3. call' = [call EXCEPT ![p] = r]
  BY DEF Return
<1> HIDE DEF s
<1>4. s \in Steps
  BY <1>2 DEF Steps
<1>5. r \in CallRows /\ r.step = s /\ r.id = call[p].id /\ r.data = NoFile
  BY <1>1, <1>4, NoCallIs DEF CallRows
<1> HIDE DEF r
<1> QED
  BY <1>1, <1>2, <1>3, <1>5 DEF Changed

LEMMA BeginIs ==
  ASSUME IInv, NEW p \in Calls, NEW op \in Ops, NEW i \in Sessions \cup {"none"},
         NEW s \in Steps, NEW todo \in SUBSET Sessions, op = "rename" => i \in Listed,
         Begin(p, op, i, s, todo)
  PROVE  /\ Changed(p) /\ up
         /\ call'[p].step = s /\ call'[p].id = i /\ call'[p].data = NoFile
<1> DEFINE r == Started(op, i, s, todo)
           n == IF op = "rename" THEN table[i].name ELSE Default
           b == IF op \in {"list", "reap"} THEN "next" ELSE "done"
<1>1. call \in [Calls -> CallRows]
  BY DEF IInv, CallsFit
<1>2. n \in Names \cup {Default}
  <2>1. CASE op = "rename"
    <3>1. table[i] \in Entries
      BY <2>1 DEF IInv, Tables, Listed
    <3>2. table[i].name \in Names \cup {Default}
      BY <3>1 DEF Entries
    <3> QED
      BY <2>1, <3>2
  <2> QED
    BY <2>1
<1>3. b \in {"next", "limit", "done"}
  OBVIOUS
<1>4. r = [op |-> op, id |-> i, step |-> s, todo |-> todo, back |-> b, data |-> NoFile, prev |-> n]
  BY DEF Started
<1>5. call' = [call EXCEPT ![p] = r] /\ up
  BY DEF Begin
<1> HIDE DEF r, n, b
<1>6. r \in CallRows /\ r.step = s /\ r.id = i /\ r.data = NoFile
  BY <1>2, <1>3, <1>4, NoCallIs DEF CallRows
<1> QED
  BY <1>1, <1>5, <1>6 DEF Changed

LEMMA UpWhen ==
  ASSUME IInv, NEW p \in Calls, call[p].step # "none"
  PROVE  up
BY NoCallIs DEF IInv, Down

-----------------------------------------------------------------------------
\* What a step leaves to the calls it does not move.

\* The clock of UpdatedAt goes on, and only a start of the server brings back
\* who is not in the table.
Steady ==
  /\ writes <= writes' /\ alone' \subseteq alone
  /\ \A i \in Sessions : table[i] = Absent => table'[i] = Absent

Undisturbed(q) ==
  LET i == call[q].id
  IN /\ call[q].step \in EndSteps => ended'[i] = ended[i]
     /\ call[q].step \in WritingSteps /\ i \in alone' =>
          \/ main'[i] = main[i] /\ saved'[i] = saved[i]
          \/ saved'[i] = 0 /\ table[i] = Absent

LEMMA FitKept ==
  ASSUME IInv, Disk', Steady, NEW q \in Calls, call'[q] = call[q], Undisturbed(q)
  PROVE  Fit(q)'
<1> DEFINE c == call[q]
           i == c.id
<1>1. /\ c.step \in SessionSteps => i \in Sessions
      /\ c.step \in WritingSteps => c.data.of \in Entries
      /\ c.step \in EndSteps => table[i] = Absent /\ ended[i] = 0
  BY DEF IInv, CallsFit, Fit
<1>2. c.data.upd <= writes'
  <2>1. c.data.upd \in Nat /\ writes \in Nat /\ writes' \in Nat /\ c.data.upd <= writes
    <3>1. MaxWrites \in Nat
      BY TerminalConstants DEF TerminalConstants
    <3>2. c.data \in Files
      BY DEF IInv, CallsFit, CallRows
    <3>3. c.data.upd \in 0..MaxWrites /\ writes \in 0..MaxWrites /\ writes' \in 0..MaxWrites
      BY <3>2 DEF Files, IInv, Disk, Stored
    <3>4. c.data.upd <= writes
      BY DEF IInv, CallsFit, Fit
    <3> HIDE DEF c
    <3> QED
      BY <3>1, <3>3, <3>4
  <2>2. writes <= writes'
    BY DEF Steady
  <2> HIDE DEF c
  <2> QED
    BY <2>1, <2>2
<1>3. c.step \in EndSteps => table'[i] = Absent /\ ended'[i] = 0
  BY <1>1 DEF Undisturbed, Steady, SessionSteps
<1>4. ASSUME i \in alone', c.step \in WritingSteps
      PROVE  /\ c.step = "main" => saved'[i] <= c.data.upd
             /\ c.step = "clean" => saved'[i] <= main'[i].upd
             /\ c.step \in {"clean", "settle"} /\ table'[i] # Absent =>
                  c.data.upd <= main'[i].upd
  <2>1. i \in Sessions /\ i \in alone
    BY <1>1, <1>4 DEF SessionSteps, Steady
  <2>2. /\ c.step = "main" => saved[i] <= c.data.upd
        /\ c.step = "clean" => saved[i] <= main[i].upd
        /\ c.step \in {"clean", "settle"} /\ table[i] # Absent => c.data.upd <= main[i].upd
    BY <2>1 DEF IInv, CallsFit, Fit
  <2>3. table'[i] # Absent => table[i] # Absent
    BY <2>1 DEF Steady
  <2>4. CASE main'[i] = main[i] /\ saved'[i] = saved[i]
    BY <2>2, <2>3, <2>4
  <2>5. CASE saved'[i] = 0 /\ table[i] = Absent
    <3>1. 0 <= c.data.upd /\ 0 <= main'[i].upd
      <4>1. MaxWrites \in Nat
        BY TerminalConstants DEF TerminalConstants
      <4>2. c.data \in Files /\ main'[i] \in Files
        BY <2>1 DEF IInv, CallsFit, CallRows, Disk, Stored
      <4>3. c.data.upd \in 0..MaxWrites /\ main'[i].upd \in 0..MaxWrites
        BY <4>2 DEF Files
      <4> HIDE DEF c
      <4> QED
        BY <4>1, <4>3
    <3> QED
      BY <2>3, <2>5, <3>1
  <2> QED
    BY <1>4, <2>4, <2>5 DEF Undisturbed
<1>5. c.step \in {"main", "clean", "settle"} => c.step \in WritingSteps
  BY DEF WritingSteps
<1>6. call'[q] = c
  OBVIOUS
<1> HIDE DEF c
<1> QED
  BY <1>1, <1>2, <1>3, <1>4, <1>5, <1>6 DEF Fit

LEMMA CallsKept ==
  ASSUME IInv, Disk', Steady, NEW p \in Calls, Changed(p), Fit(p)',
         \A q \in Calls \ {p} : Undisturbed(q) /\ Apart(p, q)'
  PROVE  CallsFit'
<1>1. \A q \in Calls \ {p} : Fit(q)'
  BY FitKept DEF Changed
<1>2. ASSUME NEW q \in Calls, NEW o \in Calls, q # o PROVE Apart(q, o)'
  <2>1. CASE q = p
    BY <1>2, <2>1
  <2>2. CASE o = p
    <3>1. Apart(p, q)'
      BY <1>2, <2>2
    <3> QED
      BY <2>2, <3>1 DEF Apart
  <2>3. CASE q # p /\ o # p
    <3>1. Apart(q, o)
      BY <1>2 DEF IInv, CallsFit
    <3>2. call'[q] = call[q] /\ call'[o] = call[o] /\ alone' \subseteq alone
      BY <2>3 DEF Changed, Steady
    <3> QED
      BY <3>1, <3>2 DEF Apart
  <2> QED
    BY <2>1, <2>2, <2>3
<1>3. call' \in [Calls -> CallRows]
  BY DEF Changed
<1> QED
  BY <1>1, <1>2, <1>3 DEF CallsFit

\* Who is dead was in the table once and is not now.
LEMMA DeadIs ==
  ASSUME IInv, NEW i \in Sessions, Dead(i) PROVE table[i] = Absent
<1>1. ended[i] # 0
  BY DEF Dead, IInv, Tables
<1> QED
  BY <1>1 DEF IInv, Tables

LEMMA DeadKept ==
  ASSUME IInv, Steady, \A i \in Sessions : ended[i] > 0 => ended'[i] > 0,
         \A i \in tmux' \ tmux : \E p \in Calls : call[p].id = i /\ At(p, "spawn"),
         \A p \in Calls : At(p, "spawn")' =>
            call'[p] = call[p] \/ table[call'[p].id] # Absent
  PROVE  StaysDead
<1> SUFFICES ASSUME NEW i \in Sessions, Dead(i) PROVE Dead(i)'
  BY DEF StaysDead
<1>1. table[i] = Absent
  BY DeadIs
<1>2. i \notin Listed'
  BY <1>1 DEF Steady, Listed
<1>3. i \notin tmux' /\ ended'[i] > 0
  BY DEF Dead
<1>4. ASSUME NEW p \in Calls PROVE ~(call'[p].id = i /\ At(p, "spawn")')
  BY <1>1, <1>4 DEF Dead, At
<1> QED
  BY <1>2, <1>3, <1>4 DEF Dead, At

-----------------------------------------------------------------------------
\* Steps that change neither files nor what was told.

LEMMA TablesKept ==
  ASSUME IInv, UNCHANGED <<up, table, dirty, tmux, ended>>
  PROVE  Tables' /\ Listed' = Listed
BY DEF IInv, Tables, Listed

LEMMA DiskKept ==
  ASSUME IInv, UNCHANGED <<files, history>>
  PROVE  /\ Disk'
         /\ main' = main /\ wal' = wal /\ writes' = writes
         /\ saved' = saved /\ alone' = alone /\ writes' \in Nat
<1>1. main' = main /\ wal' = wal /\ writes' = writes /\ saved' = saved /\ alone' = alone
  BY DEF files, history
<1>2. Disk'
  BY <1>1 DEF IInv, Disk, Stored, OnDisk
<1>3. writes' \in Nat
  BY <1>1, TerminalConstants DEF TerminalConstants, IInv, Disk, Stored
<1> QED
  BY <1>1, <1>2, <1>3

\* What a call may become in such a step.
Plain(p) ==
  /\ Changed(p) /\ call'[p].data \in {call[p].data, NoFile}
  /\ call'[p].step \notin WritingSteps \cup EndSteps
  /\ call'[p].step \in SessionSteps => call'[p].id \in Sessions

LEMMA PlainFit ==
  ASSUME IInv, NEW p \in Calls, Plain(p), writes' \in Nat, writes <= writes'
  PROVE  /\ Fit(p)' /\ \A q \in Calls : Apart(p, q)'
         /\ call'[p].step \notin WritingSteps \cup EndSteps
<1>1. writes \in Nat /\ call[p].data.upd \in Nat /\ call[p].data.upd <= writes
  <2>1. MaxWrites \in Nat
    BY TerminalConstants DEF TerminalConstants
  <2>2. call[p].data \in Files
    BY DEF IInv, CallsFit, CallRows
  <2>3. call[p].data.upd \in 0..MaxWrites /\ writes \in 0..MaxWrites
    BY <2>2 DEF Files, IInv, Disk, Stored
  <2>4. call[p].data.upd <= writes
    BY DEF IInv, CallsFit, Fit
  <2> QED
    BY <2>1, <2>3, <2>4
<1>2. call'[p].data.upd <= writes'
  <2>1. call[p].data.upd <= writes'
    BY <1>1
  <2>2. NoFile.upd <= writes'
    BY NoCallIs
  <2> QED
    BY <2>1, <2>2 DEF Plain
<1>3. /\ call'[p].step \notin EndSteps /\ call'[p].step \notin WritingSteps
      /\ call'[p].step \notin {"main", "clean", "settle"}
  BY DEF Plain, WritingSteps, EndSteps
<1> QED
  BY <1>2, <1>3 DEF Fit, Plain, Apart

LEMMA Memory ==
  ASSUME IInv, NEW p \in Calls, up, up' = up, Plain(p), Tables',
         UNCHANGED <<files, ended, history>>,
         \A i \in Sessions : table[i] = Absent => table'[i] = Absent,
         \A i \in tmux' \ tmux : \E q \in Calls : call[q].id = i /\ At(q, "spawn"),
         At(p, "spawn")' => table[call'[p].id] # Absent
  PROVE  Good
<1>1. /\ Disk' /\ main' = main /\ writes' = writes
      /\ saved' = saved /\ alone' = alone /\ writes' \in Nat
  BY DiskKept
<1>2. Steady
  BY <1>1 DEF Steady
<1>3. Fit(p)' /\ \A q \in Calls : Apart(p, q)'
  BY <1>1, <1>2, PlainFit DEF Steady
<1>4. \A q \in Calls \ {p} : Undisturbed(q)
  BY <1>1 DEF Undisturbed
<1>5. CallsFit'
  BY <1>1, <1>2, <1>3, <1>4, CallsKept DEF Plain
<1>6. StaysDead
  <2>1. \A q \in Calls : At(q, "spawn")' => call'[q] = call[q] \/ table[call'[q].id] # Absent
    BY DEF Plain, Changed
  <2> QED
    BY <1>2, <2>1, DeadKept
<1> QED
  BY <1>1, <1>5, <1>6 DEF Good, IInv, Down

LEMMA Quiet ==
  ASSUME IInv, NEW p \in Calls, up, Plain(p), call'[p].step # "spawn",
         UNCHANGED <<up, table, dirty, tmux, files, ended, history>>
  PROVE  Good
<1>1. Tables'
  BY TablesKept
<1>2. ~At(p, "spawn")'
  BY DEF At
<1> QED
  BY <1>1, <1>2, Memory

\* Another entry of a session that is in the table.
LEMMA Edit ==
  ASSUME IInv, NEW p \in Calls, up, Plain(p), call'[p].step # "spawn",
         NEW i \in Listed, NEW e \in Entries,
         table' = [table EXCEPT ![i] = e], dirty' = dirty \cup {i},
         UNCHANGED <<up, tmux, files, ended, history>>
  PROVE  Good
<1>1. e \notin {Fresh, Absent}
  BY TerminalConstants DEF TerminalConstants
<1>2. i \in Sessions /\ table[i] # Absent
  BY DEF Listed
<1>3. Listed' = Listed
  BY <1>1, <1>2 DEF Listed, IInv, Tables
<1>4. Tables'
  BY <1>2, <1>3 DEF IInv, Tables
<1>5. ~At(p, "spawn")'
  BY DEF At
<1>6. \A j \in Sessions : table[j] = Absent => table'[j] = Absent
  BY <1>2 DEF IInv, Tables
<1> QED
  BY <1>4, <1>5, <1>6, Memory

LEMMA EntryIs ==
  ASSUME IInv, NEW i \in Listed
  PROVE  i \in Sessions /\ table[i] \in Entries /\ table[i] # Absent
BY DEF Listed, IInv, Tables

LEMMA DefaultIs == Entry(Default, NoTask) \in Entries
<1>1. 0 \in 0..MaxTouches
  BY TerminalConstants DEF TerminalConstants
<1> QED
  BY <1>1 DEF Entry, Entries

-----------------------------------------------------------------------------
\* Requests that begin.

\* A call that goes on at another step, with the session it has.
LEMMA GotoPlain ==
  ASSUME IInv, NEW p \in Calls, NEW s \in Steps, Goto(p, s),
         s \notin WritingSteps \cup EndSteps, s \in SessionSteps => call[p].id \in Sessions
  PROVE  Plain(p) /\ call'[p].step = s
BY GotoIs DEF Plain

LEMMA ReturnPlain ==
  ASSUME IInv, NEW p \in Calls, NEW ok \in BOOLEAN, Return(p, ok), call[p].id \in Sessions
  PROVE  Plain(p) /\ call'[p].step # "spawn"
<1>1. /\ Changed(p)
      /\ call'[p].step \in {"limit", "delete", "next", "remark", "rollback", "done"}
      /\ call'[p].id = call[p].id /\ call'[p].data = NoFile
  BY ReturnIs
<1>2. call'[p].step \notin WritingSteps \cup EndSteps /\ call'[p].step # "spawn"
  BY <1>1 DEF WritingSteps, EndSteps
<1> QED
  BY <1>1, <1>2 DEF Plain

LEMMA DonePlain ==
  ASSUME IInv, NEW p \in Calls, Done(p)
  PROVE  Plain(p) /\ call'[p].step # "spawn"
<1>1. Changed(p) /\ call'[p] = NoCall
  BY DoneIs
<1>2. call'[p].step = "none" /\ call'[p].data = NoFile
  BY <1>1, NoCallIs
<1> QED
  BY <1>1, <1>2 DEF Plain, WritingSteps, EndSteps, SessionSteps

LEMMA BeginPlain ==
  ASSUME IInv, NEW p \in Calls, NEW op \in Ops, NEW i \in Sessions \cup {"none"},
         NEW s \in {"spawn", "snapshot", "check", "delete", "next"},
         NEW todo \in SUBSET Sessions,
         op = "rename" => i \in Listed, s # "next" => i \in Sessions,
         Begin(p, op, i, s, todo)
  PROVE  Plain(p) /\ up /\ call'[p].step = s /\ call'[p].id = i
<1>1. s \in Steps /\ s \notin WritingSteps \cup EndSteps /\ (s \in SessionSteps => s # "next")
  BY DEF Steps, WritingSteps, EndSteps, SessionSteps
<1>2. /\ Changed(p) /\ up
      /\ call'[p].step = s /\ call'[p].id = i /\ call'[p].data = NoFile
  BY <1>1, BeginIs
<1> QED
  BY <1>1, <1>2 DEF Plain

LEMMA CreateGood == ASSUME IInv, NEW p \in Calls, NEW i \in Sessions, Create(p, i) PROVE Good
<1> DEFINE e == Entry(Default, NoTask)
<1>1. /\ table[i] = Fresh /\ Begin(p, "create", i, "spawn", {})
      /\ table' = [table EXCEPT ![i] = e]
      /\ UNCHANGED <<up, dirty, tmux, files, ended, history>>
  BY DEF Create
<1>2. Plain(p) /\ up /\ call'[p].id = i
  BY <1>1, BeginPlain DEF Ops
<1>3. e \in Entries
  BY DefaultIs
<1> HIDE DEF e
<1>4. table[i] # Absent /\ e \notin {Fresh, Absent}
  BY <1>1, <1>3, TerminalConstants DEF TerminalConstants
<1>5. Listed \subseteq Listed'
  BY <1>1, <1>4 DEF Listed, IInv, Tables
<1>6. Tables'
  BY <1>1, <1>3, <1>4, <1>5 DEF IInv, Tables
<1>7. \A j \in Sessions : table[j] = Absent => table'[j] = Absent
  BY <1>1, <1>4 DEF IInv, Tables
<1>8. up' = up /\ tmux' = tmux /\ UNCHANGED <<files, ended, history>>
  BY <1>1
<1> QED
  BY <1>2, <1>4, <1>6, <1>7, <1>8, Memory

LEMMA RenameGood ==
  ASSUME IInv, NEW p \in Calls, NEW i \in Sessions, NEW name \in Names, Rename(p, i, name)
  PROVE  Good
<1> DEFINE e == [table[i] EXCEPT !.name = name]
<1>1. /\ i \in Listed /\ Begin(p, "rename", i, "snapshot", {})
      /\ table' = [table EXCEPT ![i] = e] /\ dirty' = dirty \cup {i}
      /\ UNCHANGED <<up, tmux, files, ended, history>>
  BY DEF Rename
<1>2. Plain(p) /\ up /\ call'[p].step # "spawn"
  BY <1>1, BeginPlain DEF Ops
<1>3. e \in Entries
  BY <1>1, EntryIs DEF Entries
<1> HIDE DEF e
<1> QED
  BY <1>1, <1>2, <1>3, Edit

LEMMA BindGood ==
  ASSUME IInv, NEW p \in Calls, NEW i \in Sessions, NEW task \in Tasks, Bind(p, i, task)
  PROVE  Good
<1> DEFINE e == [table[i] EXCEPT !.task = task]
<1>1. /\ i \in Listed /\ Begin(p, "bind", i, "snapshot", {})
      /\ table' = [table EXCEPT ![i] = e] /\ dirty' = dirty \cup {i}
      /\ UNCHANGED <<up, tmux, files, ended, history>>
  BY DEF Bind
<1>2. Plain(p) /\ up /\ call'[p].step # "spawn"
  BY <1>1, BeginPlain DEF Ops
<1>3. e \in Entries
  BY <1>1, EntryIs DEF Entries
<1> HIDE DEF e
<1> QED
  BY <1>1, <1>2, <1>3, Edit

LEMMA UseGood ==
  ASSUME IInv, NEW p \in Calls, NEW i \in Sessions, NEW op \in {"attach", "keys"}, Use(p, i, op)
  PROVE  Good
<1>1. Begin(p, op, i, "check", {}) /\ UNCHANGED <<up, table, dirty, tmux, files, ended, history>>
  BY DEF Use
<1>2. op \in Ops /\ op # "rename"
  BY DEF Ops
<1>3. Plain(p) /\ up /\ call'[p].step # "spawn"
  BY <1>1, <1>2, BeginPlain
<1> QED
  BY <1>1, <1>3, Quiet

LEMMA KillGood == ASSUME IInv, NEW p \in Calls, NEW i \in Sessions, Kill(p, i) PROVE Good
<1>1. Begin(p, "kill", i, "delete", {}) /\ UNCHANGED <<up, table, dirty, tmux, files, ended, history>>
  BY DEF Kill
<1>2. Plain(p) /\ up /\ call'[p].step # "spawn"
  BY <1>1, BeginPlain DEF Ops
<1> QED
  BY <1>1, <1>2, Quiet

\* The loops and the list walk over sessions.
LEMMA WalkGood ==
  ASSUME IInv, NEW p \in Calls, NEW op \in {"list", "flush", "reap"},
         NEW todo \in SUBSET Sessions, Begin(p, op, "none", "next", todo),
         UNCHANGED <<up, table, dirty, tmux, files, ended, history>>
  PROVE  Good
<1>1. op \in Ops /\ op # "rename"
  BY DEF Ops
<1>2. Plain(p) /\ up /\ call'[p].step # "spawn"
  BY <1>1, BeginPlain
<1> QED
  BY <1>2, Quiet

LEMMA RequestGood == ASSUME IInv, NEW p \in Calls, Request(p) PROVE Good
<1>1. Listed \subseteq Sessions /\ dirty \subseteq Sessions
  BY DEF Listed, IInv, Tables
<1>2. List(p) => Good
  BY <1>1, WalkGood DEF List
<1>3. Flush(p) => Good
  BY <1>1, WalkGood DEF Flush
<1>4. ASSUME NEW idle \in SUBSET Listed, Reap(p, idle) PROVE Good
  BY <1>1, <1>4, WalkGood DEF Reap
<1> QED
  BY <1>2, <1>3, <1>4, CreateGood, RenameGood, BindGood, UseGood, KillGood DEF Request

-----------------------------------------------------------------------------
\* Calls that go on in memory.

LEMMA Going ==
  ASSUME IInv, NEW p \in Calls, NEW s \in SessionSteps, At(p, s)
  PROVE  up /\ call[p].id \in Sessions
<1>1. s # "none"
  BY DEF SessionSteps, WritingSteps, EndSteps
<1> QED
  BY <1>1, UpWhen DEF At, IInv, CallsFit, Fit

LEMMA SpawnGood == ASSUME IInv, NEW p \in Calls, Spawn(p) PROVE Good
<1> DEFINE i == call[p].id
<1>1. At(p, "spawn") /\ UNCHANGED <<up, files, ended, history>>
  BY DEF Spawn
<1>2. up /\ i \in Sessions
  BY <1>1, Going DEF SessionSteps
<1>3. CASE tmux' = tmux \cup {i} /\ Goto(p, "snapshot") /\ UNCHANGED <<table, dirty>>
  <2>1. Plain(p) /\ call'[p].step = "snapshot"
    BY <1>2, <1>3, GotoPlain DEF Steps, WritingSteps, EndSteps
  <2>2. Tables'
    BY <1>1, <1>2, <1>3 DEF IInv, Tables, Listed
  <2>3. \A j \in tmux' \ tmux : \E q \in Calls : call[q].id = j /\ At(q, "spawn")
    BY <1>1, <1>3
  <2>4. ~At(p, "spawn")'
    BY <2>1 DEF At
  <2> QED
    BY <1>1, <1>2, <1>3, <2>1, <2>2, <2>3, <2>4, Memory
<1>4. CASE /\ table' = [table EXCEPT ![i] = Absent] /\ dirty' = dirty \ {i}
           /\ Goto(p, "done") /\ UNCHANGED tmux
  <2>1. Plain(p) /\ call'[p].step = "done"
    BY <1>2, <1>4, GotoPlain DEF Steps, WritingSteps, EndSteps, SessionSteps
  <2>2. Listed' = Listed \ {i}
    BY <1>2, <1>4 DEF Listed, IInv, Tables
  <2>3. Tables'
    BY <1>1, <1>2, <1>4, <2>2 DEF IInv, Tables
  <2>4. \A j \in Sessions : table[j] = Absent => table'[j] = Absent
    BY <1>2, <1>4 DEF IInv, Tables
  <2>5. ~At(p, "spawn")'
    BY <2>1 DEF At
  <2> QED
    BY <1>1, <1>2, <1>4, <2>1, <2>3, <2>4, <2>5, Memory
<1> QED
  BY <1>3, <1>4 DEF Spawn

LEMMA CheckGood == ASSUME IInv, NEW p \in Calls, Check(p) PROVE Good
<1> DEFINE s == IF call[p].id \notin tmux THEN "delete"
                ELSE IF call[p].op = "list" THEN "next" ELSE "touch"
<1>1. At(p, "check") /\ Goto(p, s) /\ UNCHANGED <<up, table, dirty, tmux, files, ended, history>>
  BY DEF Check
<1>2. up /\ call[p].id \in Sessions
  BY <1>1, Going DEF SessionSteps
<1>3. s \in {"delete", "next", "touch"}
  OBVIOUS
<1> HIDE DEF s
<1>4. s \in Steps /\ s \notin WritingSteps \cup EndSteps /\ s # "spawn"
  BY <1>3 DEF Steps, WritingSteps, EndSteps
<1>5. Plain(p) /\ call'[p].step # "spawn"
  BY <1>1, <1>2, <1>4, GotoPlain
<1> QED
  BY <1>1, <1>2, <1>5, Quiet

\* Who is not in the table is not touched.
LEMMA TouchGood ==
  ASSUME IInv, NEW p \in Calls, up, Plain(p), call'[p].step # "spawn",
         NEW i \in Sessions, Touched(i), UNCHANGED <<up, tmux, files, ended, history>>
  PROVE  Good
<1> DEFINE n == table[i].seen + 1
           e == [table[i] EXCEPT !.seen = n]
<1>1. CASE i \notin Listed
  BY <1>1, Quiet DEF Touched
<1>2. CASE i \in Listed
  <2>1. /\ table[i].seen < MaxTouches
        /\ table' = [table EXCEPT ![i] = e] /\ dirty' = dirty \cup {i}
    BY <1>2 DEF Touched
  <2>2. table[i] \in Entries
    BY <1>2 DEF IInv, Tables, Listed
  <2>3. n \in 0..MaxTouches
    <3>1. table[i].seen \in 0..MaxTouches /\ MaxTouches \in Nat
      BY <2>2, TerminalConstants DEF Entries, TerminalConstants
    <3> QED
      BY <2>1, <3>1
  <2> HIDE DEF n
  <2>4. e \in Entries
    BY <2>2, <2>3 DEF Entries
  <2> HIDE DEF e
  <2> QED
    BY <1>2, <2>1, <2>4, Edit
<1> QED
  BY <1>1, <1>2

LEMMA AttachedGood == ASSUME IInv, NEW p \in Calls, Attached(p) PROVE Good
<1>1. /\ At(p, "touch") /\ Touched(call[p].id) /\ Goto(p, "snapshot")
      /\ UNCHANGED <<up, tmux, files, ended, history>>
  BY DEF Attached
<1>2. up /\ call[p].id \in Sessions
  BY <1>1, Going DEF SessionSteps
<1>3. Plain(p) /\ call'[p].step # "spawn"
  BY <1>1, <1>2, GotoPlain DEF Steps, WritingSteps, EndSteps
<1> QED
  BY <1>1, <1>2, <1>3, TouchGood

LEMMA KeysSentGood == ASSUME IInv, NEW p \in Calls, KeysSent(p) PROVE Good
<1>1. /\ At(p, "touch") /\ Touched(call[p].id) /\ Done(p)
      /\ UNCHANGED <<up, tmux, files, ended, history>>
  BY DEF KeysSent
<1>2. up /\ call[p].id \in Sessions
  BY <1>1, Going DEF SessionSteps
<1> QED
  BY <1>1, <1>2, DonePlain, TouchGood

LEMMA RollBackGood == ASSUME IInv, NEW p \in Calls, RollBack(p) PROVE Good
<1> DEFINE i == call[p].id
           e == [table[i] EXCEPT !.name = call[p].prev]
<1>1. At(p, "rollback") /\ Done(p) /\ UNCHANGED <<up, tmux, files, ended, history>>
  BY DEF RollBack
<1>2. up /\ i \in Sessions
  BY <1>1, Going DEF SessionSteps
<1>3. Plain(p) /\ call'[p].step # "spawn"
  BY <1>1, DonePlain
<1>4. CASE i \notin Listed
  <2>1. UNCHANGED <<table, dirty>>
    BY <1>4 DEF RollBack
  <2> QED
    BY <1>1, <1>2, <1>3, <2>1, Quiet
<1>5. CASE i \in Listed
  <2>1. table' = [table EXCEPT ![i] = e] /\ dirty' = dirty \cup {i}
    BY <1>5 DEF RollBack
  <2>2. call[p].prev \in Names \cup {Default}
    BY DEF IInv, CallsFit, CallRows
  <2>3. table[i] \in Entries
    BY <1>5 DEF IInv, Tables, Listed
  <2>4. e \in Entries
    BY <2>2, <2>3 DEF Entries
  <2> HIDE DEF e, i
  <2> QED
    BY <1>1, <1>2, <1>3, <1>5, <2>1, <2>4, Edit
<1> QED
  BY <1>4, <1>5

LEMMA NextSessionGood == ASSUME IInv, NEW p \in Calls, NextSession(p) PROVE Good
<1>1. At(p, "next") /\ UNCHANGED <<up, table, dirty, tmux, files, ended, history>>
  BY DEF NextSession
<1>2. up
  BY <1>1, UpWhen DEF At
<1>3. call \in [Calls -> CallRows] /\ call[p] \in CallRows
  BY DEF IInv, CallsFit
<1>4. ASSUME NEW i \in call[p].todo,
             call' = [call EXCEPT ![p].id = i, ![p].todo = @ \ {i},
                        ![p].step = FirstStep(call[p].op)]
      PROVE  Plain(p) /\ call'[p].step # "spawn"
  <2> DEFINE s == FirstStep(call[p].op)
             d == call[p].todo \ {i}
             r == [call[p] EXCEPT !.id = i, !.todo = d, !.step = s]
  <2>1. s \in {"snapshot", "check", "delete"}
    BY DEF FirstStep
  <2>2. call' = [call EXCEPT ![p] = r]
    BY <1>3, <1>4
  <2> HIDE DEF s
  <2>3. s \in Steps /\ s \notin WritingSteps \cup EndSteps /\ s # "spawn"
    BY <2>1 DEF Steps, WritingSteps, EndSteps
  <2>4. i \in Sessions /\ d \in SUBSET Sessions
    BY <1>3 DEF CallRows
  <2> HIDE DEF d
  <2>5. r \in CallRows /\ r.step = s /\ r.id = i /\ r.data = call[p].data
    BY <1>3, <2>3, <2>4 DEF CallRows
  <2> HIDE DEF r
  <2>6. Changed(p) /\ call'[p] = r
    BY <1>3, <2>2, <2>5 DEF Changed
  <2> QED
    BY <2>3, <2>4, <2>5, <2>6 DEF Plain
<1>5. CASE Goto(p, "limit")
  <2>1. Plain(p) /\ call'[p].step # "spawn"
    BY <1>5, GotoPlain DEF Steps, WritingSteps, EndSteps, SessionSteps
  <2> QED
    BY <1>1, <1>2, <2>1, Quiet
<1>6. CASE Done(p)
  BY <1>1, <1>2, <1>6, DonePlain, Quiet
<1> QED
  BY <1>1, <1>2, <1>4, <1>5, <1>6, Quiet DEF NextSession

LEMMA RemarkGood == ASSUME IInv, NEW p \in Calls, Remark(p) PROVE Good
<1>1. /\ At(p, "remark") /\ Goto(p, "next") /\ dirty' = dirty \cup ({call[p].id} \cap Listed)
      /\ UNCHANGED <<up, table, tmux, files, ended, history>>
  BY DEF Remark
<1>2. up
  BY <1>1, UpWhen DEF At
<1>3. Plain(p) /\ call'[p].step = "next"
  BY <1>1, GotoPlain DEF Steps, WritingSteps, EndSteps, SessionSteps
<1>4. Tables'
  BY <1>1 DEF IInv, Tables, Listed
<1>5. ~At(p, "spawn")'
  BY <1>3 DEF At
<1> QED
  BY <1>1, <1>2, <1>3, <1>4, <1>5, Memory

LEMMA EnforceLimitGood == ASSUME IInv, NEW p \in Calls, EnforceLimit(p) PROVE Good
<1>1. At(p, "limit") /\ UNCHANGED <<up, table, dirty, tmux, files, ended, history>>
  BY DEF EnforceLimit
<1>2. up
  BY <1>1, UpWhen DEF At
<1>3. call \in [Calls -> CallRows] /\ call[p] \in CallRows
  BY DEF IInv, CallsFit
<1>4. ASSUME NEW i \in Listed,
             call' = [call EXCEPT ![p].id = i, ![p].step = "delete", ![p].back = "limit"]
      PROVE  Plain(p) /\ call'[p].step # "spawn"
  <2> DEFINE r == [call[p] EXCEPT !.id = i, !.step = "delete", !.back = "limit"]
  <2>1. call' = [call EXCEPT ![p] = r]
    BY <1>3, <1>4
  <2>2. i \in Sessions
    BY EntryIs
  <2>3. r \in CallRows /\ r.step = "delete" /\ r.id = i /\ r.data = call[p].data
    BY <1>3, <2>2 DEF CallRows, Steps
  <2> HIDE DEF r
  <2>4. Changed(p) /\ call'[p] = r
    BY <1>3, <2>1, <2>3 DEF Changed
  <2> QED
    BY <2>2, <2>3, <2>4 DEF Plain, WritingSteps, EndSteps
<1>5. CASE Done(p)
  BY <1>1, <1>2, <1>5, DonePlain, Quiet
<1> QED
  BY <1>1, <1>2, <1>4, <1>5, Quiet DEF EnforceLimit

LEMMA FinishGood == ASSUME IInv, NEW p \in Calls, Finish(p) PROVE Good
<1>1. At(p, "done") /\ Done(p) /\ UNCHANGED <<up, table, dirty, tmux, files, ended, history>>
  BY DEF Finish
<1>2. up
  BY <1>1, UpWhen DEF At
<1> QED
  BY <1>1, <1>2, DonePlain, Quiet

-----------------------------------------------------------------------------
\* Persisting.

\* A step of a call that leaves the table's ids and the tmux sessions alone, or
\* takes some away.
LEMMA Working ==
  ASSUME IInv, NEW p \in Calls, up, up' = up, Tables', Disk', Steady, Changed(p), Fit(p)',
         \A q \in Calls \ {p} : Undisturbed(q) /\ Apart(p, q)',
         tmux' \subseteq tmux, \A i \in Sessions : ended[i] > 0 => ended'[i] > 0,
         call'[p].step # "spawn" \/ call'[p] = call[p]
  PROVE  Good
<1>1. CallsFit'
  BY CallsKept
<1>2. \A q \in Calls : At(q, "spawn")' => call'[q] = call[q] \/ table[call'[q].id] # Absent
  BY DEF Changed, At
<1>3. StaysDead
  BY <1>2, DeadKept
<1> QED
  BY <1>1, <1>3 DEF Good, IInv, Down

LEMMA Numbers ==
  ASSUME IInv, NEW i \in Sessions, NEW p \in Calls
  PROVE  /\ MaxWrites \in Nat /\ writes \in Nat /\ writes <= MaxWrites
         /\ main[i].upd \in Nat /\ wal[i].upd \in Nat /\ saved[i] \in Nat
         /\ call[p].data \in Files /\ call[p].data.upd \in Nat
<1>1. MaxWrites \in Nat
  BY TerminalConstants DEF TerminalConstants
<1>2. call[p].data \in Files /\ main[i] \in Files /\ wal[i] \in Files
  BY DEF IInv, CallsFit, CallRows, Disk, Stored
<1>3. {call[p].data.upd, main[i].upd, wal[i].upd, saved[i], writes} \subseteq 0..MaxWrites
  BY <1>2 DEF Files, IInv, Disk, Stored
<1> QED
  BY <1>1, <1>2, <1>3

LEMMA SnapshotGood == ASSUME IInv, NEW p \in Calls, Snapshot(p) PROVE Good
<1> DEFINE i == call[p].id
           d == [upd |-> 0, of |-> table[i]]
           r == [call[p] EXCEPT !.step = "wal", !.data = d]
<1>1. At(p, "snapshot") /\ UNCHANGED <<up, table, dirty, tmux, files, ended, saved>>
  BY DEF Snapshot
<1>2. up /\ i \in Sessions
  BY <1>1, Going DEF SessionSteps
<1>3. CASE i \notin Listed
  <2>1. Return(p, FALSE) /\ UNCHANGED alone
    BY <1>3 DEF Snapshot
  <2>2. UNCHANGED history
    BY <1>1, <2>1 DEF history
  <2>3. Plain(p) /\ call'[p].step # "spawn"
    BY <1>2, <2>1, ReturnPlain
  <2> QED
    BY <1>1, <1>2, <2>2, <2>3, Quiet
<1>4. CASE i \in Listed
  <2>1. call' = [call EXCEPT ![p] = r]
    <3>1. call' = [call EXCEPT ![p].step = "wal", ![p].data = d]
      BY <1>4 DEF Snapshot
    <3>2. call \in [Calls -> CallRows]
      BY DEF IInv, CallsFit
    <3> HIDE DEF d
    <3> QED
      BY <3>1, <3>2
  <2>2. alone' = IF \E q \in Calls : Writing(q, i) THEN alone \ {i} ELSE alone
    BY <1>4 DEF Snapshot
  <2>3. d \in Files /\ d.upd = 0 /\ d.of \in Entries
    <3>1. table[i] \in Entries
      BY <1>4, EntryIs
    <3>2. 0 \in 0..MaxWrites
      BY TerminalConstants DEF TerminalConstants
    <3> QED
      BY <3>1, <3>2 DEF Files
  <2> HIDE DEF d
  <2>4. call[p] \in CallRows /\ call \in [Calls -> CallRows]
    BY DEF IInv, CallsFit
  <2>5. r \in CallRows /\ r.step = "wal" /\ r.id = i /\ r.data = d
    BY <2>3, <2>4 DEF CallRows, Steps
  <2> HIDE DEF r
  <2>6. Changed(p) /\ call'[p] = r
    BY <2>1, <2>4, <2>5 DEF Changed
  <2>7. main' = main /\ wal' = wal /\ writes' = writes
    BY <1>1 DEF files
  <2>8. Disk' /\ Tables'
    <3>1. alone' \subseteq alone
      BY <2>2
    <3> QED
      BY <1>1, <2>7, <3>1, TablesKept DEF IInv, Disk, Stored, OnDisk
  <2>9. Steady
    BY <1>1, <1>2, <2>2, <2>7, Numbers DEF Steady
  <2>10. Fit(p)'
    <3>1. d.upd <= writes'
      BY <1>2, <2>3, <2>7, Numbers
    <3> QED
      BY <1>2, <2>3, <2>5, <2>6, <3>1 DEF Fit, EndSteps
  <2>11. ASSUME NEW q \in Calls \ {p} PROVE Undisturbed(q) /\ Apart(p, q)'
    <3>1. Undisturbed(q)
      BY <1>1, <2>7 DEF Undisturbed
    <3>2. call'[q] = call[q]
      BY <2>6 DEF Changed
    <3>3. ~("wal" \in EndSteps)
      BY DEF EndSteps
    <3>4. i \in alone' => ~Writing(q, i)
      BY <2>2
    <3> QED
      BY <2>5, <2>6, <3>1, <3>2, <3>3, <3>4 DEF Apart, Writing, WritingSteps
  <2>12. call'[p].step # "spawn" /\ tmux' \subseteq tmux
    BY <1>1, <2>5, <2>6
  <2> QED
    BY <1>1, <1>2, <2>6, <2>8, <2>9, <2>10, <2>11, <2>12, Working
<1> QED
  BY <1>3, <1>4

\* A persist under way relies on what the files hold.
LEMMA Persisting ==
  ASSUME IInv, NEW p \in Calls, NEW s \in WritingSteps, At(p, s)
  PROVE  LET c == call[p] IN
         /\ up /\ c.id \in Sessions /\ c.data \in Files /\ c.data.of \in Entries
         /\ c.data.upd <= writes /\ c.data.upd \in Nat
         /\ c.id \in alone =>
              /\ s = "main" => saved[c.id] <= c.data.upd
              /\ s = "clean" => saved[c.id] <= main[c.id].upd
              /\ s \in {"clean", "settle"} /\ table[c.id] # Absent => c.data.upd <= main[c.id].upd
<1>1. up /\ call[p].id \in Sessions
  BY Going DEF SessionSteps
<1>2. call[p].data \in Files /\ call[p].data.upd \in Nat
  BY <1>1, Numbers
<1>3. Fit(p) /\ call[p].step = s
  BY DEF At, IInv, CallsFit
<1> QED
  BY <1>1, <1>2, <1>3 DEF Fit

\* Nobody else writes the files of a session that is alone.
LEMMA WritesAlone ==
  ASSUME IInv, NEW p \in Calls, call[p].step \in WritingSteps, NEW q \in Calls \ {p},
         call[q].id = call[p].id, call[p].id \in alone
  PROVE  call[q].step \notin WritingSteps
BY DEF IInv, CallsFit, Apart

\* The next step of a persist keeps the others apart.
LEMMA StillWriting ==
  ASSUME IInv, NEW p \in Calls, call[p].step \in WritingSteps, Changed(p),
         call'[p].id = call[p].id, call'[p].step \in WritingSteps, alone' \subseteq alone,
         NEW q \in Calls \ {p}
  PROVE  Apart(p, q)'
<1>1. call'[q] = call[q]
  BY DEF Changed
<1>2. call'[p].step \notin EndSteps
  BY DEF WritingSteps, EndSteps
<1> QED
  BY <1>1, <1>2, WritesAlone DEF Apart

\* A step on the files of one session.
LEMMA DiskStep ==
  ASSUME IInv, Stored', NEW i \in Sessions, OnDisk(i)', writes <= writes', alone' \subseteq alone,
         \A j \in Sessions \ {i} : main'[j] = main[j] /\ wal'[j] = wal[j] /\ saved'[j] = saved[j]
  PROVE  Disk'
<1>1. ASSUME NEW j \in Sessions \ {i} PROVE OnDisk(j)'
  <2>1. OnDisk(j)
    BY DEF IInv, Disk
  <2>2. writes \in Nat /\ writes' \in Nat
    BY TerminalConstants DEF TerminalConstants, IInv, Disk, Stored
  <2>3. main[j].upd \in Nat /\ wal[j].upd \in Nat /\ saved[j] \in Nat
    <3>1. main[j] \in Files /\ wal[j] \in Files /\ saved[j] \in 0..MaxWrites /\ MaxWrites \in Nat
      BY TerminalConstants DEF TerminalConstants, IInv, Disk, Stored
    <3> QED
      BY <3>1 DEF Files
  <2>4. main[j].upd <= writes' /\ wal[j].upd <= writes' /\ saved[j] <= writes'
    <3>1. main[j].upd <= writes /\ wal[j].upd <= writes /\ saved[j] <= writes
      BY <2>1 DEF OnDisk
    <3> QED
      BY <2>2, <2>3, <3>1
  <2> QED
    BY <2>1, <2>4 DEF OnDisk
<1> QED
  BY <1>1 DEF Disk

LEMMA FilesIs ==
  ASSUME NEW f \in [Sessions -> Files], NEW i \in Sessions, NEW d \in Files
  PROVE  /\ Written(f, i, d) \in [Sessions -> Files] /\ Written(f, i, d)[i] = d
         /\ \A j \in Sessions \ {i} : Written(f, i, d)[j] = f[j]
BY DEF Written

LEMMA WriteWalGood == ASSUME IInv, NEW p \in Calls, WriteWal(p) PROVE Good
<1>0. call[p].id \in Sessions
  BY Persisting DEF WriteWal, WritingSteps
<1> SUFFICES ASSUME NEW i \in Sessions, i = call[p].id PROVE Good
  BY <1>0
<1> DEFINE d == [call[p].data EXCEPT !.upd = writes + 1]
           r == [call[p] EXCEPT !.step = "main", !.data = d]
<1>1. At(p, "wal") /\ UNCHANGED <<up, table, dirty, tmux, main, ended, history>>
  BY DEF WriteWal
<1>2. up /\ i \in Sessions /\ call[p].data \in Files /\ call[p].data.of \in Entries
  BY <1>1, Persisting DEF WritingSteps
<1>3. CASE Return(p, FALSE) /\ UNCHANGED <<wal, writes>>
  <2>1. Plain(p) /\ call'[p].step # "spawn"
    BY <1>2, <1>3, ReturnPlain
  <2> QED
    BY <1>1, <1>2, <1>3, <2>1, Quiet DEF files
<1>4. CASE /\ writes < MaxWrites /\ writes' = writes + 1 /\ wal' = Written(wal, i, d)
           /\ call' = [call EXCEPT ![p].step = "main", ![p].data = d]
  <2>1. call[p] \in CallRows /\ call \in [Calls -> CallRows]
    BY DEF IInv, CallsFit
  <2>2. call' = [call EXCEPT ![p] = r]
    <3> HIDE DEF d
    <3> QED
      BY <1>4, <2>1
  <2>3. writes + 1 \in 0..MaxWrites /\ writes' \in 0..MaxWrites /\ writes \in Nat
    BY <1>2, <1>4, Numbers
  <2>4. d \in Files /\ d.upd = writes' /\ d.of \in Entries
    BY <1>2, <1>4, <2>3 DEF Files
  <2> HIDE DEF d
  <2>5. r \in CallRows /\ r.step = "main" /\ r.id = i /\ r.data = d
    BY <2>1, <2>4 DEF CallRows, Steps
  <2> HIDE DEF r
  <2>6. Changed(p) /\ call'[p] = r
    BY <2>1, <2>2, <2>5 DEF Changed
  <2>7. saved' = saved /\ alone' = alone /\ main' = main
    BY <1>1 DEF history
  <2>8. /\ wal' \in [Sessions -> Files] /\ wal'[i] = d
        /\ \A j \in Sessions \ {i} : wal'[j] = wal[j]
    <3>1. wal \in [Sessions -> Files]
      BY DEF IInv, Disk, Stored
    <3> QED
      BY <1>2, <1>4, <2>4, <3>1, FilesIs
  <2>9. /\ main[i].upd <= writes' /\ saved[i] <= writes'
        /\ writes <= writes' /\ d.upd <= writes' /\ saved[i] <= d.upd
    <3>1. main[i].upd <= writes /\ saved[i] <= writes
      BY <1>2 DEF IInv, Disk, OnDisk
    <3>2. main[i].upd \in Nat /\ saved[i] \in Nat
      BY <1>2, Numbers
    <3> QED
      BY <1>4, <2>3, <2>4, <3>1, <3>2
  <2>10. Disk'
    <3>1. OnDisk(i)'
      <4>1. main[i] # NoFile => main[i].of \in Entries
        BY <1>2 DEF IInv, Disk, OnDisk
      <4> QED
        BY <2>4, <2>7, <2>8, <2>9, <4>1 DEF OnDisk
    <3>2. Stored'
      BY <2>3, <2>7, <2>8 DEF IInv, Disk, Stored
    <3> QED
      BY <2>7, <2>8, <2>9, <3>1, <3>2, DiskStep
  <2>11. Tables' /\ Steady
    <3>1. writes <= writes'
      BY <1>4, <2>3
    <3> QED
      BY <1>1, <2>7, <3>1, TablesKept DEF Steady
  <2>12. Fit(p)'
    <3>1. saved'[i] <= d.upd /\ d.upd <= writes'
      BY <2>7, <2>9
    <3> QED
      BY <1>2, <2>4, <2>5, <2>6, <3>1 DEF Fit, EndSteps
  <2>13. ASSUME NEW q \in Calls \ {p} PROVE Undisturbed(q) /\ Apart(p, q)'
    <3>1. Undisturbed(q)
      BY <1>1, <2>7 DEF Undisturbed
    <3>2. Apart(p, q)'
      BY <1>1, <2>5, <2>6, <2>7, StillWriting DEF At, WritingSteps
    <3> QED
      BY <3>1, <3>2
  <2>14. call'[p].step # "spawn" /\ tmux' \subseteq tmux
    BY <1>1, <2>5, <2>6
  <2> QED
    BY <1>1, <1>2, <2>6, <2>10, <2>11, <2>12, <2>13, <2>14, Working
<1> QED
  BY <1>3, <1>4 DEF WriteWal

LEMMA WriteMainGood == ASSUME IInv, NEW p \in Calls, WriteMain(p) PROVE Good
<1>0. call[p].id \in Sessions /\ call[p].data \in Files
  BY Persisting DEF WriteMain, WritingSteps
<1> SUFFICES ASSUME NEW i \in Sessions, i = call[p].id, NEW d \in Files, d = call[p].data
             PROVE  Good
  BY <1>0
<1>1. At(p, "main") /\ UNCHANGED <<up, table, dirty, tmux, wal, writes, ended, history>>
  BY DEF WriteMain
<1>2. /\ up /\ i \in Sessions /\ d \in Files /\ d.of \in Entries
      /\ d.upd <= writes /\ d.upd \in Nat
      /\ i \in alone => saved[i] <= d.upd
  BY <1>1, Persisting DEF WritingSteps
<1>3. CASE Return(p, FALSE) /\ UNCHANGED main
  <2>1. Plain(p) /\ call'[p].step # "spawn"
    BY <1>2, <1>3, ReturnPlain
  <2> QED
    BY <1>1, <1>2, <1>3, <2>1, Quiet DEF files
<1>4. CASE main' = Written(main, i, d) /\ Goto(p, "clean")
  <2>1. Changed(p) /\ call'[p].step = "clean" /\ call'[p].id = i /\ call'[p].data = d
    BY <1>4, GotoIs DEF Steps
  <2>2. saved' = saved /\ alone' = alone /\ wal' = wal /\ writes' = writes
    BY <1>1 DEF history
  <2>3. /\ main' \in [Sessions -> Files] /\ main'[i] = d
        /\ \A j \in Sessions \ {i} : main'[j] = main[j]
    <3>1. main \in [Sessions -> Files]
      BY DEF IInv, Disk, Stored
    <3> QED
      BY <1>2, <1>4, <3>1, FilesIs
  <2>4. Disk'
    <3>1. OnDisk(i)
      BY <1>2 DEF IInv, Disk
    <3>2. OnDisk(i)'
      BY <1>2, <2>2, <2>3, <3>1 DEF OnDisk
    <3>3. Stored'
      BY <2>2, <2>3 DEF IInv, Disk, Stored
    <3>4. writes <= writes'
      BY <1>2, <2>2, Numbers
    <3> QED
      BY <1>2, <2>2, <2>3, <3>2, <3>3, <3>4, DiskStep
  <2>5. Tables' /\ Steady
    BY <1>1, <1>2, <2>2, TablesKept, Numbers DEF Steady
  <2>6. Fit(p)'
    <3>1. d.upd <= main'[i].upd /\ (i \in alone' => saved'[i] <= main'[i].upd)
      BY <1>2, <2>2, <2>3
    <3> QED
      BY <1>2, <2>1, <2>2, <3>1 DEF Fit, EndSteps
  <2>7. ASSUME NEW q \in Calls \ {p} PROVE Undisturbed(q) /\ Apart(p, q)'
    <3>1. call[p].step \in WritingSteps /\ call'[p].step \in WritingSteps
      BY <1>1, <2>1 DEF At, WritingSteps
    <3>2. Apart(p, q)'
      BY <2>1, <2>2, <3>1, StillWriting
    <3>3. call[q].id = i /\ i \in alone => call[q].step \notin WritingSteps
      BY <3>1, WritesAlone
    <3>4. call[q].step \in WritingSteps => call[q].id \in Sessions
      BY DEF IInv, CallsFit, Fit, SessionSteps
    <3>5. Undisturbed(q)
      BY <1>1, <2>2, <2>3, <3>3, <3>4 DEF Undisturbed
    <3> QED
      BY <3>2, <3>5
  <2> QED
    BY <1>1, <1>2, <2>1, <2>4, <2>5, <2>6, <2>7, Working
<1> QED
  BY <1>3, <1>4 DEF WriteMain

LEMMA RemoveWalGood == ASSUME IInv, NEW p \in Calls, RemoveWal(p) PROVE Good
<1>0. call[p].id \in Sessions /\ call[p].data \in Files
  BY Persisting DEF RemoveWal, WritingSteps
<1> SUFFICES ASSUME NEW i \in Sessions, i = call[p].id, NEW d \in Files, d = call[p].data
             PROVE  Good
  BY <1>0
<1>1. /\ At(p, "clean") /\ Goto(p, "settle") /\ wal' \in {wal, [wal EXCEPT ![i] = NoFile]}
      /\ UNCHANGED <<up, table, dirty, tmux, main, writes, ended, history>>
  BY DEF RemoveWal
<1>2. /\ up /\ i \in Sessions /\ d.of \in Entries /\ d.upd <= writes
      /\ i \in alone => /\ saved[i] <= main[i].upd
                        /\ table[i] # Absent => d.upd <= main[i].upd
  BY <1>1, Persisting DEF WritingSteps
<1>3. Changed(p) /\ call'[p].step = "settle" /\ call'[p].id = i /\ call'[p].data = d
  BY <1>1, GotoIs DEF Steps
<1>4. saved' = saved /\ alone' = alone /\ main' = main /\ writes' = writes
  BY <1>1 DEF history
<1>5. /\ wal' \in [Sessions -> Files] /\ wal'[i] \in {wal[i], NoFile}
      /\ \A j \in Sessions \ {i} : wal'[j] = wal[j]
  BY <1>1, <1>2, NoCallIs DEF IInv, Disk, Stored
<1>6. Disk'
  <2>1. NoFile.upd <= writes /\ writes <= writes'
    BY <1>2, <1>4, Numbers, NoCallIs
  <2>2. OnDisk(i)
    BY <1>2 DEF IInv, Disk
  <2>3. OnDisk(i)'
    BY <1>2, <1>4, <1>5, <2>1, <2>2 DEF OnDisk
  <2>4. Stored'
    BY <1>4, <1>5 DEF IInv, Disk, Stored
  <2> QED
    BY <1>2, <1>4, <1>5, <2>1, <2>3, <2>4, DiskStep
<1>7. Tables' /\ Steady
  BY <1>1, <1>2, <1>4, TablesKept, Numbers DEF Steady
<1>8. Fit(p)'
  BY <1>1, <1>2, <1>3, <1>4 DEF Fit, EndSteps
<1>9. ASSUME NEW q \in Calls \ {p} PROVE Undisturbed(q) /\ Apart(p, q)'
  <2>1. Apart(p, q)'
    BY <1>1, <1>3, <1>4, StillWriting DEF At, WritingSteps
  <2> QED
    BY <1>1, <1>4, <2>1 DEF Undisturbed
<1> QED
  BY <1>1, <1>2, <1>3, <1>6, <1>7, <1>8, <1>9, Working

LEMMA SettleGood == ASSUME IInv, NEW p \in Calls, Settle(p) PROVE Good
<1>0. call[p].id \in Sessions /\ call[p].data \in Files
  BY Persisting DEF Settle, WritingSteps
<1> SUFFICES ASSUME NEW i \in Sessions, i = call[p].id, NEW d \in Files, d = call[p].data
             PROVE  Good
  BY <1>0
<1>1. /\ At(p, "settle") /\ Return(p, TRUE)
      /\ dirty' \in {dirty, dirty \cup {i}, dirty \ {i}}
      /\ i \notin Listed => dirty' = dirty /\ saved' = saved
      /\ saved' \in {saved, [saved EXCEPT ![i] = d.upd]}
      /\ UNCHANGED <<up, table, tmux, files, ended, alone>>
  BY DEF Settle
<1>2. /\ up /\ d.upd <= writes /\ d.upd \in Nat
      /\ i \in alone /\ table[i] # Absent => d.upd <= main[i].upd
  BY <1>1, Persisting DEF WritingSteps
<1>3. Plain(p) /\ call'[p].step # "spawn"
  BY <1>1, ReturnPlain
<1>4. main' = main /\ wal' = wal /\ writes' = writes /\ alone' = alone
  BY <1>1 DEF files
<1>5. d.upd \in 0..MaxWrites
  BY DEF Files
<1>6. /\ saved' \in [Sessions -> 0..MaxWrites] /\ saved'[i] \in {saved[i], d.upd}
      /\ saved'[i] = saved[i] \/ i \in Listed
      /\ \A j \in Sessions \ {i} : saved'[j] = saved[j]
  BY <1>1, <1>5 DEF IInv, Disk, Stored
<1>7. Disk'
  <2>1. OnDisk(i)
    BY DEF IInv, Disk
  <2>2. i \in Listed => table[i] # Absent
    BY DEF Listed
  <2>3. OnDisk(i)'
    BY <1>2, <1>4, <1>6, <2>1, <2>2 DEF OnDisk
  <2>4. Stored'
    BY <1>4, <1>6 DEF IInv, Disk, Stored
  <2>5. writes <= writes'
    BY <1>4, Numbers
  <2> QED
    BY <1>4, <1>6, <2>3, <2>4, <2>5, DiskStep
<1>8. Tables'
  BY <1>1 DEF IInv, Tables, Listed
<1>9. Steady /\ writes' \in Nat /\ writes <= writes'
  BY <1>1, <1>4, Numbers DEF Steady
<1>10. Fit(p)' /\ \A q \in Calls : Apart(p, q)'
  BY <1>3, <1>9, PlainFit
<1>11. ASSUME NEW q \in Calls \ {p} PROVE Undisturbed(q)
  <2>1. call[p].step \in WritingSteps
    BY <1>1 DEF At, WritingSteps
  <2>2. call[q].id = i /\ i \in alone => call[q].step \notin WritingSteps
    BY <2>1, WritesAlone
  <2>3. call[q].step \in WritingSteps => call[q].id \in Sessions
    BY DEF IInv, CallsFit, Fit, SessionSteps
  <2> QED
    BY <1>1, <1>4, <1>6, <2>2, <2>3 DEF Undisturbed
<1>12. Changed(p)
  BY <1>3 DEF Plain
<1> QED
  BY <1>1, <1>2, <1>3, <1>7, <1>8, <1>9, <1>10, <1>11, <1>12, Working

-----------------------------------------------------------------------------
\* Ending a session.

\* Whoever ends a session is alone with it.
LEMMA EndsAlone ==
  ASSUME IInv, NEW p \in Calls, call[p].step \in EndSteps, NEW q \in Calls \ {p},
         call[q].id = call[p].id
  PROVE  call[q].step \notin EndSteps
BY DEF IInv, CallsFit, Apart

LEMMA Ending ==
  ASSUME IInv, NEW p \in Calls, NEW s \in EndSteps, At(p, s)
  PROVE  /\ up /\ call[p].id \in Sessions
         /\ table[call[p].id] = Absent /\ ended[call[p].id] = 0
<1>1. up /\ call[p].id \in Sessions
  BY Going DEF SessionSteps
<1>2. Fit(p) /\ call[p].step = s
  BY DEF At, IInv, CallsFit
<1> QED
  BY <1>1, <1>2 DEF Fit

\* A call that goes on ending the session it has.
LEMMA StillEnding ==
  ASSUME IInv, NEW p \in Calls, Changed(p), call[p].id \in Sessions,
         call'[p].id = call[p].id, call'[p].step \in EndSteps, call'[p].data = call[p].data,
         table'[call[p].id] = Absent, ended'[call[p].id] = 0, writes' = writes,
         \A q \in Calls \ {p} : call[q].id = call[p].id => call[q].step \notin EndSteps
  PROVE  Fit(p)' /\ \A q \in Calls \ {p} : Apart(p, q)'
<1>1. call'[p].step \notin WritingSteps /\ call'[p].step \notin {"main", "clean", "settle"}
  BY DEF WritingSteps, EndSteps
<1>2. Fit(p)'
  <2>1. call[p].data.upd <= writes
    BY DEF IInv, CallsFit, Fit
  <2> QED
    BY <1>1, <2>1 DEF Fit
<1>3. ASSUME NEW q \in Calls \ {p} PROVE Apart(p, q)'
  BY <1>1 DEF Apart, Changed
<1> QED
  BY <1>2, <1>3

LEMMA DeleteGood == ASSUME IInv, NEW p \in Calls, Delete(p) PROVE Good
<1>1. At(p, "delete") /\ UNCHANGED <<up, tmux, files, ended, history>>
  BY DEF Delete
<1>0. up /\ call[p].id \in Sessions
  BY <1>1, Going DEF SessionSteps
<1> SUFFICES ASSUME NEW i \in Sessions, i = call[p].id PROVE Good
  BY <1>0
<1>2. /\ Disk' /\ main' = main /\ writes' = writes
      /\ saved' = saved /\ alone' = alone /\ writes' \in Nat
  BY <1>1, DiskKept
<1>3. CASE i \notin Listed
  <2>1. Goto(p, call[p].back) /\ UNCHANGED <<table, dirty>>
    BY <1>3 DEF Delete
  <2>2. call[p].back \in {"next", "limit", "done"}
    BY DEF IInv, CallsFit, CallRows
  <2>3. /\ call[p].back \in Steps /\ call[p].back \notin WritingSteps \cup EndSteps
        /\ call[p].back # "spawn"
    BY <2>2 DEF Steps, WritingSteps, EndSteps
  <2>4. Plain(p) /\ call'[p].step # "spawn"
    BY <1>0, <2>1, <2>3, GotoPlain
  <2> QED
    BY <1>0, <1>1, <2>1, <2>4, Quiet
<1>4. CASE i \in Listed
  <2>1. /\ table' = [table EXCEPT ![i] = Absent] /\ dirty' = dirty \ {i} /\ Goto(p, "kill")
    BY <1>4 DEF Delete
  <2>2. /\ Changed(p) /\ call'[p].step = "kill" /\ call'[p].id = i
        /\ call'[p].data = call[p].data
    BY <2>1, GotoIs DEF Steps
  <2>3. table'[i] = Absent /\ \A j \in Sessions \ {i} : table'[j] = table[j]
    BY <2>1 DEF IInv, Tables
  <2>4. Listed' = Listed \ {i}
    BY <2>3 DEF Listed
  <2>5. Tables'
    BY <1>1, <2>1, <2>4 DEF IInv, Tables
  <2>6. table[i] # Absent /\ ended[i] = 0
    BY <1>4, EntryIs DEF IInv, Tables
  <2>7. Steady
    BY <1>2, <2>3 DEF Steady
  <2>8. Fit(p)' /\ \A q \in Calls \ {p} : Apart(p, q)'
    <3>1. \A q \in Calls \ {p} : call[q].id = i => call[q].step \notin EndSteps
      BY <2>6 DEF IInv, CallsFit, Fit
    <3>2. call'[p].step \in EndSteps
      BY <2>2 DEF EndSteps
    <3> QED
      BY <1>1, <1>2, <2>2, <2>3, <2>6, <3>1, <3>2, StillEnding
  <2>9. \A q \in Calls \ {p} : Undisturbed(q)
    BY <1>1, <1>2 DEF Undisturbed
  <2>10. call'[p].step # "spawn" /\ \A j \in Sessions : ended[j] > 0 => ended'[j] > 0
    BY <1>1, <2>2
  <2> QED
    BY <1>0, <1>1, <1>2, <2>2, <2>5, <2>7, <2>8, <2>9, <2>10, Working
<1> QED
  BY <1>3, <1>4

LEMMA KillTmuxGood == ASSUME IInv, NEW p \in Calls, KillTmux(p) PROVE Good
<1>1. /\ At(p, "kill") /\ Goto(p, "remove") /\ tmux' = tmux \ {call[p].id}
      /\ UNCHANGED <<up, table, dirty, files, ended, history>>
  BY DEF KillTmux
<1>2. /\ up /\ call[p].id \in Sessions
      /\ table[call[p].id] = Absent /\ ended[call[p].id] = 0
  BY <1>1, Ending DEF EndSteps
<1>3. /\ Disk' /\ main' = main /\ writes' = writes
      /\ saved' = saved /\ alone' = alone /\ writes' \in Nat
  BY <1>1, DiskKept
<1>4. /\ Changed(p) /\ call'[p].step = "remove" /\ call'[p].id = call[p].id
      /\ call'[p].data = call[p].data
  BY <1>1, GotoIs DEF Steps
<1>5. Tables'
  BY <1>1 DEF IInv, Tables, Listed
<1>6. Steady
  BY <1>1, <1>3 DEF Steady
<1>7. Fit(p)' /\ \A q \in Calls \ {p} : Apart(p, q)'
  <2>1. \A q \in Calls \ {p} : call[q].id = call[p].id => call[q].step \notin EndSteps
    BY <1>1, EndsAlone DEF At, EndSteps
  <2>2. call'[p].step \in EndSteps
    BY <1>4 DEF EndSteps
  <2> QED
    BY <1>1, <1>2, <1>3, <1>4, <2>1, <2>2, StillEnding
<1>8. \A q \in Calls \ {p} : Undisturbed(q)
  BY <1>1, <1>3 DEF Undisturbed
<1>9. /\ call'[p].step # "spawn" /\ tmux' \subseteq tmux
      /\ \A j \in Sessions : ended[j] > 0 => ended'[j] > 0
  BY <1>1, <1>4
<1> QED
  BY <1>1, <1>2, <1>3, <1>4, <1>5, <1>6, <1>7, <1>8, <1>9, Working

LEMMA RemoveFilesGood == ASSUME IInv, NEW p \in Calls, RemoveFiles(p) PROVE Good
<1>1. /\ At(p, "remove") /\ UNCHANGED <<up, table, dirty, tmux, writes, ended, alone>>
  BY DEF RemoveFiles
<1>2. /\ up /\ call[p].id \in Sessions
      /\ table[call[p].id] = Absent /\ ended[call[p].id] = 0
  BY <1>1, Ending DEF EndSteps
<1> SUFFICES ASSUME NEW i \in Sessions, i = call[p].id PROVE Good
  BY <1>2
<1>3. /\ saved' = [saved EXCEPT ![i] = 0]
      /\ main' \in {main, [main EXCEPT ![i] = NoFile]}
      /\ wal' \in {wal, [wal EXCEPT ![i] = NoFile]}
      /\ UNCHANGED call \/ Goto(p, "tell")
  BY DEF RemoveFiles
<1>4. /\ Changed(p) /\ call'[p].id = i /\ call'[p].data = call[p].data
      /\ call'[p].step \in {"remove", "tell"}
  <2>1. CASE UNCHANGED call
    BY <1>1, <2>1 DEF Changed, At, IInv, CallsFit
  <2>2. CASE Goto(p, "tell")
    BY <2>2, GotoIs DEF Steps
  <2> QED
    BY <1>3, <2>1, <2>2
<1>5. 0 \in 0..MaxWrites /\ 0 <= writes /\ writes <= writes'
  BY <1>1, Numbers
<1>6. Stored'
  BY <1>1, <1>3, <1>5, NoCallIs DEF IInv, Disk, Stored
<1>7. /\ saved'[i] = 0 /\ main'[i] \in {main[i], NoFile} /\ wal'[i] \in {wal[i], NoFile}
      /\ \A j \in Sessions \ {i} :
           main'[j] = main[j] /\ wal'[j] = wal[j] /\ saved'[j] = saved[j]
  BY <1>3 DEF IInv, Disk, Stored
<1>8. Disk'
  <2>1. OnDisk(i)
    BY DEF IInv, Disk
  <2>2. 0 <= main'[i].upd
    BY <1>7, Numbers, NoCallIs
  <2>3. OnDisk(i)'
    BY <1>1, <1>5, <1>7, <2>1, <2>2, NoCallIs DEF OnDisk
  <2> QED
    BY <1>1, <1>5, <1>6, <1>7, <2>3, DiskStep
<1>9. Tables' /\ Steady
  BY <1>1, <1>5, TablesKept DEF Steady
<1>10. Fit(p)' /\ \A q \in Calls \ {p} : Apart(p, q)'
  <2>1. \A q \in Calls \ {p} : call[q].id = i => call[q].step \notin EndSteps
    BY <1>1, EndsAlone DEF At, EndSteps
  <2>2. call'[p].step \in EndSteps
    BY <1>4 DEF EndSteps
  <2> QED
    BY <1>1, <1>2, <1>4, <2>1, <2>2, StillEnding
<1>11. ASSUME NEW q \in Calls PROVE Undisturbed(q)
  <2>1. call[q].step \in WritingSteps => call[q].id \in Sessions
    BY DEF IInv, CallsFit, Fit, SessionSteps
  <2> QED
    BY <1>1, <1>2, <1>7, <2>1 DEF Undisturbed
<1>12. /\ call'[p].step # "spawn" /\ tmux' \subseteq tmux
       /\ \A j \in Sessions : ended[j] > 0 => ended'[j] > 0
  BY <1>1, <1>4
<1> QED
  BY <1>1, <1>2, <1>4, <1>8, <1>9, <1>10, <1>11, <1>12, Working

LEMMA TellGood == ASSUME IInv, NEW p \in Calls, Tell(p) PROVE Good
<1>1. /\ At(p, "tell") /\ Goto(p, call[p].back)
      /\ UNCHANGED <<up, table, dirty, tmux, files, history>>
  BY DEF Tell
<1>2. /\ up /\ call[p].id \in Sessions
      /\ table[call[p].id] = Absent /\ ended[call[p].id] = 0
  BY <1>1, Ending DEF EndSteps
<1> SUFFICES ASSUME NEW i \in Sessions, i = call[p].id PROVE Good
  BY <1>2
<1>3. ended' = [ended EXCEPT ![i] = 1]
  BY <1>2 DEF Tell
<1>4. ended' \in [Sessions -> 0..1] /\ \A j \in Sessions \ {i} : ended'[j] = ended[j]
  BY <1>3 DEF IInv, Tables
<1>5. Tables'
  BY <1>1, <1>2, <1>4 DEF IInv, Tables, Listed
<1>6. /\ Disk' /\ main' = main /\ writes' = writes
      /\ saved' = saved /\ alone' = alone /\ writes' \in Nat
  BY <1>1, DiskKept
<1>7. Steady
  BY <1>1, <1>6 DEF Steady
<1>8. Plain(p) /\ call'[p].step # "spawn"
  <2>1. call[p].back \in {"next", "limit", "done"}
    BY DEF IInv, CallsFit, CallRows
  <2>2. /\ call[p].back \in Steps /\ call[p].back \notin WritingSteps \cup EndSteps
        /\ call[p].back # "spawn"
    BY <2>1 DEF Steps, WritingSteps, EndSteps
  <2> QED
    BY <1>1, <1>2, <2>2, GotoPlain
<1>9. Changed(p) /\ Fit(p)' /\ \A q \in Calls : Apart(p, q)'
  BY <1>6, <1>8, PlainFit DEF Plain
<1>10. ASSUME NEW q \in Calls \ {p} PROVE Undisturbed(q)
  <2>1. call[q].id = i => call[q].step \notin EndSteps
    BY <1>1, EndsAlone DEF At, EndSteps
  <2>2. call[q].step \in EndSteps => call[q].id \in Sessions
    BY DEF IInv, CallsFit, Fit, SessionSteps
  <2> QED
    BY <1>4, <1>6, <2>1, <2>2 DEF Undisturbed
<1>11. \A j \in Sessions : ended[j] > 0 => ended'[j] > 0
  BY <1>3 DEF IInv, Tables
<1>12. up' = up /\ tmux' \subseteq tmux
  BY <1>1
<1> QED
  BY <1>2, <1>5, <1>6, <1>7, <1>8, <1>9, <1>10, <1>11, <1>12, Working

LEMMA ContinueGood == ASSUME IInv, NEW p \in Calls, Continue(p) PROVE Good
BY SpawnGood, CheckGood, AttachedGood, KeysSentGood, RollBackGood, NextSessionGood,
   RemarkGood, SnapshotGood, WriteWalGood, WriteMainGood, RemoveWalGood, SettleGood,
   DeleteGood, KillTmuxGood, RemoveFilesGood, TellGood, EnforceLimitGood, FinishGood
   DEF Continue

-----------------------------------------------------------------------------
\* A shell that exits, and the server that stops and starts.

LEMMA ShellExitsGood == ASSUME IInv, NEW i \in Sessions, ShellExits(i) PROVE Good
<1>1. tmux' = tmux \ {i} /\ UNCHANGED <<up, table, dirty, files, call, ended, history>>
  BY DEF ShellExits
<1>2. /\ Disk' /\ main' = main /\ writes' = writes
      /\ saved' = saved /\ alone' = alone /\ writes' \in Nat
  BY <1>1, DiskKept
<1>3. Tables'
  BY <1>1 DEF IInv, Tables, Listed
<1>4. CallsFit' /\ Down'
  BY <1>1, <1>2 DEF IInv, CallsFit, Fit, Apart, Down, Listed
<1>5. Steady
  BY <1>1, <1>2 DEF Steady
<1>6. StaysDead
  BY <1>1, <1>5, DeadKept DEF At
<1> QED
  BY <1>2, <1>3, <1>4, <1>6 DEF Good, IInv

\* No calls are under way.
LEMMA NoCalls ==
  ASSUME Disk', call' = [p \in Calls |-> NoCall]
  PROVE  CallsFit' /\ \A p \in Calls : call'[p] = NoCall
<1>1. \A p \in Calls : call'[p] = NoCall
  OBVIOUS
<1>2. writes' \in Nat /\ 0 <= writes'
  BY TerminalConstants DEF TerminalConstants, Disk, Stored
<1>3. ASSUME NEW p \in Calls PROVE Fit(p)'
  <2>1. call'[p].step = "none" /\ call'[p].data.upd <= writes'
    BY <1>1, <1>2, NoCallIs
  <2> QED
    BY <2>1 DEF Fit, SessionSteps, WritingSteps, EndSteps
<1>4. ASSUME NEW p \in Calls, NEW q \in Calls PROVE Apart(p, q)'
  <2>1. call'[p].step = "none"
    BY <1>1, NoCallIs
  <2> QED
    BY <2>1 DEF Apart, WritingSteps, EndSteps
<1>5. call' \in [Calls -> CallRows]
  BY NoCallIs
<1> QED
  BY <1>1, <1>3, <1>4, <1>5 DEF CallsFit

LEMMA CrashGood == ASSUME IInv, Crash PROVE Good
<1>1. /\ table' = [i \in Sessions |-> IF i \in Listed THEN Absent ELSE table[i]]
      /\ up' = FALSE /\ dirty' = {} /\ call' = [p \in Calls |-> NoCall]
      /\ UNCHANGED <<tmux, files, ended, history>>
  BY DEF Crash
<1>2. /\ Disk' /\ main' = main /\ writes' = writes
      /\ saved' = saved /\ alone' = alone /\ writes' \in Nat
  BY <1>1, DiskKept
<1>3. CallsFit' /\ \A p \in Calls : call'[p] = NoCall
  BY <1>1, <1>2, NoCalls
<1>4. Listed' = {}
  BY <1>1 DEF Listed
<1>5. Tables'
  BY <1>1, <1>4 DEF IInv, Tables
<1>6. Steady
  BY <1>1, <1>2 DEF Steady
<1>7. StaysDead
  <2>1. \A p \in Calls : ~At(p, "spawn")'
    BY <1>3, NoCallIs DEF At
  <2> QED
    BY <1>1, <1>6, <2>1, DeadKept
<1> QED
  BY <1>2, <1>3, <1>4, <1>5, <1>7 DEF Good, IInv, Down

LEMMA ChosenIs ==
  ASSUME IInv, NEW i \in Sessions
  PROVE  /\ Chosen(i) \in Files /\ Chosen(i).upd <= writes /\ Chosen(i).upd \in Nat
         /\ Chosen(i) # NoFile => Chosen(i).of \in Entries
         /\ main[i].upd <= Chosen(i).upd /\ wal[i].upd <= Chosen(i).upd
<1>1. main[i] \in Files /\ wal[i] \in Files /\ OnDisk(i) /\ MaxWrites \in Nat
  BY TerminalConstants DEF TerminalConstants, IInv, Disk, Stored
<1>2. main[i].upd \in Nat /\ wal[i].upd \in Nat
  BY <1>1 DEF Files
<1>3. CASE wal[i].upd >= main[i].upd
  <2>1. Chosen(i) = wal[i]
    BY <1>3 DEF Chosen
  <2> QED
    BY <1>1, <1>2, <1>3, <2>1 DEF OnDisk
<1>4. CASE ~(wal[i].upd >= main[i].upd)
  <2>1. Chosen(i) = main[i]
    BY <1>4 DEF Chosen
  <2> QED
    BY <1>1, <1>2, <1>4, <2>1 DEF OnDisk
<1> QED
  BY <1>3, <1>4

\* A restart keeps what was saved: a session that comes back has the newer of
\* its files, and the others have none, or one of now.
LEMMA LoadGood ==
  ASSUME IInv, NEW idle \in SUBSET Sessions, NEW failing \in SUBSET Sessions, Load(idle, failing)
  PROVE  Good
<1> DEFINE back == Reloaded(idle, failing)
           orphans == (tmux \ idle) \ back
           e == Entry(Default, NoTask)
           w == writes + 1
           new == [upd |-> w, of |-> e]
<1>1. /\ ~up /\ up' = TRUE
      /\ orphans # {} => writes < MaxWrites
  BY DEF Load
<1>2. /\ writes' = IF orphans = {} THEN writes ELSE w
      /\ tmux' = tmux \ idle /\ UNCHANGED <<dirty, call, alone>>
  BY DEF Load
<1>3. /\ table' = [i \in Sessions |-> IF i \in back THEN Chosen(i).of
                                      ELSE IF i \in orphans THEN e ELSE table[i]]
      /\ main' = [i \in Sessions |-> IF i \in back THEN Chosen(i)
                                     ELSE IF i \in orphans THEN new ELSE NoFile]
      /\ wal' = [i \in Sessions |-> NoFile]
      /\ ended' = [i \in Sessions |-> IF i \in back \cup orphans THEN 0 ELSE ended[i]]
      /\ saved' = [i \in Sessions |-> IF i \in back THEN saved[i] ELSE main'[i].upd]
  BY DEF Load
<1>4. /\ back \subseteq tmux /\ orphans \subseteq tmux /\ back \cap orphans = {}
      /\ \A i \in back : Chosen(i) # NoFile
  BY DEF Reloaded
<1>5. e \in Entries
  BY DefaultIs
<1> HIDE DEF back, orphans, e
<1>6. writes \in Nat /\ MaxWrites \in Nat /\ writes <= MaxWrites
  BY TerminalConstants DEF TerminalConstants, IInv, Disk, Stored
<1>7. writes' \in 0..MaxWrites /\ writes' \in Nat /\ writes <= writes'
  BY <1>1, <1>2, <1>6
<1>8. ASSUME NEW i \in orphans
      PROVE  new \in Files /\ new.upd = writes' /\ new.of = e
  <2>1. orphans # {}
    OBVIOUS
  <2>2. w = writes'
    BY <1>2, <2>1
  <2> HIDE DEF w
  <2> QED
    BY <1>5, <1>7, <2>2 DEF Files
<1> HIDE DEF new, w
<1>9. ASSUME NEW i \in Sessions
      PROVE  /\ table'[i] \in Entries \cup {Fresh, Absent} /\ main'[i] \in Files
             /\ saved'[i] \in 0..MaxWrites /\ OnDisk(i)'
             /\ table'[i] # Absent => ended'[i] = 0
  <2>1. OnDisk(i) /\ saved[i] \in 0..MaxWrites /\ (table[i] # Absent => ended[i] = 0)
    BY DEF IInv, Disk, Stored, Tables
  <2>2. wal'[i] = NoFile /\ wal'[i].upd = 0 /\ 0 <= writes'
    BY <1>3, <1>7, NoCallIs
  <2>3. CASE i \in back
    <3>1. /\ main'[i] = Chosen(i) /\ table'[i] = Chosen(i).of
          /\ ended'[i] = 0 /\ saved'[i] = saved[i]
      BY <1>3, <2>3
    <3>2. /\ Chosen(i) \in Files /\ Chosen(i).upd <= writes' /\ Chosen(i).of \in Entries
          /\ saved[i] <= writes'
          /\ i \in alone => saved[i] <= Chosen(i).upd
      <4>1. main[i].upd \in Nat /\ wal[i].upd \in Nat /\ saved[i] \in Nat
        <5>1. main[i] \in Files /\ wal[i] \in Files
          BY DEF IInv, Disk, Stored
        <5> QED
          BY <1>6, <2>1, <5>1 DEF Files
      <4>2. /\ Chosen(i) \in Files /\ Chosen(i).upd <= writes /\ Chosen(i).upd \in Nat
            /\ Chosen(i).of \in Entries
            /\ main[i].upd <= Chosen(i).upd /\ wal[i].upd <= Chosen(i).upd
        BY <1>4, <2>3, ChosenIs
      <4> QED
        BY <1>6, <1>7, <2>1, <4>1, <4>2 DEF OnDisk
    <3> QED
      BY <1>2, <2>1, <2>2, <3>1, <3>2 DEF OnDisk
  <2>4. CASE i \in orphans
    <3>1. main'[i] = new /\ table'[i] = e /\ ended'[i] = 0 /\ saved'[i] = new.upd
      BY <1>3, <1>4, <2>4
    <3>2. writes' <= writes'
      BY <1>7
    <3> QED
      BY <1>5, <1>7, <1>8, <2>2, <2>4, <3>1, <3>2 DEF OnDisk
  <2>5. CASE i \notin back /\ i \notin orphans
    <3>1. main'[i] = NoFile /\ table'[i] = table[i] /\ ended'[i] = ended[i] /\ saved'[i] = 0
      BY <1>3, <2>5, NoCallIs
    <3>2. 0 \in 0..MaxWrites /\ 0 <= 0
      BY <1>6
    <3>3. table[i] \in Entries \cup {Fresh, Absent}
      BY DEF IInv, Tables
    <3> QED
      BY <2>1, <2>2, <3>1, <3>2, <3>3, NoCallIs DEF OnDisk
  <2> QED
    BY <2>3, <2>4, <2>5
<1>10. Disk'
  <2>1. main' \in [Sessions -> Files] /\ saved' \in [Sessions -> 0..MaxWrites]
    BY <1>3, <1>9
  <2>2. wal' \in [Sessions -> Files]
    BY <1>3, NoCallIs
  <2>3. alone' \subseteq Sessions
    BY <1>2 DEF IInv, Disk, Stored
  <2> QED
    BY <1>7, <1>9, <2>1, <2>2, <2>3 DEF Disk, Stored
<1>11. Listed = {} /\ \A p \in Calls : call[p] = NoCall
  BY <1>1 DEF IInv, Down
<1>12. Tables'
  <2>1. table' \in [Sessions -> Entries \cup {Fresh, Absent}]
    BY <1>3, <1>9
  <2>2. dirty' = {} /\ tmux' \subseteq Sessions
    BY <1>2, <1>11 DEF IInv, Tables
  <2>3. ended' \in [Sessions -> 0..1]
    BY <1>3 DEF IInv, Tables
  <2> QED
    BY <1>1, <1>9, <2>1, <2>2, <2>3 DEF Tables
<1>13. CallsFit'
  <2>1. call' = [p \in Calls |-> NoCall]
    BY <1>2, <1>11 DEF IInv, CallsFit
  <2> QED
    BY <1>10, <2>1, NoCalls
<1>14. StaysDead
  <2> SUFFICES ASSUME NEW i \in Sessions, Dead(i) PROVE Dead(i)'
    BY DEF StaysDead
  <2>1. i \notin tmux /\ ended[i] > 0
    BY DEF Dead
  <2>2. table'[i] = table[i] /\ ended'[i] = ended[i]
    BY <1>3, <1>4, <2>1
  <2>3. table[i] = Absent
    BY DeadIs
  <2>4. i \notin Listed'
    BY <2>2, <2>3 DEF Listed
  <2> QED
    BY <1>2, <2>1, <2>2, <2>4 DEF Dead, At
<1> QED
  BY <1>1, <1>10, <1>12, <1>13, <1>14 DEF Good, IInv, Down

-----------------------------------------------------------------------------
\* The invariant.

LEMMA InitGood == Init => IInv
<1> SUFFICES ASSUME Init PROVE IInv
  OBVIOUS
<1>1. MaxWrites \in Nat /\ 0 \in 0..MaxWrites /\ Fresh # Absent
  BY TerminalConstants DEF TerminalConstants
<1>2. Tables
  BY <1>1 DEF Init, Tables, Listed
<1>3. Stored
  BY <1>1, NoCallIs DEF Init, Stored
<1>4. ASSUME NEW i \in Sessions PROVE OnDisk(i)
  <2>1. main[i] = NoFile /\ wal[i] = NoFile /\ saved[i] = 0 /\ writes = 0
    BY DEF Init
  <2> QED
    BY <2>1, NoCallIs DEF OnDisk
<1>5. CallsFit
  <2>1. \A p \in Calls : call[p] = NoCall
    BY DEF Init
  <2>2. call \in [Calls -> CallRows]
    BY NoCallIs DEF Init
  <2>3. ASSUME NEW p \in Calls PROVE Fit(p)
    <3>1. call[p].step = "none" /\ call[p].data.upd = 0 /\ writes = 0
      BY <2>1, NoCallIs DEF Init
    <3> QED
      BY <3>1 DEF Fit, SessionSteps, WritingSteps, EndSteps
  <2>4. ASSUME NEW p \in Calls, NEW q \in Calls PROVE Apart(p, q)
    <3>1. call[p].step = "none"
      BY <2>1, NoCallIs
    <3> QED
      BY <3>1 DEF Apart, WritingSteps, EndSteps
  <2> QED
    BY <2>2, <2>3, <2>4 DEF CallsFit
<1>6. Down
  BY DEF Init, Down
<1> QED
  BY <1>2, <1>3, <1>4, <1>5, <1>6 DEF IInv, Disk

LEMMA StepGood == ASSUME IInv, [Next]_vars PROVE Good
<1>1. ASSUME NEW p \in Calls, Request(p) \/ Continue(p) PROVE Good
  BY <1>1, RequestGood, ContinueGood
<1>2. ASSUME NEW i \in Sessions, ShellExits(i) PROVE Good
  BY <1>2, ShellExitsGood
<1>3. ASSUME NEW idle \in SUBSET Sessions, NEW failing \in SUBSET Sessions, Load(idle, failing)
      PROVE  Good
  BY <1>3, LoadGood
<1>4. CASE UNCHANGED vars
  <2>1. UNCHANGED <<up, table, dirty, tmux, files, call, ended, history>>
    BY <1>4 DEF vars
  <2>2. /\ Disk' /\ main' = main /\ writes' = writes
        /\ saved' = saved /\ alone' = alone /\ writes' \in Nat
    BY <2>1, DiskKept
  <2>3. Tables' /\ Listed' = Listed
    BY <2>1, TablesKept
  <2>4. CallsFit' /\ Down'
    BY <2>1, <2>2, <2>3 DEF IInv, CallsFit, Fit, Apart, Down
  <2>5. StaysDead
    BY <2>1, <2>3 DEF StaysDead, Dead, At
  <2> QED
    BY <2>2, <2>3, <2>4, <2>5 DEF Good, IInv
<1> QED
  BY <1>1, <1>2, <1>3, <1>4, CrashGood DEF Next

LEMMA Invariance == Spec => []IInv
<1>1. IInv /\ [Next]_vars => IInv'
  BY StepGood DEF Good
<1> QED
  BY <1>1, InitGood, PTL DEF Spec

-----------------------------------------------------------------------------
\* What the invariant and the steps give.

\* The table, the files and the calls under way hold what they should, whatever
\* requests, persists and kills of how many sessions overlap; in particular the
\* end of a session is told once, however many find it gone.
THEOREM TypeCorrect == Spec => []TypeOK
<1>1. IInv => TypeOK
  <2> SUFFICES ASSUME IInv PROVE TypeOK
    OBVIOUS
  <2>1. ASSUME NEW i \in Sessions PROVE {main[i].upd, wal[i].upd, saved[i]} \subseteq 0..writes
    <3>1. /\ main[i] \in Files /\ wal[i] \in Files /\ saved[i] \in 0..MaxWrites
          /\ writes \in Nat /\ MaxWrites \in Nat /\ OnDisk(i)
      BY TerminalConstants DEF TerminalConstants, IInv, Disk, Stored
    <3>2. main[i].upd \in Nat /\ wal[i].upd \in Nat /\ saved[i] \in Nat
      BY <3>1 DEF Files
    <3> QED
      BY <3>1, <3>2 DEF OnDisk
  <2> QED
    BY <2>1 DEF TypeOK, IInv, Tables, Disk, Stored, CallsFit, Down
<1> QED
  BY <1>1, Invariance, PTL

\* Wherever the server stops, the files of a session hold what its last persist
\* that succeeded has written, or something newer, unless two persists of the
\* session have overlapped.
THEOREM SavedIsFound == Spec => []RestartFindsSaved
<1>1. IInv => RestartFindsSaved
  <2> SUFFICES ASSUME IInv, NEW i \in alone PROVE Chosen(i).upd >= saved[i]
    BY DEF RestartFindsSaved
  <2>1. i \in Sessions /\ OnDisk(i) /\ saved[i] \in 0..MaxWrites /\ MaxWrites \in Nat
    BY TerminalConstants DEF TerminalConstants, IInv, Disk, Stored
  <2>2. main[i] \in Files /\ wal[i] \in Files
    BY <2>1 DEF IInv, Disk, Stored
  <2>3. main[i].upd \in Nat /\ wal[i].upd \in Nat
    BY <2>1, <2>2 DEF Files
  <2>4. /\ main[i].upd <= Chosen(i).upd /\ wal[i].upd <= Chosen(i).upd
        /\ Chosen(i).upd \in Nat
    BY <2>1, ChosenIs
  <2>5. saved[i] <= main[i].upd \/ saved[i] <= wal[i].upd
    BY <2>1 DEF OnDisk
  <2> QED
    BY <2>1, <2>3, <2>4, <2>5
<1> QED
  BY <1>1, Invariance, PTL

\* A session that was told ended, that tmux does not have and that nobody is
\* about to spawn never comes back, whatever a late persist writes to its files
\* and however often the server restarts.
THEOREM DeadForGood == Spec => DeadStaysDead
<1>1. IInv /\ [Next]_vars => StaysDead
  BY StepGood DEF Good
<1> QED
  BY <1>1, Invariance, PTL DEF Spec, DeadStaysDead, StaysDead
=============================================================================
