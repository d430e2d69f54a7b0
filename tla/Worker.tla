------------------------------- MODULE Worker -------------------------------
(***************************************************************************)
(* Worker daemons (cmd/roambench-worker, internal/localruntime) that       *)
(* compete for one task. A worker claims in one loop and runs every claim  *)
(* in goroutines of its own: the execution, its heartbeat, the reader of   *)
(* the executor's output, and one report for every line of it. The server  *)
(* is what they see of it: leases that end. Who may claim, and how a       *)
(* release is judged, is the business of TaskDispatch.                     *)
(***************************************************************************)
EXTENDS Naturals, FiniteSets

CONSTANTS
  Workers,
  Leases,     \* claims that can ever be granted, as numbers
  Slots,      \* -max-concurrent
  MaxLines    \* bound: an executor writes while no one has more lines

ASSUME WorkerConstants ==
  /\ Leases \subseteq Nat /\ IsFiniteSet(Leases)
  /\ Slots \in Nat /\ MaxLines \in Nat
  /\ "none" \notin Workers

VARIABLES
  loop,       \* worker -> where its main loop is
  signal,     \* worker -> a signal waits in the channel stop
  lease,      \* lease -> "free", "active" or "gone"
  run,        \* lease -> the execution under it
  alive,      \* leases whose executor's process group runs
  lines,      \* lease -> lines its executor has written
  reports,    \* reports under way: <<lease, line>>
  accepted    \* history: lease -> outcome of the release the server accepted

vars == <<loop, signal, lease, run, alive, lines, reports, accepted>>

\* owner; step; the heartbeat goroutine; lostLease is closed; how the
\* executor ended; whether runTask interrupted it.
Idle == [owner |-> "none", step |-> "none", beats |-> FALSE, lost |-> FALSE,
         exit |-> "none", interrupted |-> FALSE]
At(l, step) == run[l].step = step
Goto(l, step) == run' = [run EXCEPT ![l].step = step]
Busy(w) == {l \in Leases : run[l].owner = w /\ run[l].step # "over"}

Init ==
  /\ loop = [w \in Workers |-> "top"] /\ signal = [w \in Workers |-> FALSE]
  /\ lease = [l \in Leases |-> "free"] /\ run = [l \in Leases |-> Idle]
  /\ alive = {} /\ lines = [l \in Leases |-> 0] /\ reports = {}
  /\ accepted = [l \in Leases |-> "none"]

-----------------------------------------------------------------------------
\* The main loop.

\* Faulty variant: shutdown does not wait for the executions.
ExitAtOnce(w) ==
  /\ loop[w] = "top" /\ signal[w]
  /\ loop' = [loop EXCEPT ![w] = "exited"] /\ signal' = [signal EXCEPT ![w] = FALSE]
  /\ UNCHANGED <<lease, run, alive, lines, reports, accepted>>

ShutDown(w) ==
  /\ loop[w] = "top" /\ signal[w]
  /\ loop' = [loop EXCEPT ![w] = "wait"] /\ signal' = [signal EXCEPT ![w] = FALSE]
  /\ UNCHANGED <<lease, run, alive, lines, reports, accepted>>

\* All slots are taken, or the server has no task: poll again later.
Pause(w) ==
  /\ loop[w] = "top" /\ ~signal[w]
  /\ loop' = [loop EXCEPT ![w] = "sleep"]
  /\ UNCHANGED <<signal, lease, run, alive, lines, reports, accepted>>

\* sleepUntil returns after the interval, or takes the signal with it.
WakeUp(w) ==
  /\ loop[w] = "sleep"
  /\ loop' = [loop EXCEPT ![w] = "top"]
  /\ signal' \in {signal, [signal EXCEPT ![w] = FALSE]}
  /\ UNCHANGED <<lease, run, alive, lines, reports, accepted>>

MayClaim(w) == Cardinality(Busy(w)) < Slots

\* The server grants the task's next lease while no other one is active ...
Claim(w, l) ==
  /\ loop[w] = "top" /\ ~signal[w] /\ MayClaim(w)
  /\ lease[l] = "free" /\ \A k \in Leases : k < l => lease[k] = "gone" /\ accepted[k] # "done"
  /\ lease' = [lease EXCEPT ![l] = "active"]
  /\ run' = [run EXCEPT ![l] = [Idle EXCEPT !.owner = w, !.step = "granted"]]
  /\ loop' = [loop EXCEPT ![w] = "claim"]
  /\ UNCHANGED <<signal, alive, lines, reports, accepted>>

\* ... and answers. The answer may get lost.
Answer(l) ==
  LET w == run[l].owner
  IN /\ At(l, "granted")
     /\ \/ /\ run' = [run EXCEPT ![l].step = "terminal", ![l].beats = TRUE]
           /\ loop' = [loop EXCEPT ![w] = "top"]
        \/ /\ Goto(l, "over")
           /\ loop' = [loop EXCEPT ![w] = "sleep"]
     /\ UNCHANGED <<signal, lease, alive, lines, reports, accepted>>

Exit(w) ==
  /\ loop[w] = "wait" /\ Busy(w) = {}
  /\ loop' = [loop EXCEPT ![w] = "exited"]
  /\ UNCHANGED <<signal, lease, run, alive, lines, reports, accepted>>

Interrupt(w) ==
  /\ loop[w] # "exited" /\ ~signal[w]
  /\ signal' = [signal EXCEPT ![w] = TRUE]
  /\ UNCHANGED <<loop, lease, run, alive, lines, reports, accepted>>

-----------------------------------------------------------------------------
\* runTask and the executor.

\* A terminal and the executor's process group, or neither.
StartExecutor(l) ==
  /\ At(l, "terminal")
  /\ \/ alive' = alive \cup {l} /\ Goto(l, "running")
     \/ /\ run' = [run EXCEPT ![l].step = "release", ![l].exit = "bad"]
        /\ UNCHANGED alive
  /\ UNCHANGED <<loop, signal, lease, lines, reports, accepted>>

Report(l) ==
  /\ lines' = [lines EXCEPT ![l] = @ + 1]
  /\ reports' = reports \cup {<<l, lines[l] + 1>>}

WriteLine(l) ==
  /\ l \in alive /\ \A k \in Leases : lines[k] < MaxLines
  /\ Report(l)
  /\ UNCHANGED <<loop, signal, lease, run, alive, accepted>>

\* The process group ends. The reader notes how, and adds one line, before
\* it closes done.
ExecutorEnds(l) ==
  /\ l \in alive
  /\ alive' = alive \ {l}
  /\ \E exit \in {"ok", "bad"} : run' = [run EXCEPT ![l].exit = exit]
  /\ Report(l)
  /\ UNCHANGED <<loop, signal, lease, accepted>>

\* Faulty variant: an interrupted executor is not waited for.
StopAndGo(l) ==
  /\ At(l, "running")
  /\ run[l].lost \/ run[l].exit = "none"
  /\ run' = [run EXCEPT ![l].step = "settle", ![l].interrupted = TRUE]
  /\ UNCHANGED <<loop, signal, lease, alive, lines, reports, accepted>>

\* The lease is lost, or the runtime bound is hit: kill the group and wait.
Stop(l) ==
  /\ At(l, "running")
  /\ run[l].lost \/ run[l].exit = "none"
  /\ run' = [run EXCEPT ![l].step = "stopping", ![l].interrupted = TRUE]
  /\ UNCHANGED <<loop, signal, lease, alive, lines, reports, accepted>>

\* done is closed; the runtime bound may have passed as well.
Observe(l) ==
  /\ At(l, "running") \/ At(l, "stopping")
  /\ run[l].exit # "none"
  /\ \E late \in {run[l].interrupted, TRUE} :
       run' = [run EXCEPT ![l].step = "settle", ![l].interrupted = late]
  /\ UNCHANGED <<loop, signal, lease, alive, lines, reports, accepted>>

\* Faulty variant: the reports are not waited for.
SettleAtOnce(l) ==
  /\ At(l, "settle")
  /\ Goto(l, "release")
  /\ UNCHANGED <<loop, signal, lease, alive, lines, reports, accepted>>

\* progress.wait, and the completion artifact.
Settle(l) ==
  /\ At(l, "settle") /\ \A r \in reports : r[1] # l
  /\ Goto(l, "release")
  /\ UNCHANGED <<loop, signal, lease, alive, lines, reports, accepted>>

Failed(l) == run[l].interrupted \/ run[l].exit # "ok"
Outcome(l) == IF Failed(l) THEN "failed" ELSE "done"

\* The server takes a release under an active lease only; it may not arrive.
Release(l) ==
  /\ At(l, "release")
  /\ \/ /\ lease[l] = "active"
        /\ lease' = [lease EXCEPT ![l] = "gone"]
        /\ accepted' = [accepted EXCEPT ![l] = Outcome(l)]
     \/ UNCHANGED <<lease, accepted>>
  /\ run' = [run EXCEPT ![l].step = "over", ![l].beats = FALSE]
  /\ UNCHANGED <<loop, signal, alive, lines, reports>>

-----------------------------------------------------------------------------
\* The lease.

\* Faulty variant: a heartbeat that is refused only ends.
HeartbeatEnds(l) ==
  /\ run[l].beats /\ lease[l] = "gone"
  /\ run' = [run EXCEPT ![l].beats = FALSE]
  /\ UNCHANGED <<loop, signal, lease, alive, lines, reports, accepted>>

\* The heartbeat of a lease that is gone closes lostLease; one that renews it,
\* or finds no server, changes nothing here.
Heartbeat(l) ==
  /\ run[l].beats /\ lease[l] = "gone"
  /\ run' = [run EXCEPT ![l].lost = TRUE, ![l].beats = FALSE]
  /\ UNCHANGED <<loop, signal, lease, alive, lines, reports, accepted>>

\* A lease runs out while the server is not reached, or is revoked.
LeaseEnds(l) ==
  /\ lease[l] = "active"
  /\ lease' = [lease EXCEPT ![l] = "gone"]
  /\ UNCHANGED <<loop, signal, run, alive, lines, reports, accepted>>

-----------------------------------------------------------------------------
\* The server takes a report, refuses it, or the command gives up.
Delivery(r) ==
  /\ r \in reports
  /\ reports' = reports \ {r}
  /\ UNCHANGED <<loop, signal, lease, run, alive, lines, accepted>>

Loop(w) == ShutDown(w) \/ Pause(w) \/ WakeUp(w) \/ Exit(w)
Execution(l) ==
  \/ Answer(l) \/ StartExecutor(l) \/ Observe(l) \/ Settle(l) \/ Release(l)

Next ==
  \/ \E w \in Workers : Loop(w) \/ Interrupt(w) \/ \E l \in Leases : Claim(w, l)
  \/ \E l \in Leases :
       \/ Execution(l) \/ Stop(l) \/ Heartbeat(l) \/ LeaseEnds(l)
       \/ WriteLine(l) \/ ExecutorEnds(l)
  \/ \E r \in reports : Delivery(r)

\* Goroutines run, tickers tick, reports end (each is one command with a
\* timeout), and a killed process group ends. Nothing else has to happen: an
\* executor may run as long as it likes.
Fairness ==
  /\ \A w \in Workers : WF_vars(Loop(w))
  /\ \A l \in Leases :
       /\ WF_vars(Execution(l)) /\ WF_vars(Heartbeat(l))
       /\ WF_vars(run[l].lost /\ Stop(l))
       /\ WF_vars(At(l, "stopping") /\ ExecutorEnds(l))
  /\ WF_vars(\E r \in reports : Delivery(r))

Spec == Init /\ [][Next]_vars /\ Fairness

-----------------------------------------------------------------------------
\* Properties.

\* Types, and where an executor can be alive; a worker runs no more of them
\* than it has slots, also while those that lost their lease are being stopped.
TypeOK ==
  /\ loop \in [Workers -> {"top", "sleep", "claim", "wait", "exited"}]
  /\ lease \in [Leases -> {"free", "active", "gone"}]
  /\ \A l \in Leases : run[l].owner \in Workers \cup {"none"} /\ lines[l] \in 0..MaxLines + 1
  /\ \A l \in alive : run[l].step \in {"running", "stopping"} /\ run[l].exit = "none"
  /\ \A w \in Workers : Cardinality({l \in alive : run[l].owner = w}) <= Slots
  /\ reports \subseteq Leases \X (1..MaxLines + 1)

\* The task is done only by an execution whose executor has ended by itself
\* and well, and none of whose reports is still to come: its last lines are
\* reported before it is released, never after.
DoneIsEarned ==
  \A l \in Leases : accepted[l] = "done" =>
    /\ run[l].exit = "ok" /\ ~run[l].interrupted /\ l \notin alive
    /\ \A r \in reports : r[1] # l

\* A worker that has exited has left no executor behind and settled all it
\* claimed ("all executions settled").
ShutdownSettles ==
  \A w \in Workers : loop[w] = "exited" => Busy(w) = {} /\ \A l \in alive : run[l].owner # w

\* An executor whose lease is gone is stopped in the end; two executors on one
\* task, one of a worker the server could not hear, do not last.
LostLeaseStops == \A l \in Leases : (l \in alive /\ lease[l] = "gone") ~> (l \notin alive)
=============================================================================
