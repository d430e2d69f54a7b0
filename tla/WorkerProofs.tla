---------------------------- MODULE WorkerProofs ----------------------------
(***************************************************************************)
(* What holds of worker daemons for any number of workers, leases, slots   *)
(* and lines: the slots are a limit, a task is done only by an executor    *)
(* that ended well, and a worker that has exited has left nothing behind.  *)
(***************************************************************************)
EXTENDS Worker, FiniteSetTheorems, TLAPS

-----------------------------------------------------------------------------
\* The inductive invariant.

LoopStates == {"top", "sleep", "claim", "wait", "exited"}
RunSteps == {"none", "granted", "terminal", "running", "stopping", "settle", "release", "over"}
Runs == [owner : Workers \cup {"none"}, step : RunSteps, beats : BOOLEAN, lost : BOOLEAN,
         exit : {"none", "ok", "bad"}, interrupted : BOOLEAN]

Types ==
  /\ loop \in [Workers -> LoopStates] /\ signal \in [Workers -> BOOLEAN]
  /\ lease \in [Leases -> {"free", "active", "gone"}]
  /\ run \in [Leases -> Runs]
  /\ alive \subseteq Leases
  /\ lines \in [Leases -> 0..MaxLines + 1]
  /\ reports \subseteq Leases \X (1..MaxLines + 1)
  /\ accepted \in [Leases -> {"none", "failed", "done"}]

Reported(l) == \E r \in reports : r[1] = l

\* Where an execution is says what there can be of it.
RunOK(l) ==
  /\ run[l].owner = "none" <=> run[l].step = "none"
  /\ lease[l] = "free" => run[l].step = "none"
  /\ l \in alive => /\ run[l].step \in {"running", "stopping"}
                    /\ run[l].exit = "none" /\ lines[l] <= MaxLines
  /\ run[l].step \in {"none", "granted", "terminal"} => lines[l] = 0 /\ run[l].exit = "none"
  /\ run[l].step \in {"none", "granted", "terminal", "release", "over"} => ~Reported(l)
  /\ accepted[l] = "done" =>
       run[l].step = "over" /\ run[l].exit = "ok" /\ ~run[l].interrupted
  /\ run[l].step = "granted" => loop[run[l].owner] = "claim"

\* A worker waits for the answer to one claim at a time.
OneGrant ==
  \A l, k \in Leases :
    At(l, "granted") /\ At(k, "granted") /\ run[l].owner = run[k].owner => l = k

\* What a worker owes.
WorkerOK(w) ==
  /\ loop[w] = "exited" => Busy(w) = {}
  /\ Cardinality(Busy(w)) <= Slots

IInv ==
  /\ Types /\ OneGrant
  /\ \A l \in Leases : RunOK(l)
  /\ \A w \in Workers : WorkerOK(w)

-----------------------------------------------------------------------------
\* A flag of an execution, or its step, may be set.
LEMMA FlagSet ==
  ASSUME NEW f \in [Leases -> Runs], NEW l \in Leases, NEW b \in BOOLEAN
  PROVE  /\ [f EXCEPT ![l].beats = b] \in [Leases -> Runs]
         /\ [f EXCEPT ![l].lost = b] \in [Leases -> Runs]
         /\ [f EXCEPT ![l].interrupted = b] \in [Leases -> Runs]
BY SMT DEF Runs

LEMMA StepSet ==
  ASSUME NEW f \in [Leases -> Runs], NEW l \in Leases, NEW s \in RunSteps
  PROVE  [f EXCEPT ![l].step = s] \in [Leases -> Runs]
BY SMT DEF Runs

\* A step that makes nobody busier, and lets nobody exit who is busy, keeps
\* what workers owe (all steps but a claim).
LEMMA NobodyBusier ==
  ASSUME NEW w \in Workers, WorkerOK(w), Busy(w)' \subseteq Busy(w),
         loop'[w] = "exited" => Busy(w)' = {}
  PROVE  WorkerOK(w)'
<1>1. IsFiniteSet(Busy(w))
  BY FS_Subset, WorkerConstants DEF Busy
<1>2. /\ IsFiniteSet(Busy(w)') /\ Cardinality(Busy(w)') <= Cardinality(Busy(w))
  BY <1>1, FS_Subset
<1>3. Cardinality(Busy(w)) \in Nat /\ Cardinality(Busy(w)') \in Nat
  BY <1>1, <1>2, FS_CardinalityType
<1>4. Cardinality(Busy(w)') <= Slots
  BY <1>2, <1>3, WorkerConstants, SMT DEF WorkerOK
<1> QED
  BY <1>4 DEF WorkerOK

\* At the start nobody is busy.
LEMMA InitOK == Init => IInv
<1> SUFFICES ASSUME Init PROVE IInv
  OBVIOUS
<1>1. Types
  BY WorkerConstants, SMT DEF Init, Types, LoopStates, RunSteps, Runs, Idle
<1>2. OneGrant
  BY DEF Init, OneGrant, At, Idle
<1>3. ASSUME NEW l \in Leases PROVE RunOK(l)
  BY WorkerConstants, SMT DEF Init, RunOK, Reported, Idle
<1>4. ASSUME NEW w \in Workers PROVE WorkerOK(w)
  <2>1. Busy(w) = {}
    BY <1>4, WorkerConstants DEF Init, Busy, Idle
  <2> QED
    BY <2>1, FS_EmptySet, <1>4, WorkerConstants, SMT DEF WorkerOK, Init
<1> QED
  BY <1>1, <1>2, <1>3, <1>4 DEF IInv

\* The signal ends the claiming.
LEMMA ShutDownKeeps ==
  ASSUME NEW w \in Workers, IInv, ShutDown(w) PROVE IInv'
<1>1. Types'
  BY WorkerConstants, SMT DEF IInv, Types, LoopStates, RunSteps, Runs, ShutDown
<1>2. OneGrant'
  BY SMT DEF IInv, Types, Runs, OneGrant, At, ShutDown
<1>3. ASSUME NEW k \in Leases PROVE RunOK(k)'
  BY <1>3, WorkerConstants, SMT DEF IInv, Types, LoopStates, RunSteps, Runs, RunOK, Reported, At, ShutDown
<1>4. ASSUME NEW v \in Workers PROVE WorkerOK(v)'
  <2>1. Busy(v)' \subseteq Busy(v)
    BY SMT DEF IInv, Types, Runs, RunOK, Busy, At, ShutDown
  <2>2. loop'[v] = "exited" => Busy(v)' = {}
    BY <2>1, SMT DEF IInv, Types, WorkerOK, At, ShutDown
  <2> QED
    BY <1>4, <2>1, <2>2, NobodyBusier DEF IInv
<1> QED
  BY <1>1, <1>2, <1>3, <1>4 DEF IInv

\* The loop pauses.
LEMMA PauseKeeps ==
  ASSUME NEW w \in Workers, IInv, Pause(w) PROVE IInv'
<1>1. Types'
  BY WorkerConstants, SMT DEF IInv, Types, LoopStates, RunSteps, Runs, Pause
<1>2. OneGrant'
  BY SMT DEF IInv, Types, Runs, OneGrant, At, Pause
<1>3. ASSUME NEW k \in Leases PROVE RunOK(k)'
  BY <1>3, WorkerConstants, SMT DEF IInv, Types, LoopStates, RunSteps, Runs, RunOK, Reported, At, Pause
<1>4. ASSUME NEW v \in Workers PROVE WorkerOK(v)'
  <2>1. Busy(v)' \subseteq Busy(v)
    BY SMT DEF IInv, Types, Runs, RunOK, Busy, At, Pause
  <2>2. loop'[v] = "exited" => Busy(v)' = {}
    BY <2>1, SMT DEF IInv, Types, WorkerOK, At, Pause
  <2> QED
    BY <1>4, <2>1, <2>2, NobodyBusier DEF IInv
<1> QED
  BY <1>1, <1>2, <1>3, <1>4 DEF IInv

\* The pause ends.
LEMMA WakeUpKeeps ==
  ASSUME NEW w \in Workers, IInv, WakeUp(w) PROVE IInv'
<1>1. Types'
  <2>1. signal' \in [Workers -> BOOLEAN]
    BY Zenon DEF IInv, Types, WakeUp
  <2>2. loop' \in [Workers -> LoopStates]
    BY SMT DEF IInv, Types, LoopStates, WakeUp
  <2> QED
    BY <2>1, <2>2 DEF IInv, Types, WakeUp
<1>2. OneGrant'
  BY SMT DEF IInv, Types, Runs, OneGrant, At, WakeUp
<1>3. ASSUME NEW k \in Leases PROVE RunOK(k)'
  BY <1>3, WorkerConstants, SMT DEF IInv, Types, LoopStates, RunSteps, Runs, RunOK, Reported, At, WakeUp
<1>4. ASSUME NEW v \in Workers PROVE WorkerOK(v)'
  <2>1. Busy(v)' \subseteq Busy(v)
    BY SMT DEF IInv, Types, Runs, RunOK, Busy, At, WakeUp
  <2>2. loop'[v] = "exited" => Busy(v)' = {}
    BY <2>1, SMT DEF IInv, Types, WorkerOK, At, WakeUp
  <2> QED
    BY <1>4, <2>1, <2>2, NobodyBusier DEF IInv
<1> QED
  BY <1>1, <1>2, <1>3, <1>4 DEF IInv

\* Nothing is under way any more.
LEMMA ExitKeeps ==
  ASSUME NEW w \in Workers, IInv, Exit(w) PROVE IInv'
<1>1. Types'
  BY WorkerConstants, SMT DEF IInv, Types, LoopStates, RunSteps, Runs, Exit
<1>2. OneGrant'
  BY SMT DEF IInv, Types, Runs, OneGrant, At, Exit
<1>3. ASSUME NEW k \in Leases PROVE RunOK(k)'
  BY <1>3, WorkerConstants, SMT DEF IInv, Types, LoopStates, RunSteps, Runs, RunOK, Reported, At, Exit
<1>4. ASSUME NEW v \in Workers PROVE WorkerOK(v)'
  <2>1. Busy(v)' \subseteq Busy(v)
    BY SMT DEF IInv, Types, Runs, RunOK, Busy, At, Exit
  <2>2. loop'[v] = "exited" => Busy(v)' = {}
    BY <2>1, SMT DEF IInv, Types, WorkerOK, At, Exit
  <2> QED
    BY <1>4, <2>1, <2>2, NobodyBusier DEF IInv
<1> QED
  BY <1>1, <1>2, <1>3, <1>4 DEF IInv

\* A signal.
LEMMA InterruptKeeps ==
  ASSUME NEW w \in Workers, IInv, Interrupt(w) PROVE IInv'
<1>1. Types'
  BY WorkerConstants, SMT DEF IInv, Types, LoopStates, RunSteps, Runs, Interrupt
<1>2. OneGrant'
  BY SMT DEF IInv, Types, Runs, OneGrant, At, Interrupt
<1>3. ASSUME NEW k \in Leases PROVE RunOK(k)'
  BY <1>3, WorkerConstants, SMT DEF IInv, Types, LoopStates, RunSteps, Runs, RunOK, Reported, At, Interrupt
<1>4. ASSUME NEW v \in Workers PROVE WorkerOK(v)'
  <2>1. Busy(v)' \subseteq Busy(v)
    BY SMT DEF IInv, Types, Runs, RunOK, Busy, At, Interrupt
  <2>2. loop'[v] = "exited" => Busy(v)' = {}
    BY <2>1, SMT DEF IInv, Types, WorkerOK, At, Interrupt
  <2> QED
    BY <1>4, <2>1, <2>2, NobodyBusier DEF IInv
<1> QED
  BY <1>1, <1>2, <1>3, <1>4 DEF IInv

\* The answer frees the loop of the one worker that waits for it.
LEMMA AnswerKeeps ==
  ASSUME NEW l \in Leases, IInv, Answer(l) PROVE IInv'
<1>1. Types'
  BY WorkerConstants, SMT DEF IInv, Types, LoopStates, RunSteps, Runs, Answer, Goto
<1>2. OneGrant'
  <2>1. \A k \in Leases : At(k, "granted")' => At(k, "granted") /\ run'[k].owner = run[k].owner
    BY SMT DEF IInv, Types, Runs, At, Answer, Goto
  <2> QED
    BY <2>1 DEF IInv, OneGrant
<1>3. ASSUME NEW k \in Leases PROVE RunOK(k)'
  <2>1. CASE k = l
    BY <2>1, WorkerConstants, SMT DEF IInv, Types, Runs, RunOK, Reported, At, Answer, Goto
  <2>2. CASE k # l
    <3>1. run'[k] = run[k]
      BY <2>2, SMT DEF IInv, Types, Answer, Goto
    <3> QED
      BY <1>3, <2>2, <3>1, SMT DEF IInv, Types, Runs, RunOK, Reported, OneGrant, At, Answer
  <2> QED
    BY <2>1, <2>2
<1>4. ASSUME NEW v \in Workers PROVE WorkerOK(v)'
  <2>1. Busy(v)' \subseteq Busy(v)
    BY SMT DEF IInv, Types, Runs, RunOK, Busy, At, Answer, Goto
  <2>2. loop'[v] = "exited" => Busy(v)' = {}
    BY <2>1, SMT DEF IInv, Types, WorkerOK, At, Answer, Goto
  <2> QED
    BY <1>4, <2>1, <2>2, NobodyBusier DEF IInv
<1> QED
  BY <1>1, <1>2, <1>3, <1>4 DEF IInv

\* An executor starts with no line written, or not at all.
LEMMA StartExecutorKeeps ==
  ASSUME NEW l \in Leases, IInv, StartExecutor(l) PROVE IInv'
<1>1. Types'
  <2>1. run \in [Leases -> Runs] /\ {"running", "release"} \subseteq RunSteps
    BY DEF IInv, Types, RunSteps
  <2>2. /\ [run[l] EXCEPT !.step = "running"] \in Runs
        /\ [run[l] EXCEPT !.step = "release", !.exit = "bad"] \in Runs
    BY <2>1 DEF Runs
  <2>3. \/ run' = [run EXCEPT ![l] = [run[l] EXCEPT !.step = "running"]]
        \/ run' = [run EXCEPT ![l] = [run[l] EXCEPT !.step = "release", !.exit = "bad"]]
    BY DEF StartExecutor, Goto
  <2>4. run' \in [Leases -> Runs]
    BY <2>1, <2>2, <2>3
  <2> QED
    BY <2>4, WorkerConstants, SMT DEF IInv, Types, StartExecutor
<1>2. OneGrant'
  BY SMT DEF IInv, Types, Runs, OneGrant, At, StartExecutor, Goto
<1>3. ASSUME NEW k \in Leases PROVE RunOK(k)'
  <2>1. CASE k = l
    BY <2>1, WorkerConstants, SMT DEF IInv, Types, Runs, RunOK, Reported, At, StartExecutor, Goto
  <2>2. CASE k # l
    <3>1. run'[k] = run[k]
      BY <2>2, SMT DEF IInv, Types, StartExecutor, Goto
    <3> QED
      BY <1>3, <2>2, <3>1, SMT DEF IInv, Types, Runs, RunOK, Reported, OneGrant, At, StartExecutor
  <2> QED
    BY <2>1, <2>2
<1>4. ASSUME NEW v \in Workers PROVE WorkerOK(v)'
  <2>1. Busy(v)' \subseteq Busy(v)
    BY SMT DEF IInv, Types, Runs, RunOK, Busy, At, StartExecutor, Goto
  <2>2. loop'[v] = "exited" => Busy(v)' = {}
    BY <2>1, SMT DEF IInv, Types, WorkerOK, At, StartExecutor, Goto
  <2> QED
    BY <1>4, <2>1, <2>2, NobodyBusier DEF IInv
<1> QED
  BY <1>1, <1>2, <1>3, <1>4 DEF IInv

\* A line, of an executor that is alive.
LEMMA WriteLineKeeps ==
  ASSUME NEW l \in Leases, IInv, WriteLine(l) PROVE IInv'
<1>1. Types'
  BY WorkerConstants, SMT DEF IInv, Types, LoopStates, RunSteps, Runs, WriteLine, Report
<1>2. OneGrant'
  BY SMT DEF IInv, Types, Runs, OneGrant, At, WriteLine, Report
<1>3. ASSUME NEW k \in Leases PROVE RunOK(k)'
  BY <1>3, WorkerConstants, SMT DEF IInv, Types, LoopStates, RunSteps, Runs, RunOK, Reported, At, WriteLine, Report
<1>4. ASSUME NEW v \in Workers PROVE WorkerOK(v)'
  <2>1. Busy(v)' \subseteq Busy(v)
    BY SMT DEF IInv, Types, Runs, RunOK, Busy, At, WriteLine, Report
  <2>2. loop'[v] = "exited" => Busy(v)' = {}
    BY <2>1, SMT DEF IInv, Types, WorkerOK, At, WriteLine, Report
  <2> QED
    BY <1>4, <2>1, <2>2, NobodyBusier DEF IInv
<1> QED
  BY <1>1, <1>2, <1>3, <1>4 DEF IInv

\* The end of an executor, with a last line.
LEMMA ExecutorEndsKeeps ==
  ASSUME NEW l \in Leases, IInv, ExecutorEnds(l) PROVE IInv'
<1>1. Types'
  <2>1. run' \in [Leases -> Runs]
    BY SMT DEF IInv, Types, RunSteps, Runs, ExecutorEnds
  <2> QED
    BY <2>1, WorkerConstants, SMT DEF IInv, Types, RunOK, ExecutorEnds, Report
<1>2. OneGrant'
  BY SMT DEF IInv, Types, Runs, OneGrant, At, ExecutorEnds, Report
<1>3. ASSUME NEW k \in Leases PROVE RunOK(k)'
  BY <1>3, WorkerConstants, SMT DEF IInv, Types, LoopStates, RunSteps, Runs, RunOK, Reported, At, ExecutorEnds, Report
<1>4. ASSUME NEW v \in Workers PROVE WorkerOK(v)'
  <2>1. Busy(v)' \subseteq Busy(v)
    BY SMT DEF IInv, Types, Runs, RunOK, Busy, At, ExecutorEnds, Report
  <2>2. loop'[v] = "exited" => Busy(v)' = {}
    BY <2>1, SMT DEF IInv, Types, WorkerOK, At, ExecutorEnds, Report
  <2> QED
    BY <1>4, <2>1, <2>2, NobodyBusier DEF IInv
<1> QED
  BY <1>1, <1>2, <1>3, <1>4 DEF IInv

\* The group is killed and waited for.
LEMMA StopKeeps ==
  ASSUME NEW l \in Leases, IInv, Stop(l) PROVE IInv'
<1>1. Types'
  <2>1. run' \in [Leases -> Runs]
    <3> DEFINE moved == [run EXCEPT ![l].step = "stopping"]
    <3>1. moved \in [Leases -> Runs]
      BY StepSet DEF IInv, Types, RunSteps
    <3>2. [moved EXCEPT ![l].interrupted = TRUE] \in [Leases -> Runs]
      <4> HIDE DEF moved
      <4> QED
        BY <3>1, FlagSet
    <3>3. run' = [moved EXCEPT ![l].interrupted = TRUE]
      BY DEF Stop
    <3> QED
      BY <3>2, <3>3
  <2> QED
    BY <2>1, WorkerConstants, SMT DEF IInv, Types, Stop
<1>2. OneGrant'
  BY SMT DEF IInv, Types, Runs, OneGrant, At, Stop
<1>3. ASSUME NEW k \in Leases PROVE RunOK(k)'
  BY <1>3, WorkerConstants, SMT DEF IInv, Types, LoopStates, RunSteps, Runs, RunOK, Reported, At, Stop
<1>4. ASSUME NEW v \in Workers PROVE WorkerOK(v)'
  <2>1. Busy(v)' \subseteq Busy(v)
    BY SMT DEF IInv, Types, Runs, RunOK, Busy, At, Stop
  <2>2. loop'[v] = "exited" => Busy(v)' = {}
    BY <2>1, SMT DEF IInv, Types, WorkerOK, At, Stop
  <2> QED
    BY <1>4, <2>1, <2>2, NobodyBusier DEF IInv
<1> QED
  BY <1>1, <1>2, <1>3, <1>4 DEF IInv

\* The end is observed: nothing is alive.
LEMMA ObserveKeeps ==
  ASSUME NEW l \in Leases, IInv, Observe(l) PROVE IInv'
<1>1. Types'
  <2>1. PICK late \in {run[l].interrupted, TRUE} :
          run' = [run EXCEPT ![l].step = "settle", ![l].interrupted = late]
    BY DEF Observe
  <2>a. late \in BOOLEAN
    <3>1. run[l].interrupted \in BOOLEAN
      BY DEF IInv, Types, Runs
    <3> QED
      BY <3>1, Zenon
  <2>2. run' \in [Leases -> Runs]
    <3> DEFINE moved == [run EXCEPT ![l].step = "settle"]
    <3>1. moved \in [Leases -> Runs]
      BY StepSet DEF IInv, Types, RunSteps
    <3>2. [moved EXCEPT ![l].interrupted = late] \in [Leases -> Runs]
      <4> HIDE DEF moved
      <4> QED
        BY <3>1, <2>a, FlagSet
    <3>3. run' = [moved EXCEPT ![l].interrupted = late]
      BY <2>1
    <3> QED
      BY <3>2, <3>3
  <2> QED
    BY <2>2, WorkerConstants, SMT DEF IInv, Types, Observe
<1>2. OneGrant'
  BY SMT DEF IInv, Types, Runs, OneGrant, At, Observe
<1>3. ASSUME NEW k \in Leases PROVE RunOK(k)'
  BY <1>3, WorkerConstants, SMT DEF IInv, Types, LoopStates, RunSteps, Runs, RunOK, Reported, At, Observe
<1>4. ASSUME NEW v \in Workers PROVE WorkerOK(v)'
  <2>1. Busy(v)' \subseteq Busy(v)
    BY SMT DEF IInv, Types, Runs, RunOK, Busy, At, Observe
  <2>2. loop'[v] = "exited" => Busy(v)' = {}
    BY <2>1, SMT DEF IInv, Types, WorkerOK, At, Observe
  <2> QED
    BY <1>4, <2>1, <2>2, NobodyBusier DEF IInv
<1> QED
  BY <1>1, <1>2, <1>3, <1>4 DEF IInv

\* All reports are in.
LEMMA SettleKeeps ==
  ASSUME NEW l \in Leases, IInv, Settle(l) PROVE IInv'
<1>1. Types'
  <2>1. run' \in [Leases -> Runs]
    BY SMT DEF IInv, Types, RunSteps, Runs, Settle, Goto
  <2> QED
    BY <2>1, WorkerConstants, SMT DEF IInv, Types, Settle, Goto
<1>2. OneGrant'
  BY SMT DEF IInv, Types, Runs, OneGrant, At, Settle, Goto
<1>3. ASSUME NEW k \in Leases PROVE RunOK(k)'
  BY <1>3, WorkerConstants, SMT DEF IInv, Types, LoopStates, RunSteps, Runs, RunOK, Reported, At, Settle, Goto
<1>4. ASSUME NEW v \in Workers PROVE WorkerOK(v)'
  <2>1. Busy(v)' \subseteq Busy(v)
    BY SMT DEF IInv, Types, Runs, RunOK, Busy, At, Settle, Goto
  <2>2. loop'[v] = "exited" => Busy(v)' = {}
    BY <2>1, SMT DEF IInv, Types, WorkerOK, At, Settle, Goto
  <2> QED
    BY <1>4, <2>1, <2>2, NobodyBusier DEF IInv
<1> QED
  BY <1>1, <1>2, <1>3, <1>4 DEF IInv

\* What is released as done has ended well.
LEMMA ReleaseKeeps ==
  ASSUME NEW l \in Leases, IInv, Release(l) PROVE IInv'
<1>1. Types'
  <2>1. run' \in [Leases -> Runs]
    <3> DEFINE moved == [run EXCEPT ![l].step = "over"]
    <3>1. moved \in [Leases -> Runs]
      BY StepSet DEF IInv, Types, RunSteps
    <3>2. [moved EXCEPT ![l].beats = FALSE] \in [Leases -> Runs]
      <4> HIDE DEF moved
      <4> QED
        BY <3>1, FlagSet
    <3>3. run' = [moved EXCEPT ![l].beats = FALSE]
      BY DEF Release
    <3> QED
      BY <3>2, <3>3
  <2> QED
    BY <2>1, WorkerConstants, SMT DEF IInv, Types, Release, Outcome, Failed
<1>2. OneGrant'
  BY SMT DEF IInv, Types, Runs, OneGrant, At, Release, Outcome, Failed
<1>3. ASSUME NEW k \in Leases PROVE RunOK(k)'
  BY <1>3, WorkerConstants, SMT DEF IInv, Types, LoopStates, RunSteps, Runs, RunOK, Reported, At, Release, Outcome, Failed
<1>4. ASSUME NEW v \in Workers PROVE WorkerOK(v)'
  <2>1. Busy(v)' \subseteq Busy(v)
    BY SMT DEF IInv, Types, Runs, RunOK, Busy, At, Release, Outcome, Failed
  <2>2. loop'[v] = "exited" => Busy(v)' = {}
    BY <2>1, SMT DEF IInv, Types, WorkerOK, At, Release, Outcome, Failed
  <2> QED
    BY <1>4, <2>1, <2>2, NobodyBusier DEF IInv
<1> QED
  BY <1>1, <1>2, <1>3, <1>4 DEF IInv

\* The lease is found lost.
LEMMA HeartbeatKeeps ==
  ASSUME NEW l \in Leases, IInv, Heartbeat(l) PROVE IInv'
<1>1. Types'
  BY WorkerConstants, SMT DEF IInv, Types, LoopStates, RunSteps, Runs, Heartbeat
<1>2. OneGrant'
  BY SMT DEF IInv, Types, Runs, OneGrant, At, Heartbeat
<1>3. ASSUME NEW k \in Leases PROVE RunOK(k)'
  BY <1>3, WorkerConstants, SMT DEF IInv, Types, LoopStates, RunSteps, Runs, RunOK, Reported, At, Heartbeat
<1>4. ASSUME NEW v \in Workers PROVE WorkerOK(v)'
  <2>1. Busy(v)' \subseteq Busy(v)
    BY SMT DEF IInv, Types, Runs, RunOK, Busy, At, Heartbeat
  <2>2. loop'[v] = "exited" => Busy(v)' = {}
    BY <2>1, SMT DEF IInv, Types, WorkerOK, At, Heartbeat
  <2> QED
    BY <1>4, <2>1, <2>2, NobodyBusier DEF IInv
<1> QED
  BY <1>1, <1>2, <1>3, <1>4 DEF IInv

\* The lease ends.
LEMMA LeaseEndsKeeps ==
  ASSUME NEW l \in Leases, IInv, LeaseEnds(l) PROVE IInv'
<1>1. Types'
  BY WorkerConstants, SMT DEF IInv, Types, LoopStates, RunSteps, Runs, LeaseEnds
<1>2. OneGrant'
  BY SMT DEF IInv, Types, Runs, OneGrant, At, LeaseEnds
<1>3. ASSUME NEW k \in Leases PROVE RunOK(k)'
  BY <1>3, WorkerConstants, SMT DEF IInv, Types, LoopStates, RunSteps, Runs, RunOK, Reported, At, LeaseEnds
<1>4. ASSUME NEW v \in Workers PROVE WorkerOK(v)'
  <2>1. Busy(v)' \subseteq Busy(v)
    BY SMT DEF IInv, Types, Runs, RunOK, Busy, At, LeaseEnds
  <2>2. loop'[v] = "exited" => Busy(v)' = {}
    BY <2>1, SMT DEF IInv, Types, WorkerOK, At, LeaseEnds
  <2> QED
    BY <1>4, <2>1, <2>2, NobodyBusier DEF IInv
<1> QED
  BY <1>1, <1>2, <1>3, <1>4 DEF IInv

\* A report ends.
LEMMA DeliveryKeeps ==
  ASSUME NEW r \in reports, IInv, Delivery(r) PROVE IInv'
<1>1. Types'
  BY WorkerConstants, SMT DEF IInv, Types, LoopStates, RunSteps, Runs, Delivery
<1>2. OneGrant'
  BY SMT DEF IInv, Types, Runs, OneGrant, At, Delivery
<1>3. ASSUME NEW k \in Leases PROVE RunOK(k)'
  BY <1>3, WorkerConstants, SMT DEF IInv, Types, LoopStates, RunSteps, Runs, RunOK, Reported, At, Delivery
<1>4. ASSUME NEW v \in Workers PROVE WorkerOK(v)'
  <2>1. Busy(v)' \subseteq Busy(v)
    BY SMT DEF IInv, Types, Runs, RunOK, Busy, At, Delivery
  <2>2. loop'[v] = "exited" => Busy(v)' = {}
    BY <2>1, SMT DEF IInv, Types, WorkerOK, At, Delivery
  <2> QED
    BY <1>4, <2>1, <2>2, NobodyBusier DEF IInv
<1> QED
  BY <1>1, <1>2, <1>3, <1>4 DEF IInv

\* The record of a new execution.
LEMMA Granted ==
  ASSUME NEW r \in Runs, NEW w \in Workers
  PROVE  /\ [r EXCEPT !.owner = w, !.step = "granted"] \in Runs
         /\ [r EXCEPT !.owner = w, !.step = "granted"].owner = w
         /\ [r EXCEPT !.owner = w, !.step = "granted"].step = "granted"
         /\ [r EXCEPT !.owner = w, !.step = "granted"].exit = r.exit
<1> DEFINE owned == [r EXCEPT !.owner = w]
<1>1. owned \in Runs
  BY SMT DEF Runs
<1>2. ASSUME NEW o \in Runs PROVE [o EXCEPT !.step = "granted"] \in Runs
  BY SMT DEF Runs, RunSteps
<1>3. [r EXCEPT !.owner = w, !.step = "granted"] \in Runs
  BY <1>1, <1>2, Zenon
<1> QED
  BY <1>3, SMT DEF Runs

\* A claim takes one slot, and there is one: the lease was nobody's.
LEMMA ClaimKeeps ==
  ASSUME NEW w \in Workers, NEW l \in Leases, IInv, Claim(w, l) PROVE IInv'
<1> DEFINE granted == [Idle EXCEPT !.owner = w, !.step = "granted"]
<1>1. granted \in Runs /\ granted.owner = w /\ granted.step = "granted" /\ granted.exit = "none"
  <2>1. Idle \in Runs /\ Idle.exit = "none"
    BY SMT DEF Idle, Runs, RunSteps
  <2> QED
    BY <2>1, Granted
<1>2. run' = [run EXCEPT ![l] = granted]
  BY DEF Claim
<1> HIDE DEF granted
<1>3. Types'
  <2>1. run' \in [Leases -> Runs]
    BY <1>1, <1>2 DEF IInv, Types
  <2> QED
    BY <2>1, SMT DEF IInv, Types, LoopStates, Claim
<1>4. /\ run'[l].owner = w /\ run'[l].step = "granted" /\ run'[l].exit = "none"
      /\ \A k \in Leases \ {l} : run'[k] = run[k]
  BY <1>1, <1>2, SMT DEF IInv, Types
<1>5. run[l].step = "none" /\ run[l].owner = "none" /\ loop[w] = "top"
  BY DEF IInv, RunOK, Claim
<1>6. OneGrant'
  BY <1>4, <1>5, SMT DEF IInv, OneGrant, RunOK, At
<1>7. ASSUME NEW k \in Leases PROVE RunOK(k)'
  <2>1. CASE k = l
    BY <2>1, <1>4, <1>5, WorkerConstants, SMT DEF IInv, Types, RunOK, Reported, Claim
  <2>2. CASE k # l
    BY <2>2, <1>4, <1>5, <1>7, SMT DEF IInv, Types, RunOK, Reported, Claim
  <2> QED
    BY <2>1, <2>2
<1>8. ASSUME NEW v \in Workers PROVE WorkerOK(v)'
  <2>1. CASE v # w
    <3>1. Busy(v)' \subseteq Busy(v)
      BY <2>1, <1>4, SMT DEF Busy
    <3>2. loop'[v] = "exited" => Busy(v)' = {}
      BY <2>1, <1>8, <3>1, SMT DEF IInv, Types, WorkerOK, Claim
    <3> QED
      BY <1>8, <3>1, <3>2, NobodyBusier DEF IInv
  <2>2. CASE v = w
    <3>1. IsFiniteSet(Busy(w)) /\ l \notin Busy(w)
      BY <1>5, FS_Subset, WorkerConstants DEF Busy
    <3>2. Busy(w)' = Busy(w) \cup {l}
      BY <1>4, SMT DEF Busy
    <3>3. Cardinality(Busy(w)') = Cardinality(Busy(w)) + 1
      BY <3>1, <3>2, FS_AddElement
    <3>4. Cardinality(Busy(w)) \in Nat
      BY <3>1, FS_CardinalityType
    <3>5. Cardinality(Busy(w)') <= Slots
      BY <3>3, <3>4, WorkerConstants, SMT DEF Claim, MayClaim
    <3> QED
      BY <2>2, <3>5, SMT DEF WorkerOK, IInv, Types, Claim
  <2> QED
    BY <2>1, <2>2
<1> QED
  BY <1>3, <1>6, <1>7, <1>8 DEF IInv

-----------------------------------------------------------------------------
\* Every step keeps the invariant.
LEMMA StepOK == IInv /\ [Next]_vars => IInv'
<1> SUFFICES ASSUME IInv, [Next]_vars PROVE IInv'
  OBVIOUS
<1>1. ASSUME NEW w \in Workers, Loop(w) PROVE IInv'
  BY <1>1, ShutDownKeeps, PauseKeeps, WakeUpKeeps, ExitKeeps DEF Loop
<1>2. ASSUME NEW w \in Workers, Interrupt(w) PROVE IInv'
  BY <1>2, InterruptKeeps
<1>3. ASSUME NEW w \in Workers, NEW l \in Leases, Claim(w, l) PROVE IInv'
  BY <1>3, ClaimKeeps
<1>4. ASSUME NEW l \in Leases, Execution(l) PROVE IInv'
  BY <1>4, AnswerKeeps, StartExecutorKeeps, ObserveKeeps, SettleKeeps, ReleaseKeeps DEF Execution
<1>5. ASSUME NEW l \in Leases,
             Stop(l) \/ Heartbeat(l) \/ LeaseEnds(l) \/ WriteLine(l) \/ ExecutorEnds(l)
      PROVE  IInv'
  BY <1>5, StopKeeps, HeartbeatKeeps, LeaseEndsKeeps, WriteLineKeeps, ExecutorEndsKeeps
<1>6. ASSUME NEW r \in reports, Delivery(r) PROVE IInv'
  BY <1>6, DeliveryKeeps
<1>7. CASE UNCHANGED vars
  BY <1>7 DEF vars, IInv, Types, OneGrant, RunOK, Reported, WorkerOK, Busy, At
<1> QED
  BY <1>1, <1>2, <1>3, <1>4, <1>5, <1>6, <1>7 DEF Next

LEMMA Invariance == Spec => []IInv
<1> QED
  BY InitOK, StepOK, PTL DEF Spec

-----------------------------------------------------------------------------
\* What the invariant gives.

\* The slots are a limit: as many executors run as a worker has slots, those
\* included that lost their lease and are being stopped.
THEOREM SlotsSuffice == Spec => []TypeOK
<1>1. IInv => TypeOK
  <2> SUFFICES ASSUME IInv PROVE TypeOK
    OBVIOUS
  <2>1. ASSUME NEW w \in Workers
        PROVE  Cardinality({l \in alive : run[l].owner = w}) <= Slots
    <3> DEFINE running == {l \in alive : run[l].owner = w}
    <3>1. running \subseteq Busy(w)
      BY DEF IInv, Types, RunOK, Busy
    <3>2. IsFiniteSet(Busy(w))
      BY FS_Subset, WorkerConstants DEF Busy
    <3> HIDE DEF running
    <3>3. Cardinality(running) <= Cardinality(Busy(w)) /\ IsFiniteSet(running)
      BY <3>1, <3>2, FS_Subset
    <3>4. Cardinality(running) \in Nat /\ Cardinality(Busy(w)) \in Nat
      BY <3>2, <3>3, FS_CardinalityType
    <3>5. Cardinality(running) <= Slots
      BY <2>1, <3>3, <3>4, WorkerConstants, SMT DEF IInv, WorkerOK
    <3> QED
      BY <3>5 DEF running
  <2>2. \A l \in Leases : run[l].owner \in Workers \cup {"none"} /\ lines[l] \in 0..MaxLines + 1
    BY DEF IInv, Types, Runs
  <2>3. \A l \in alive : run[l].step \in {"running", "stopping"} /\ run[l].exit = "none"
    BY DEF IInv, Types, RunOK
  <2> QED
    BY <2>1, <2>2, <2>3 DEF IInv, Types, LoopStates, TypeOK
<1> QED
  BY <1>1, Invariance, PTL

\* A task is done only by an execution whose executor ended by itself and
\* well, and none of whose reports is still to come.
THEOREM Earned == Spec => []DoneIsEarned
<1>1. IInv => DoneIsEarned
  BY DEF IInv, RunOK, Reported, DoneIsEarned
<1> QED
  BY <1>1, Invariance, PTL

\* A worker that has exited has left no executor behind.
THEOREM Settled == Spec => []ShutdownSettles
<1>1. IInv => ShutdownSettles
  BY DEF IInv, Types, RunOK, WorkerOK, Busy, ShutdownSettles
<1> QED
  BY <1>1, Invariance, PTL
=============================================================================
