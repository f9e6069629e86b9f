------------------------- MODULE WorkflowSignals_proofs -------------------------
(***************************************************************************)
(* Proofs about WorkflowSignals, for every workflow, every set of          *)
(* submissions and operators, and any number of crashes.                   *)
(*                                                                         *)
(* The inductive invariant says of the copies that processes hold what is  *)
(* true of the row: a copy is consistent, and it satisfies the guard its   *)
(* holder tested when it was loaded.  The commit tests the status again,   *)
(* so the guard holds of the row as well when the copy is written over it. *)
(***************************************************************************)
EXTENDS WorkflowSignals, SequenceTheorems, FiniteSetTheorems, TLAPS

\* What the transition at label t tested on the row it loaded.
GuardAt(t, r, p) ==
  /\ t = "start" => r.status = "pending"
  /\ t \in {"begin", "complete", "skip", "fail", "finish", "park"}
       => r.status = "running"
  /\ t \in {"failRun", "consume", "pause"} => IsInterruptible(r)
  /\ t = "deliver" => WaitingMatches(r, NameOf[p])
  /\ t = "resume" => r.status = "paused"
  /\ t = "cancel" => ~IsTerminal(r)
  /\ t \notin {"agent", "find", "idle", "store", "done"}

CopiesInv ==
  \A p \in Procs :
    loaded[p] # None => Consistent(loaded[p]) /\ GuardAt(pc[p], loaded[p], p)

\* Where an executor stands in the step list.
PlaceInv ==
  \A p \in Executors :
    /\ pc[p] \in ExecutorLabels \ {"finish"} => at[p] \in StepIds
    /\ pc[p] \in {"find", "consume", "park"} => IsWait(at[p])
    /\ pc[p] = "consume" => found[p] # 0

\* The inductive invariant.
IInv == TypeOK /\ RowConsistent /\ CopiesInv /\ PlaceInv

Fits(r) == r \in RunRow /\ Consistent(r)

--------------------------------------------------------------------------------
(***************************************************************************)
(* Every next row, built from a consistent row on which the transition's   *)
(* guard holds, is a consistent row.                                       *)
(***************************************************************************)
\* A step number of the workflow names a step; a wait step names a signal.
LEMMA StepsAreSteps ==
  ASSUME NEW i \in StepIds
  PROVE  Steps[i] \in Step /\ (Steps[i].kind = "wait" => Steps[i].name \in Names)
BY WorkflowAssumption DEF StepIds, Step

\* The row of run_started is a consistent row.
LEMMA RunStartedFits ==
  ASSUME NEW r, Fits(r), NEW first \in StepIds, r.status = "pending"
  PROVE  Fits(RunStarted(r, first))
BY NoneAssumption
   DEF Fits, RunStarted, Detached, RunRow, Row, Statuses, Terminal, Consistent,
       IsTerminal, IsInterruptible, IsWait

\* The row of step_started is a consistent row.
LEMMA StepStartedFits ==
  ASSUME NEW r, Fits(r), NEW step \in StepIds, NEW d \in Executors \cup {None}, r.status = "running"
  PROVE  Fits(StepStarted(r, step, d))
BY NoneAssumption
   DEF Fits, StepStarted, RunRow, Row, Statuses, Terminal, Consistent,
       IsTerminal, IsInterruptible, IsWait

\* The row of step_skipped is a consistent row.
LEMMA StepSkippedFits ==
  ASSUME NEW r, Fits(r), NEW step \in StepIds, r.status = "running"
  PROVE  Fits(StepSkipped(r, step))
BY NoneAssumption
   DEF Fits, StepSkipped, StepStarted, RunRow, Row, Statuses, Terminal, Consistent,
       IsTerminal, IsInterruptible, IsWait

\* The row of step_failed is a consistent row.
LEMMA StepFailedFits ==
  ASSUME NEW r, Fits(r), NEW step \in StepIds, r.status = "running"
  PROVE  Fits(StepFailed(r, step))
BY NoneAssumption
   DEF Fits, StepFailed, StepStarted, RunRow, Row, Statuses, Terminal, Consistent,
       IsTerminal, IsInterruptible, IsWait

\* The row of step_completed is a consistent row.
LEMMA StepCompletedFits ==
  ASSUME NEW r, Fits(r), NEW step \in StepIds, NEW m \in SUBSET StepIds, r.status = "running"
  PROVE  Fits(StepCompleted(r, step, m))
BY NoneAssumption
   DEF Fits, StepCompleted, StepStarted, RunRow, Row, Statuses, Terminal, Consistent,
       IsTerminal, IsInterruptible, IsWait

\* The row of waiting_for_signal is a consistent row.
LEMMA WaitingForSignalFits ==
  ASSUME NEW r, Fits(r), NEW step \in StepIds, r.status = "running", IsWait(step)
  PROVE  Fits(WaitingForSignal(r, step, Steps[step].name))
BY StepsAreSteps, NoneAssumption
   DEF Fits, WaitingForSignal, RunRow, Row, Statuses, Terminal, Consistent,
       IsTerminal, IsInterruptible, IsWait

\* The row of signal_consumed is a consistent row.
LEMMA SignalConsumedFits ==
  ASSUME NEW r, Fits(r), NEW next \in StepIds \cup {0}, IsInterruptible(r)
  PROVE  Fits(SignalConsumed(r, next))
BY NoneAssumption
   DEF Fits, SignalConsumed, Detached, RunRow, Row, Statuses, Terminal, Consistent,
       IsTerminal, IsInterruptible, IsWait

\* The row of a delivery by submit_signal is a consistent row.
LEMMA SignalDeliveredFits ==
  ASSUME NEW r, Fits(r), NEW next \in StepIds \cup {0}, r.status = "waiting_signal"
  PROVE  Fits(SignalDelivered(r, next))
BY NoneAssumption
   DEF Fits, SignalDelivered, RunRow, Row, Statuses, Terminal, Consistent,
       IsTerminal, IsInterruptible, IsWait

\* The row of run_completed is a consistent row.
LEMMA RunCompletedFits ==
  ASSUME NEW r, Fits(r), r.status = "running"
  PROVE  Fits(RunCompleted(r))
BY NoneAssumption
   DEF Fits, RunCompleted, Detached, RunRow, Row, Statuses, Terminal, Consistent,
       IsTerminal, IsInterruptible, IsWait

\* The row of run_failed is a consistent row.
LEMMA RunFailedFits ==
  ASSUME NEW r, Fits(r), NEW step \in StepIds, IsInterruptible(r)
  PROVE  Fits(RunFailed(r, step))
BY NoneAssumption
   DEF Fits, RunFailed, Detached, RunRow, Row, Statuses, Terminal, Consistent,
       IsTerminal, IsInterruptible, IsWait

\* The row of run_paused is a consistent row.
LEMMA RunPausedFits ==
  ASSUME NEW r, Fits(r), IsInterruptible(r)
  PROVE  Fits(RunPaused(r))
BY NoneAssumption
   DEF Fits, RunPaused, Detached, RunRow, Row, Statuses, Terminal, Consistent,
       IsTerminal, IsInterruptible, IsWait

\* The row of run_resumed is a consistent row.
LEMMA RunResumedFits ==
  ASSUME NEW r, Fits(r), r.status = "paused"
  PROVE  Fits(RunResumed(r))
BY NoneAssumption
   DEF Fits, RunResumed, Detached, RunRow, Row, Statuses, Terminal, Consistent,
       IsTerminal, IsInterruptible, IsWait

\* The row of run_cancelled is a consistent row.
LEMMA RunCancelledFits ==
  ASSUME NEW r, Fits(r), ~IsTerminal(r)
  PROVE  Fits(RunCancelled(r))
BY NoneAssumption
   DEF Fits, RunCancelled, RunRow, Row, Statuses, Terminal, Consistent,
       IsTerminal, IsInterruptible, IsWait

\* The row of the recovery scan is a consistent row.
LEMMA RunRecoveredFits ==
  ASSUME NEW r, Fits(r)
  PROVE  Fits(RunRecovered(r))
BY NoneAssumption
   DEF Fits, RunRecovered, RunRow, Row, Statuses, Terminal, Consistent,
       IsTerminal, IsInterruptible, IsWait

--------------------------------------------------------------------------------
(***************************************************************************)
(* The two halves of a transition keep the invariant, whatever they do to  *)
(* the executor's own variables, as long as that has the right type.       *)
(***************************************************************************)
\* Executors are processes; steps are numbered 1 .. Len(Steps), which is positive.
LEMMA ProcessFacts ==
  /\ Main \in Executors /\ Executors \subseteq Procs
  /\ Clients \subseteq Executors /\ Controllers \subseteq Procs
  /\ Executors \cap Controllers = {} /\ None \notin Procs
  /\ 1 \in StepIds /\ Len(Steps) \in Nat
BY ProcessAssumption, WorkflowAssumption DEF Executors, Procs, StepIds

\* A process that only moves, without a copy of the row.
LEMMA LoadKeeps ==
  ASSUME IInv,
         NEW p \in Procs, NEW t \in Labels, NEW otherwise \in {"done", "fail"},
         NEW guard \in BOOLEAN, Load(p, t, guard, otherwise),
         guard => GuardAt(t, run, p),
         otherwise = "fail" => t \in ExecutorLabels \ {"finish"}
  PROVE  IInv'
<1> USE DEF Load, Goto, store, local, env
<1>1. TypeOK'
  BY DEF IInv, TypeOK, Labels, ExecutorLabels, SubmitLabels, Actions
<1>2. RowConsistent'
  BY DEF IInv, RowConsistent, Consistent
<1>3. CopiesInv'
  BY DEF IInv, CopiesInv, TypeOK, RowConsistent, Consistent, GuardAt
<1>4. PlaceInv'
  BY ProcessFacts DEF IInv, PlaceInv, TypeOK, ExecutorLabels
<1> QED BY <1>1, <1>2, <1>3, <1>4 DEF IInv

\* A commit: the row is replaced or not, and the process moves on without a copy.
LEMMA CommitKeeps ==
  ASSUME IInv,
         NEW p \in Procs, NEW t, NEW row, NEW next \in Labels, NEW otherwise \in Labels,
         Commit(p, t, row, next, otherwise),
         Fits(row),
         at' \in [Executors -> 1 .. Len(Steps) + 1],
         mem' \in [Executors -> SUBSET StepIds],
         found' = found,
         PlaceInv'
  PROVE  IInv'
<1> USE DEF Commit, Commits, Goto, env
<1>1. TypeOK'
  BY DEF IInv, TypeOK, Fits
<1>2. RowConsistent'
  BY DEF IInv, RowConsistent, Consistent, Fits
<1>3. CopiesInv'
  BY DEF IInv, CopiesInv, TypeOK
<1> QED BY <1>1, <1>2, <1>3 DEF IInv

\* The copy a process commits is a consistent row of the status it tested.
LEMMA CopyFits ==
  ASSUME IInv, NEW p \in Procs, NEW t, Commits(p, t)
  PROVE  Fits(loaded[p]) /\ GuardAt(t, loaded[p], p) /\ pc[p] = t
BY DEF IInv, TypeOK, CopiesInv, Commits, Fits

--------------------------------------------------------------------------------
(***************************************************************************)
(* One lemma per operation of an executor.                                 *)
(***************************************************************************)
\* The invariant survives run_started.
LEMMA RunStartedKeeps ==
  ASSUME IInv, NEW p \in Executors, RecordRunStarted(p)
  PROVE  IInv'
<1>1. CASE Load(p, "start", run.status = "pending", "done")
  BY <1>1, LoadKeeps, ProcessFacts DEF GuardAt, Labels, ExecutorLabels
<1>2. CASE /\ Commit(p, "start", RunStarted(loaded[p], 1), "begin", "done")
           /\ UNCHANGED local
  <2>1. Commits(p, "start")
    BY <1>2 DEF Commit
  <2>2. Fits(loaded[p]) /\ GuardAt("start", loaded[p], p) /\ pc[p] = "start"
    BY <2>1, CopyFits, ProcessFacts
  <2>3. Fits(RunStarted(loaded[p], 1))
    BY <2>2, RunStartedFits, ProcessFacts DEF GuardAt
  <2>4. PlaceInv'
    BY <1>2, <2>2, ProcessFacts
       DEF Commit, Goto, IInv, PlaceInv, TypeOK, ExecutorLabels, local
  <2> QED
    BY <1>2, <2>3, <2>4, CommitKeeps, ProcessFacts
       DEF local, IInv, TypeOK, Labels, ExecutorLabels
<1> QED BY <1>1, <1>2 DEF RecordRunStarted

\* The invariant survives step_started.
LEMMA StepStartedKeeps ==
  ASSUME IInv, NEW p \in Executors, RecordStepStarted(p)
  PROVE  IInv'
<1> DEFINE dispatch == IF StepAt(p).kind = "agent" THEN p ELSE None
           next == StepStarted(loaded[p], at[p], dispatch)
<1>1. CASE Load(p, "begin", CanRecordStep(run), StartRefused(p))
  BY <1>1, LoadKeeps, ProcessFacts
     DEF GuardAt, Labels, ExecutorLabels, StartRefused, CanRecordStep
<1>2. CASE /\ Commit(p, "begin", next, Work(p), StartRefused(p))
           /\ IF StepAt(p).kind = "noop" THEN Remember(p) ELSE UNCHANGED mem
           /\ UNCHANGED <<at, found>>
  <2>1. Commits(p, "begin")
    BY <1>2 DEF Commit
  <2>2. Fits(loaded[p]) /\ GuardAt("begin", loaded[p], p) /\ pc[p] = "begin"
    BY <2>1, CopyFits, ProcessFacts
  <2>3. at[p] \in StepIds
    BY <2>2 DEF IInv, PlaceInv, ExecutorLabels
  <2>4. StepAt(p).kind \in {"agent", "noop", "wait"}
    BY <2>3, StepsAreSteps DEF StepAt, Step
  <2>5. Fits(next)
    BY <2>2, <2>3, StepStartedFits DEF GuardAt
  <2>6. /\ Work(p) \in {"agent", "complete", "find"}
        /\ Work(p) = "find" => IsWait(at[p])
        /\ StartRefused(p) \in {"fail", "done"}
    BY <2>3, <2>4 DEF Work, StartRefused, IsWait, StepAt
  <2>7. mem' \in [Executors -> SUBSET StepIds]
    <3>1. mem \in [Executors -> SUBSET StepIds]
      BY DEF IInv, TypeOK
    <3>2. CASE Remember(p)
      <4>1. mem[p] \cup {at[p]} \in SUBSET StepIds
        BY <2>3, <3>1
      <4> QED BY <3>1, <3>2, <4>1 DEF Remember
    <3>3. CASE UNCHANGED mem
      BY <3>1, <3>3
    <3> QED BY <1>2, <3>2, <3>3
  <2>8. PlaceInv'
    BY <1>2, <2>3, <2>6, ProcessFacts
       DEF Commit, Goto, IInv, PlaceInv, TypeOK, ExecutorLabels, IsWait
  <2> QED
    BY <1>2, <2>5, <2>6, <2>7, <2>8, CommitKeeps, ProcessFacts
       DEF IInv, TypeOK, Labels, ExecutorLabels
<1> QED BY <1>1, <1>2 DEF RecordStepStarted

\* The invariant survives the return of an agent.
LEMMA AgentReturnsKeeps ==
  ASSUME IInv, NEW p \in Executors, AgentReturns(p)
  PROVE  IInv'
<1> USE ProcessFacts DEF AgentReturns, Goto, Remember, store, env
<1>1. pc[p] = "agent" /\ at[p] \in StepIds /\ loaded[p] = None
  BY DEF IInv, PlaceInv, ExecutorLabels, CopiesInv, GuardAt
<1>2. PICK t \in {"complete", "skip", "fail"} : pc' = [pc EXCEPT ![p] = t]
  OBVIOUS
<1>3. TypeOK'
  <2>1. mem' \in [Executors -> SUBSET StepIds]
    BY <1>1 DEF IInv, TypeOK
  <2>2. pc' \in [Procs -> Labels]
    BY <1>2 DEF IInv, TypeOK, Labels, ExecutorLabels
  <2> QED BY <2>1, <2>2 DEF IInv, TypeOK
<1>4. RowConsistent' /\ CopiesInv'
  BY <1>1, <1>2 DEF IInv, TypeOK, RowConsistent, Consistent, CopiesInv
<1>5. PlaceInv'
  BY <1>1, <1>2 DEF IInv, TypeOK, PlaceInv, ExecutorLabels
<1> QED BY <1>3, <1>4, <1>5 DEF IInv

\* After a step an executor enters the next one, or the end of the run.
LEMMA EnterFacts ==
  ASSUME NEW i \in StepIds
  PROVE  /\ i + 1 \in 1 .. Len(Steps) + 1
         /\ Enter(i + 1) \in {"begin", "finish"}
         /\ Enter(i + 1) = "begin" => i + 1 \in StepIds
         /\ Following(i) \in StepIds \cup {0}
BY ProcessFacts DEF Enter, Following, StepIds

\* The invariant survives step_completed.
LEMMA StepCompletedKeeps ==
  ASSUME IInv, NEW p \in Executors, RecordStepCompleted(p)
  PROVE  IInv'
<1> DEFINE next == StepCompleted(loaded[p], at[p], mem[p])
<1>1. CASE Load(p, "complete", CanRecordStep(run), "done")
  BY <1>1, LoadKeeps, ProcessFacts
     DEF GuardAt, Labels, ExecutorLabels, CanRecordStep
<1>2. CASE /\ Commit(p, "complete", next, Enter(at[p] + 1), "done")
           /\ Advance(p) /\ UNCHANGED <<mem, found>>
  <2>1. Commits(p, "complete")
    BY <1>2 DEF Commit
  <2>2. Fits(loaded[p]) /\ GuardAt("complete", loaded[p], p) /\ pc[p] = "complete"
    BY <2>1, CopyFits, ProcessFacts
  <2>3. at[p] \in StepIds
    BY <2>2 DEF IInv, PlaceInv, ExecutorLabels
  <2>4. Fits(next)
    BY <2>2, <2>3, StepCompletedFits DEF GuardAt, IInv, TypeOK
  <2>5. at' \in [Executors -> 1 .. Len(Steps) + 1]
    BY <1>2, <2>3, EnterFacts DEF Advance, IInv, TypeOK
  <2>6. PlaceInv'
    BY <1>2, <2>3, EnterFacts, ProcessFacts
       DEF Commit, Goto, Advance, IInv, PlaceInv, TypeOK, ExecutorLabels, IsWait
  <2> QED
    BY <1>2, <2>3, <2>4, <2>5, <2>6, CommitKeeps, ProcessFacts, EnterFacts
       DEF IInv, TypeOK, Labels, ExecutorLabels
<1> QED BY <1>1, <1>2 DEF RecordStepCompleted

\* The invariant survives step_skipped.
LEMMA StepSkippedKeeps ==
  ASSUME IInv, NEW p \in Executors, RecordStepSkipped(p)
  PROVE  IInv'
<1> DEFINE next == StepSkipped(loaded[p], at[p])
<1>1. CASE Load(p, "skip", CanRecordStep(run), "done")
  BY <1>1, LoadKeeps, ProcessFacts
     DEF GuardAt, Labels, ExecutorLabels, CanRecordStep
<1>2. CASE /\ Commit(p, "skip", next, Enter(at[p] + 1), "done")
           /\ Advance(p) /\ UNCHANGED <<mem, found>>
  <2>1. Commits(p, "skip")
    BY <1>2 DEF Commit
  <2>2. Fits(loaded[p]) /\ GuardAt("skip", loaded[p], p) /\ pc[p] = "skip"
    BY <2>1, CopyFits, ProcessFacts
  <2>3. at[p] \in StepIds
    BY <2>2 DEF IInv, PlaceInv, ExecutorLabels
  <2>4. Fits(next)
    BY <2>2, <2>3, StepSkippedFits DEF GuardAt
  <2>5. at' \in [Executors -> 1 .. Len(Steps) + 1]
    BY <1>2, <2>3, EnterFacts DEF Advance, IInv, TypeOK
  <2>6. PlaceInv'
    BY <1>2, <2>3, EnterFacts, ProcessFacts
       DEF Commit, Goto, Advance, IInv, PlaceInv, TypeOK, ExecutorLabels, IsWait
  <2> QED
    BY <1>2, <2>3, <2>4, <2>5, <2>6, CommitKeeps, ProcessFacts, EnterFacts
       DEF IInv, TypeOK, Labels, ExecutorLabels
<1> QED BY <1>1, <1>2 DEF RecordStepSkipped

\* The invariant survives step_failed.
LEMMA StepFailedKeeps ==
  ASSUME IInv, NEW p \in Executors, RecordStepFailed(p)
  PROVE  IInv'
<1>1. CASE Load(p, "fail", CanRecordStep(run), "done")
  BY <1>1, LoadKeeps, ProcessFacts
     DEF GuardAt, Labels, ExecutorLabels, CanRecordStep
<1>2. CASE /\ Commit(p, "fail", StepFailed(loaded[p], at[p]), "failRun", "done")
           /\ UNCHANGED local
  <2>1. Commits(p, "fail")
    BY <1>2 DEF Commit
  <2>2. Fits(loaded[p]) /\ GuardAt("fail", loaded[p], p) /\ pc[p] = "fail"
    BY <2>1, CopyFits, ProcessFacts
  <2>3. at[p] \in StepIds
    BY <2>2 DEF IInv, PlaceInv, ExecutorLabels
  <2>4. Fits(StepFailed(loaded[p], at[p]))
    BY <2>2, <2>3, StepFailedFits DEF GuardAt
  <2>5. PlaceInv'
    BY <1>2, <2>2, <2>3, ProcessFacts
       DEF Commit, Goto, IInv, PlaceInv, TypeOK, ExecutorLabels, local
  <2> QED
    BY <1>2, <2>4, <2>5, CommitKeeps, ProcessFacts
       DEF local, IInv, TypeOK, Labels, ExecutorLabels
<1> QED BY <1>1, <1>2 DEF RecordStepFailed

\* The invariant survives run_failed.
LEMMA RunFailedKeeps ==
  ASSUME IInv, NEW p \in Executors, RecordRunFailed(p)
  PROVE  IInv'
<1>0. IsInterruptible(run) \in BOOLEAN
  BY DEF IsInterruptible
<1>1. CASE Load(p, "failRun", IsInterruptible(run), "done")
  BY <1>0, <1>1, LoadKeeps, ProcessFacts
     DEF GuardAt, Labels, ExecutorLabels
<1>2. CASE /\ Commit(p, "failRun", RunFailed(loaded[p], at[p]), "done", "done")
           /\ UNCHANGED local
  <2>1. Commits(p, "failRun")
    BY <1>2 DEF Commit
  <2>2. Fits(loaded[p]) /\ GuardAt("failRun", loaded[p], p) /\ pc[p] = "failRun"
    BY <2>1, CopyFits, ProcessFacts
  <2>3. at[p] \in StepIds
    BY <2>2 DEF IInv, PlaceInv, ExecutorLabels
  <2>4. Fits(RunFailed(loaded[p], at[p]))
    BY <2>2, <2>3, RunFailedFits DEF GuardAt
  <2>5. PlaceInv'
    BY <1>2, <2>2, <2>3, ProcessFacts
       DEF Commit, Goto, IInv, PlaceInv, TypeOK, ExecutorLabels, local
  <2> QED
    BY <1>2, <2>4, <2>5, CommitKeeps, ProcessFacts
       DEF local, IInv, TypeOK, Labels, ExecutorLabels
<1> QED BY <1>1, <1>2 DEF RecordRunFailed

\* The invariant survives waiting_for_signal.
LEMMA WaitingForSignalKeeps ==
  ASSUME IInv, NEW p \in Executors, RecordWaitingForSignal(p)
  PROVE  IInv'
<1>1. CASE Load(p, "park", CanPark(run), "done")
  BY <1>1, LoadKeeps, ProcessFacts
     DEF GuardAt, Labels, ExecutorLabels, CanPark
<1>2. CASE /\ Commit(p, "park", WaitingForSignal(loaded[p], at[p], StepAt(p).name), "done", "done")
           /\ UNCHANGED local
  <2>1. Commits(p, "park")
    BY <1>2 DEF Commit
  <2>2. Fits(loaded[p]) /\ GuardAt("park", loaded[p], p) /\ pc[p] = "park"
    BY <2>1, CopyFits, ProcessFacts
  <2>3. at[p] \in StepIds
    BY <2>2 DEF IInv, PlaceInv, ExecutorLabels
  <2>4. Fits(WaitingForSignal(loaded[p], at[p], StepAt(p).name))
    BY <2>2, <2>3, WaitingForSignalFits DEF GuardAt, IInv, PlaceInv, StepAt
  <2>5. PlaceInv'
    BY <1>2, <2>2, <2>3, ProcessFacts
       DEF Commit, Goto, IInv, PlaceInv, TypeOK, ExecutorLabels, local
  <2> QED
    BY <1>2, <2>4, <2>5, CommitKeeps, ProcessFacts
       DEF local, IInv, TypeOK, Labels, ExecutorLabels
<1> QED BY <1>1, <1>2 DEF RecordWaitingForSignal

\* The invariant survives run_completed.
LEMMA RunCompletedKeeps ==
  ASSUME IInv, NEW p \in Executors, RecordRunCompleted(p)
  PROVE  IInv'
<1>1. CASE Load(p, "finish", CanRecordStep(run), "done")
  BY <1>1, LoadKeeps, ProcessFacts
     DEF GuardAt, Labels, ExecutorLabels, CanRecordStep
<1>2. CASE /\ Commit(p, "finish", RunCompleted(loaded[p]), "done", "done")
           /\ UNCHANGED local
  <2>1. Commits(p, "finish")
    BY <1>2 DEF Commit
  <2>2. Fits(loaded[p]) /\ GuardAt("finish", loaded[p], p) /\ pc[p] = "finish"
    BY <2>1, CopyFits, ProcessFacts
  <2>3. Fits(RunCompleted(loaded[p]))
    BY <2>2, RunCompletedFits DEF GuardAt
  <2>4. PlaceInv'
    BY <1>2, <2>2, ProcessFacts
       DEF Commit, Goto, IInv, PlaceInv, TypeOK, ExecutorLabels, local
  <2> QED
    BY <1>2, <2>3, <2>4, CommitKeeps, ProcessFacts
       DEF local, IInv, TypeOK, Labels, ExecutorLabels
<1> QED BY <1>1, <1>2 DEF RecordRunCompleted

--------------------------------------------------------------------------------
(***************************************************************************)
(* The operator's requests.                                                *)
(***************************************************************************)
\* The invariant survives run_paused.
LEMMA RunPausedKeeps ==
  ASSUME IInv, NEW p \in Controllers, RecordRunPaused(p)
  PROVE  IInv'
<1>0. IsInterruptible(run) \in BOOLEAN
  BY DEF IsInterruptible
<1>1. CASE Load(p, "pause", IsInterruptible(run), "done")
  BY <1>0, <1>1, LoadKeeps, ProcessFacts
     DEF GuardAt, Labels, Actions
<1>2. CASE /\ Commit(p, "pause", RunPaused(loaded[p]), "done", "done")
           /\ UNCHANGED local
  <2>1. Commits(p, "pause")
    BY <1>2 DEF Commit
  <2>2. Fits(loaded[p]) /\ GuardAt("pause", loaded[p], p) /\ pc[p] = "pause"
    BY <2>1, CopyFits, ProcessFacts
  <2>3. Fits(RunPaused(loaded[p]))
    BY <2>2, RunPausedFits DEF GuardAt
  <2>4. PlaceInv'
    BY <1>2, <2>2, ProcessFacts
       DEF Commit, Goto, IInv, PlaceInv, TypeOK, ExecutorLabels, local
  <2> QED
    BY <1>2, <2>3, <2>4, CommitKeeps, ProcessFacts
       DEF local, IInv, TypeOK, Labels, ExecutorLabels
<1> QED BY <1>1, <1>2 DEF RecordRunPaused

\* The invariant survives run_resumed.
LEMMA RunResumedKeeps ==
  ASSUME IInv, NEW p \in Controllers, RecordRunResumed(p)
  PROVE  IInv'
<1>1. CASE Load(p, "resume", run.status = "paused", "done")
  BY <1>1, LoadKeeps, ProcessFacts
     DEF GuardAt, Labels, Actions
<1>2. CASE /\ Commit(p, "resume", RunResumed(loaded[p]), "done", "done")
           /\ UNCHANGED local
  <2>1. Commits(p, "resume")
    BY <1>2 DEF Commit
  <2>2. Fits(loaded[p]) /\ GuardAt("resume", loaded[p], p) /\ pc[p] = "resume"
    BY <2>1, CopyFits, ProcessFacts
  <2>3. Fits(RunResumed(loaded[p]))
    BY <2>2, RunResumedFits DEF GuardAt
  <2>4. PlaceInv'
    BY <1>2, <2>2, ProcessFacts
       DEF Commit, Goto, IInv, PlaceInv, TypeOK, ExecutorLabels, local
  <2> QED
    BY <1>2, <2>3, <2>4, CommitKeeps, ProcessFacts
       DEF local, IInv, TypeOK, Labels, ExecutorLabels
<1> QED BY <1>1, <1>2 DEF RecordRunResumed

\* The invariant survives run_cancelled.
LEMMA RunCancelledKeeps ==
  ASSUME IInv, NEW p \in Controllers, RecordRunCancelled(p)
  PROVE  IInv'
<1>1. CASE Load(p, "cancel", ~IsTerminal(run), "done")
  BY <1>1, LoadKeeps, ProcessFacts
     DEF GuardAt, Labels, Actions
<1>2. CASE /\ Commit(p, "cancel", RunCancelled(loaded[p]), "done", "done")
           /\ UNCHANGED local
  <2>1. Commits(p, "cancel")
    BY <1>2 DEF Commit
  <2>2. Fits(loaded[p]) /\ GuardAt("cancel", loaded[p], p) /\ pc[p] = "cancel"
    BY <2>1, CopyFits, ProcessFacts
  <2>3. Fits(RunCancelled(loaded[p]))
    BY <2>2, RunCancelledFits DEF GuardAt
  <2>4. PlaceInv'
    BY <1>2, <2>2, ProcessFacts
       DEF Commit, Goto, IInv, PlaceInv, TypeOK, ExecutorLabels, local
  <2> QED
    BY <1>2, <2>3, <2>4, CommitKeeps, ProcessFacts
       DEF local, IInv, TypeOK, Labels, ExecutorLabels
<1> QED BY <1>1, <1>2 DEF RecordRunCancelled

--------------------------------------------------------------------------------
(***************************************************************************)
(* Steps that touch the stored signals.                                    *)
(***************************************************************************)
\* Marking a stored signal consumed keeps the type of the signals.
LEMMA ConsumedType ==
  ASSUME NEW s \in Seq(Signal), NEW k \in 1 .. Len(s)
  PROVE  /\ [s EXCEPT ![k].consumed = TRUE] \in Seq(Signal)
         /\ Len([s EXCEPT ![k].consumed = TRUE]) = Len(s)
<1>1. s[k] \in Signal
  OBVIOUS
<1>2. [s[k] EXCEPT !.consumed = TRUE] \in Signal
  BY <1>1 DEF Signal
<1> QED BY <1>2, ExceptSeq

\* The invariant survives the lookup of a stored signal.
LEMMA FindUnconsumedKeeps ==
  ASSUME IInv, NEW p \in Executors, FindUnconsumed(p)
  PROVE  IInv'
<1> USE ProcessFacts DEF FindUnconsumed, Goto, store, env
<1>1. pc[p] = "find" /\ IsWait(at[p]) /\ at[p] \in StepIds /\ loaded[p] = None
  BY DEF IInv, PlaceInv, ExecutorLabels, CopiesInv, GuardAt
<1>2. PICK t \in {"park", "consume"} : pc' = [pc EXCEPT ![p] = t]
  OBVIOUS
<1>3. /\ found' \in [Executors -> 0 .. Len(signals)]
      /\ pc'[p] = "consume" => found'[p] # 0
      /\ \A q \in Executors : q # p => found'[q] = found[q]
  <2>1. signals \in Seq(Signal) /\ found \in [Executors -> 0 .. Len(signals)]
        /\ pc \in [Procs -> Labels]
    BY DEF IInv, TypeOK
  <2>2. Unconsumed(StepAt(p).name) \subseteq 1 .. Len(signals)
    BY <2>1 DEF Unconsumed
  <2>3. CASE pc' = [pc EXCEPT ![p] = "park"] /\ found' = found
    BY <2>1, <2>3
  <2>4. CASE /\ pc' = [pc EXCEPT ![p] = "consume"]
             /\ \E k \in Unconsumed(StepAt(p).name) : found' = [found EXCEPT ![p] = k]
    BY <2>1, <2>2, <2>4
  <2> QED BY <2>3, <2>4
<1>4. TypeOK'
  BY <1>2, <1>3 DEF IInv, TypeOK, Labels, ExecutorLabels
<1>5. RowConsistent' /\ CopiesInv'
  BY <1>1, <1>2 DEF IInv, TypeOK, RowConsistent, Consistent, CopiesInv
<1>6. PlaceInv'
  BY <1>1, <1>2, <1>3 DEF IInv, TypeOK, PlaceInv, ExecutorLabels, IsWait
<1> QED BY <1>4, <1>5, <1>6 DEF IInv

\* The invariant survives signal_consumed.
LEMMA SignalConsumedKeeps ==
  ASSUME IInv, NEW p \in Executors, RecordSignalConsumed(p)
  PROVE  IInv'
<1> DEFINE next == SignalConsumed(loaded[p], Following(at[p]))
<1>0. IsInterruptible(run) \in BOOLEAN
  BY DEF IsInterruptible
<1>1. CASE Load(p, "consume", IsInterruptible(run), "done")
  BY <1>0, <1>1, LoadKeeps, ProcessFacts
     DEF GuardAt, Labels, ExecutorLabels
<1>2. ASSUME Commits(p, "consume"), Matches(p), run' = next,
             signals' = [signals EXCEPT ![found[p]].consumed = TRUE],
             Goto(p, Enter(at[p] + 1)), Advance(p),
             UNCHANGED <<env, mem, found, resumed>>
      PROVE  IInv'
  <2> USE <1>2, ProcessFacts DEF Commits, Goto, Advance, env
  <2>1. Fits(loaded[p]) /\ GuardAt("consume", loaded[p], p) /\ pc[p] = "consume"
    BY CopyFits
  <2>2. at[p] \in StepIds /\ found[p] \in 1 .. Len(signals)
    BY <2>1 DEF IInv, TypeOK, PlaceInv, ExecutorLabels
  <2>3. Fits(next)
    BY <2>1, <2>2, EnterFacts, SignalConsumedFits DEF GuardAt
  <2>4. signals' \in Seq(Signal) /\ Len(signals') = Len(signals)
    BY <2>2, ConsumedType DEF IInv, TypeOK
  <2>5. at' \in [Executors -> 1 .. Len(Steps) + 1] /\ pc' \in [Procs -> Labels]
    BY <2>2, EnterFacts DEF IInv, TypeOK, Labels, ExecutorLabels
  <2>6. TypeOK'
    BY <2>3, <2>4, <2>5 DEF IInv, TypeOK, Fits
  <2>7. RowConsistent'
    BY <2>3 DEF RowConsistent, Consistent, Fits
  <2>8. CopiesInv'
    BY DEF IInv, CopiesInv, TypeOK
  <2>9. PlaceInv'
    BY <2>2, EnterFacts DEF IInv, TypeOK, PlaceInv, ExecutorLabels, IsWait
  <2> QED BY <2>6, <2>7, <2>8, <2>9 DEF IInv
<1>3. ASSUME Commits(p, "consume"), Goto(p, "done"), UNCHANGED <<store, at>>,
             UNCHANGED <<env, mem, found, resumed>>
      PROVE  IInv'
  <2> USE <1>3, ProcessFacts DEF Commits, Goto, env, store
  <2>1. TypeOK'
    BY DEF IInv, TypeOK, Labels
  <2>2. RowConsistent' /\ CopiesInv'
    BY DEF IInv, RowConsistent, Consistent, CopiesInv, TypeOK
  <2>3. PlaceInv'
    BY DEF IInv, TypeOK, PlaceInv, ExecutorLabels
  <2> QED BY <2>1, <2>2, <2>3 DEF IInv
<1> QED BY <1>1, <1>2, <1>3 DEF RecordSignalConsumed

\* The invariant survives any step of an executor.
LEMMA ExecuteKeeps ==
  ASSUME IInv, NEW p \in Executors, Execute(p)
  PROVE  IInv'
BY RunStartedKeeps, StepStartedKeeps, AgentReturnsKeeps, StepCompletedKeeps,
   StepSkippedKeeps, StepFailedKeeps, RunFailedKeeps, FindUnconsumedKeeps,
   SignalConsumedKeeps, WaitingForSignalKeeps, RunCompletedKeeps
   DEF Execute

--------------------------------------------------------------------------------
(***************************************************************************)
(* Submissions.                                                            *)
(***************************************************************************)
\* Storing a signal keeps the type of the signals.
LEMMA StoredType ==
  ASSUME IInv, NEW c \in Clients, NEW b \in BOOLEAN
  PROVE  /\ Stored(c, b) \in Seq(Signal)
         /\ found \in [Executors -> 0 .. Len(Stored(c, b))]
<1>1. [client |-> c, consumed |-> b] \in Signal
  BY DEF Signal
<1>2. signals \in Seq(Signal)
  BY DEF IInv, TypeOK
<1>3. /\ Stored(c, b) \in Seq(Signal)
      /\ Len(Stored(c, b)) = Len(signals) + 1 /\ Len(signals) \in Nat
  BY <1>1, <1>2, AppendProperties DEF Stored
<1>4. found \in [Executors -> 0 .. Len(signals)]
  BY DEF IInv, TypeOK
<1> QED BY <1>3, <1>4

\* A submission that has not resumed the run touches no executor's place.
LEMMA SubmitLoadKeeps ==
  ASSUME IInv, NEW c \in Clients, SubmitLoad(c)
  PROVE  IInv'
<1> USE ProcessFacts DEF SubmitLoad, Goto, store, local, env
<1>1. TypeOK'
  BY DEF IInv, TypeOK, Labels, SubmitLabels
<1>2. RowConsistent' /\ CopiesInv'
  BY DEF IInv, RowConsistent, Consistent, CopiesInv, GuardAt, TypeOK
<1>3. PlaceInv'
  BY DEF IInv, TypeOK, PlaceInv, ExecutorLabels
<1> QED BY <1>1, <1>2, <1>3 DEF IInv

\* The invariant survives the lookup of a submission.
LEMMA SubmitLookupKeeps ==
  ASSUME IInv, NEW c \in Clients, SubmitLookup(c)
  PROVE  IInv'
<1> USE ProcessFacts DEF SubmitLookup, Goto, store, local, env
<1>1. \/ /\ WaitingMatches(loaded[c], NameOf[c])
         /\ pc' = [pc EXCEPT ![c] = "deliver"] /\ loaded' = loaded
      \/ /\ \E t \in {"done", "store"} : pc' = [pc EXCEPT ![c] = t]
         /\ loaded' = [loaded EXCEPT ![c] = None]
  OBVIOUS
<1>2. TypeOK'
  <2>1. pc' \in [Procs -> Labels]
    BY <1>1 DEF IInv, TypeOK, Labels, SubmitLabels
  <2>2. loaded' \in [Procs -> RunRow \cup {None}]
    BY <1>1 DEF IInv, TypeOK
  <2> QED BY <2>1, <2>2 DEF IInv, TypeOK
<1>3. RowConsistent'
  BY DEF IInv, RowConsistent, Consistent
<1>4. CopiesInv'
  BY <1>1 DEF IInv, CopiesInv, GuardAt, TypeOK, WaitingMatches
<1>5. PlaceInv'
  BY <1>1 DEF IInv, TypeOK, PlaceInv, ExecutorLabels
<1> QED BY <1>2, <1>3, <1>4, <1>5 DEF IInv

\* The invariant survives a delivery, won or lost.
LEMMA DeliverKeeps ==
  ASSUME IInv, NEW c \in Clients, PersistSubmissionAndResume(c)
  PROVE  IInv'
<1> DEFINE wait == loaded[c].current_step_id
           next == SignalDelivered(loaded[c], Following(wait))
<1> USE ProcessFacts DEF Commits, Goto, env
<1>1. ASSUME Commits(c, "deliver"), NEW t \in {"done", "store"}, Goto(c, t),
             UNCHANGED <<store, local, resumed>>, UNCHANGED env
      PROVE  IInv'
  <2> USE <1>1 DEF store, local
  <2>1. TypeOK'
    BY DEF IInv, TypeOK, Labels, SubmitLabels
  <2>2. RowConsistent' /\ CopiesInv'
    BY DEF IInv, RowConsistent, Consistent, CopiesInv, TypeOK
  <2>3. PlaceInv'
    BY DEF IInv, TypeOK, PlaceInv, ExecutorLabels
  <2> QED BY <2>1, <2>2, <2>3 DEF IInv
<1>2. ASSUME Commits(c, "deliver"), run' = next,
             at' = [at EXCEPT ![c] = wait + 1], Goto(c, Enter(wait + 1)),
             mem' = [mem EXCEPT ![c] = ResumedVars(loaded[c])],
             signals' = Stored(c, TRUE), resumed' = resumed \cup {c},
             UNCHANGED found, UNCHANGED env
      PROVE  IInv'
  <2> USE <1>2
  <2>1. Fits(loaded[c]) /\ GuardAt("deliver", loaded[c], c) /\ pc[c] = "deliver"
    BY CopyFits
  <2>2. wait \in StepIds /\ loaded[c].status = "waiting_signal"
    BY <2>1 DEF Fits, Consistent, GuardAt, WaitingMatches, IsWait
  <2>3. Fits(next)
    BY <2>1, <2>2, EnterFacts, SignalDeliveredFits
  <2>4. ResumedVars(loaded[c]) \in SUBSET StepIds
    BY <2>1 DEF Fits, RunRow, Row, ResumedVars
  <2>5. /\ at' \in [Executors -> 1 .. Len(Steps) + 1]
        /\ mem' \in [Executors -> SUBSET StepIds]
        /\ pc' \in [Procs -> Labels]
    BY <2>2, <2>4, EnterFacts DEF IInv, TypeOK, Labels, ExecutorLabels
  <2>6. /\ signals' \in Seq(Signal)
        /\ found' \in [Executors -> 0 .. Len(signals')]
    BY StoredType DEF IInv, TypeOK
  <2>7. TypeOK'
    BY <2>3, <2>5, <2>6 DEF IInv, TypeOK, Fits
  <2>8. RowConsistent'
    BY <2>3 DEF RowConsistent, Consistent, Fits
  <2>9. CopiesInv'
    BY DEF IInv, CopiesInv, TypeOK
  <2>10. PlaceInv'
    BY <2>1, <2>2, EnterFacts DEF IInv, TypeOK, PlaceInv, ExecutorLabels, IsWait
  <2> QED BY <2>7, <2>8, <2>9, <2>10 DEF IInv
<1> QED BY <1>1, <1>2 DEF PersistSubmissionAndResume

\* The invariant survives a signal that is only stored.
LEMMA PersistSubmissionKeeps ==
  ASSUME IInv, NEW c \in Clients, PersistSubmission(c)
  PROVE  IInv'
<1> USE ProcessFacts DEF PersistSubmission, Goto, local, env
<1>1. /\ signals' \in Seq(Signal)
      /\ found' \in [Executors -> 0 .. Len(signals')]
  BY StoredType DEF IInv, TypeOK
<1>2. TypeOK'
  BY <1>1 DEF IInv, TypeOK, Labels
<1>3. RowConsistent' /\ CopiesInv'
  BY DEF IInv, RowConsistent, Consistent, CopiesInv, GuardAt, TypeOK
<1>4. PlaceInv'
  BY DEF IInv, TypeOK, PlaceInv, ExecutorLabels
<1> QED BY <1>2, <1>3, <1>4 DEF IInv

--------------------------------------------------------------------------------
(***************************************************************************)
(* The environment, and the invariant.                                     *)
(***************************************************************************)
\* The invariant survives the loss of the first executor.
LEMMA DropExecutorKeeps ==
  ASSUME IInv, DropExecutor
  PROVE  IInv'
<1> USE ProcessFacts DEF DropExecutor, Goto, store, local
<1>1. TypeOK'
  <2>1. drops' \in 0 .. MaxDrops
    BY WorkflowAssumption DEF IInv, TypeOK
  <2> QED BY <2>1 DEF IInv, TypeOK, Labels
<1>2. RowConsistent' /\ CopiesInv'
  BY DEF IInv, RowConsistent, Consistent, CopiesInv, TypeOK
<1>3. PlaceInv'
  BY DEF IInv, TypeOK, PlaceInv, ExecutorLabels
<1> QED BY <1>1, <1>2, <1>3 DEF IInv

\* The invariant survives a crash.
LEMMA CrashKeeps ==
  ASSUME IInv, Crash
  PROVE  IInv'
<1> USE ProcessFacts DEF Crash, store, local
<1>1. \A p \in Procs : pc'[p] \in {pc[p], "done"}
  OBVIOUS
<1>2. TypeOK'
  <2>1. pc' \in [Procs -> Labels]
    BY <1>1 DEF IInv, TypeOK, Labels
  <2>2. loaded' \in [Procs -> RunRow \cup {None}]
    OBVIOUS
  <2>3. crashes' \in 0 .. MaxCrashes
    BY WorkflowAssumption DEF IInv, TypeOK
  <2>4. up' = FALSE
    OBVIOUS
  <2> QED BY <2>1, <2>2, <2>3, <2>4 DEF IInv, TypeOK
<1>3. RowConsistent' /\ CopiesInv'
  BY DEF IInv, RowConsistent, Consistent, CopiesInv
<1>4. PlaceInv'
  BY <1>1 DEF IInv, TypeOK, PlaceInv, ExecutorLabels, IsWait
<1> QED BY <1>2, <1>3, <1>4 DEF IInv

\* The invariant survives recovery.
LEMMA RecoverKeeps ==
  ASSUME IInv, Recover
  PROVE  IInv'
<1> USE DEF Recover, local
<1>1. Fits(run)
  BY DEF IInv, TypeOK, RowConsistent, Fits
<1>2. Fits(run')
  BY <1>1, RunRecoveredFits
<1>3. TypeOK'
  BY <1>2 DEF IInv, TypeOK, Fits
<1>4. RowConsistent'
  BY <1>2 DEF RowConsistent, Consistent, Fits
<1>5. CopiesInv' /\ PlaceInv'
  BY DEF IInv, CopiesInv, PlaceInv, IsWait, Consistent, GuardAt
<1> QED BY <1>3, <1>4, <1>5 DEF IInv

\* The invariant survives a stuttering step.
LEMMA UnchangedKeeps ==
  ASSUME IInv, UNCHANGED vars
  PROVE  IInv'
<1> USE DEF vars
<1>1. TypeOK'
  BY DEF IInv, TypeOK
<1>2. RowConsistent' /\ CopiesInv' /\ PlaceInv'
  BY DEF IInv, RowConsistent, CopiesInv, PlaceInv, IsWait, Consistent, GuardAt
<1> QED BY <1>1, <1>2 DEF IInv

\* The invariant holds initially.
LEMMA InitIInv == Init => IInv
<1> SUFFICES ASSUME Init PROVE IInv
  OBVIOUS
<1> USE ProcessFacts, WorkflowAssumption DEF Init
<1>1. CreatedRow \in RunRow
  BY DEF CreatedRow, RunRow, Row, Statuses
<1>2. \A k \in Controllers : ActionOf[k] \in Actions
  OBVIOUS
<1>3. pc \in [Procs -> Labels]
  <2>1. \A p \in Procs : pc[p] \in Labels
    BY <1>2 DEF Procs, Executors, Labels, ExecutorLabels, SubmitLabels
  <2> QED BY <2>1
<1>4. TypeOK
  BY <1>1, <1>3 DEF TypeOK, StepIds
<1>5. RowConsistent
  BY NoneAssumption DEF RowConsistent, Consistent, CreatedRow, IsTerminal, Terminal
<1>6. CopiesInv
  BY DEF CopiesInv
<1>7. PlaceInv
  BY DEF PlaceInv, Executors, ExecutorLabels
<1> QED BY <1>4, <1>5, <1>6, <1>7 DEF IInv

\* The invariant is inductive.
LEMMA NextIInv == IInv /\ [Next]_vars => IInv'
<1> SUFFICES ASSUME IInv, [Next]_vars PROVE IInv'
  OBVIOUS
<1>1. ASSUME NEW p \in Executors, Execute(p) PROVE IInv'
  BY <1>1, ExecuteKeeps
<1>2. ASSUME NEW c \in Clients, Submit(c) PROVE IInv'
  BY <1>2, SubmitLoadKeeps, SubmitLookupKeeps, DeliverKeeps,
     PersistSubmissionKeeps DEF Submit
<1>3. ASSUME NEW k \in Controllers, Control(k) PROVE IInv'
  BY <1>3, RunPausedKeeps, RunResumedKeeps, RunCancelledKeeps DEF Control
<1>4. CASE DropExecutor \/ Crash \/ Recover
  BY <1>4, DropExecutorKeeps, CrashKeeps, RecoverKeeps
<1>5. CASE Quiet \/ UNCHANGED vars
  BY <1>5, UnchangedKeeps DEF Quiet
<1> QED BY <1>1, <1>2, <1>3, <1>4, <1>5 DEF Next

\* The inductive invariant holds of every execution.
THEOREM Invariant == Spec => []IInv
BY InitIInv, NextIInv, PTL DEF Spec

\* Type correctness: whatever is interleaved, every variable keeps its type, the
\* copies in flight and the executors' places in the step list included.
THEOREM TypeCorrect == Spec => []TypeOK
<1>1. IInv => TypeOK
  BY DEF IInv
<1> QED BY <1>1, Invariant, PTL

\* The durable row never contradicts itself (RowConsistent), for every workflow,
\* every number of executors, submissions and operators, and every crash.
THEOREM RowsConsistent == Spec => []RowConsistent
<1>1. IInv => RowConsistent
  BY DEF IInv
<1> QED BY <1>1, Invariant, PTL

--------------------------------------------------------------------------------
(***************************************************************************)
(* What a step does to the status.  A commit tests the status its copy was *)
(* loaded with, and the copy passed the guard of its transition.           *)
(***************************************************************************)
StatusMoves ==
  {<<"pending", "running">>, <<"running", "running">>,
   <<"running", "waiting_signal">>, <<"waiting_signal", "running">>,
   <<"running", "paused">>, <<"waiting_signal", "paused">>,
   <<"running", "completed">>, <<"running", "failed">>, <<"waiting_signal", "failed">>,
   <<"pending", "cancelled">>, <<"running", "cancelled">>,
   <<"waiting_signal", "cancelled">>, <<"paused", "cancelled">>}

Moved == <<run.status, run'.status>> \in StatusMoves

OperatorResumed ==
  /\ run.status = "paused" /\ run'.status = "running"
  /\ \E k \in Controllers : pc[k] = "resume" /\ loaded[k] # None

\* What a step of an executor does to the status is a step of the lifecycle.
LEMMA ExecuteMoves ==
  ASSUME IInv, NEW p \in Executors, Execute(p), run' # run
  PROVE  Moved
<1> USE ProcessFacts DEF Load, Commit, Commits, Matches, store, Moved, StatusMoves
<1>1. \A t : Commits(p, t) => /\ Fits(loaded[p]) /\ pc[p] = t
                              /\ GuardAt(t, loaded[p], p)
  BY CopyFits
<1>2. ASSUME RecordRunStarted(p) PROVE Moved
  BY <1>1, <1>2 DEF RecordRunStarted, GuardAt, RunStarted, Detached, Fits, RunRow, Row
<1>3. ASSUME RecordStepStarted(p) PROVE Moved
  BY <1>1, <1>3 DEF RecordStepStarted, GuardAt, StepStarted, Fits, RunRow, Row
<1>4. ASSUME RecordStepCompleted(p) PROVE Moved
  BY <1>1, <1>4 DEF RecordStepCompleted, GuardAt, StepCompleted, StepStarted,
                    Fits, RunRow, Row
<1>5. ASSUME RecordStepSkipped(p) PROVE Moved
  BY <1>1, <1>5 DEF RecordStepSkipped, GuardAt, StepSkipped, StepStarted,
                    Fits, RunRow, Row
<1>6. ASSUME RecordStepFailed(p) PROVE Moved
  BY <1>1, <1>6 DEF RecordStepFailed, GuardAt, StepFailed, StepStarted,
                    Fits, RunRow, Row
<1>7. ASSUME RecordRunFailed(p) PROVE Moved
  BY <1>1, <1>7 DEF RecordRunFailed, GuardAt, IsInterruptible, RunFailed, Detached,
                    Fits, RunRow, Row
<1>8. ASSUME RecordSignalConsumed(p) PROVE Moved
  BY <1>1, <1>8 DEF RecordSignalConsumed, GuardAt, IsInterruptible, SignalConsumed,
                    Detached, Fits, RunRow, Row
<1>9. ASSUME RecordWaitingForSignal(p) PROVE Moved
  <2>1. /\ Commits(p, "park") /\ run.status = loaded[p].status
        /\ run' = WaitingForSignal(loaded[p], at[p], StepAt(p).name)
    BY <1>9 DEF RecordWaitingForSignal
  <2>2. loaded[p].status = "running" /\ loaded[p] \in RunRow
    BY <1>1, <2>1 DEF GuardAt, CanPark, Fits
  <2> QED BY <2>1, <2>2 DEF WaitingForSignal, RunRow, Row
<1>10. ASSUME RecordRunCompleted(p) PROVE Moved
  BY <1>1, <1>10 DEF RecordRunCompleted, GuardAt, RunCompleted, Detached,
                     Fits, RunRow, Row
<1>11. ~AgentReturns(p) /\ ~FindUnconsumed(p)
  BY DEF AgentReturns, FindUnconsumed
<1> QED
  BY <1>2, <1>3, <1>4, <1>5, <1>6, <1>7, <1>8, <1>9, <1>10, <1>11 DEF Execute

\* So is what a submission does.
LEMMA SubmitMoves ==
  ASSUME IInv, NEW c \in Clients, Submit(c), run' # run
  PROVE  Moved
<1> USE ProcessFacts
<1>1. ~SubmitLoad(c) /\ ~SubmitLookup(c) /\ ~PersistSubmission(c)
  BY DEF SubmitLoad, SubmitLookup, PersistSubmission, store
<1>2. /\ Commits(c, "deliver") /\ Matches(c)
      /\ run' = SignalDelivered(loaded[c], Following(loaded[c].current_step_id))
  BY <1>1 DEF Submit, PersistSubmissionAndResume, store
<1>3. Fits(loaded[c]) /\ GuardAt("deliver", loaded[c], c)
  BY <1>2, CopyFits
<1> QED
  BY <1>2, <1>3 DEF Matches, GuardAt, WaitingMatches, SignalDelivered, Fits, RunRow,
                    Row, Moved, StatusMoves

\* So is what an operator's request does.
LEMMA ControlMoves ==
  ASSUME IInv, NEW k \in Controllers, Control(k), run' # run
  PROVE  Moved \/ OperatorResumed
<1> USE ProcessFacts DEF Load, Commit, Commits, Matches, store, StatusMoves
<1>1. \A t : Commits(k, t) => /\ Fits(loaded[k]) /\ pc[k] = t
                              /\ GuardAt(t, loaded[k], k)
  BY CopyFits
<1>2. ASSUME RecordRunPaused(k) PROVE Moved
  BY <1>1, <1>2 DEF RecordRunPaused, GuardAt, IsInterruptible, RunPaused, Detached,
                    Fits, RunRow, Row, Moved
<1>3. ASSUME RecordRunResumed(k) PROVE OperatorResumed
  BY <1>1, <1>3 DEF RecordRunResumed, GuardAt, RunResumed, Detached, Fits, RunRow,
                    Row, OperatorResumed
<1>4. ASSUME RecordRunCancelled(k) PROVE Moved
  BY <1>1, <1>4 DEF RecordRunCancelled, GuardAt, IsTerminal, Terminal, RunCancelled,
                    Fits, RunRow, Row, Statuses, Consistent, Moved
<1> QED BY <1>2, <1>3, <1>4 DEF Control

\* Every step is a step of the lifecycle or leaves its variables alone.
LEMMA NextMoves ==
  ASSUME IInv, [Next]_vars, run' # run
  PROVE  Moved \/ OperatorResumed
<1>1. ASSUME Recover PROVE Moved
  BY <1>1 DEF Recover, RunRecovered, IInv, TypeOK, RunRow, Row, Moved, StatusMoves
<1>2. ~DropExecutor /\ ~Crash /\ ~Quiet /\ ~UNCHANGED vars
  BY DEF DropExecutor, Crash, Quiet, vars, store
<1> QED BY <1>1, <1>2, ExecuteMoves, SubmitMoves, ControlMoves DEF Next

--------------------------------------------------------------------------------
\* A completed, failed or cancelled run is never written again (TerminalIsFinal),
\* although executors and requests may still hold copies of it from before.
THEOREM TerminalFinal == Spec => TerminalIsFinal
<1>1. IInv /\ [Next]_vars => [~IsTerminal(run)]_run
  BY NextMoves DEF Moved, StatusMoves, OperatorResumed, IsTerminal, Terminal
<1> QED BY <1>1, Invariant, PTL DEF Spec, TerminalIsFinal

\* Only the operator's resume takes a run out of paused into running
\* (OnlyResumeLeavesPause): late executors and signals do not.
THEOREM PausedUntilResumed == Spec => OnlyResumeLeavesPause
<1> DEFINE A == run.status = "paused" /\ run'.status = "running"
                  => \E k \in Controllers : pc[k] = "resume" /\ loaded[k] # None
<1>1. IInv /\ [Next]_vars => [A]_run
  BY NextMoves DEF Moved, StatusMoves, OperatorResumed
<1> QED BY <1>1, Invariant, PTL DEF Spec, OnlyResumeLeavesPause

\* The engine's transitions implement the life cycle that RunLifecycle promises
\* (ImplementsLifecycle): every step, from whichever stale copy, is one of its
\* steps or leaves status and wait as they are.
THEOREM LifecycleImplemented == Spec => ImplementsLifecycle
<1>1. Init => Lifecycle!Init
  BY DEF Init, Lifecycle!Init, CreatedRow
<1>2. IInv /\ IInv' /\ [Next]_vars => [Lifecycle!Next]_<<run.status, run.waiting_ref>>
  <2> SUFFICES ASSUME IInv, IInv', [Next]_vars, run' # run
               PROVE  [Lifecycle!Next]_<<run.status, run.waiting_ref>>
    OBVIOUS
  <2>1. Consistent(run) /\ run \in RunRow
    BY DEF IInv, RowConsistent, TypeOK
  <2>2. /\ run'.status = "waiting_signal" => run'.waiting_ref \in Names
        /\ run'.status # "waiting_signal" => run'.waiting_ref = None
    BY StepsAreSteps DEF IInv, RowConsistent, Consistent, IsWait, StepIds
  <2>3. run.status # "waiting_signal" => run.waiting_ref = None
    BY <2>1 DEF Consistent
  <2>4. Moved \/ OperatorResumed
    BY NextMoves
  <2> QED
    BY <2>2, <2>3, <2>4
       DEF Moved, OperatorResumed, StatusMoves, Lifecycle!Next, Lifecycle!Start,
           Lifecycle!Park, Lifecycle!Wake, Lifecycle!Pause, Lifecycle!Resume,
           Lifecycle!Complete, Lifecycle!Fail, Lifecycle!Cancel, Lifecycle!Become,
           Lifecycle!Waiting, Lifecycle!Finished
<1> QED BY <1>1, <1>2, Invariant, PTL DEF Spec, ImplementsLifecycle, Lifecycle!Spec

-----------------------------------------------------------------------------
(***************************************************************************)
(* Who executes a run, and with which signals: what the copies in flight   *)
(* can and cannot undo.                                                    *)
(*                                                                         *)
(* The update of a row compares the status and nothing else, so a delivery *)
(* prepared for one wait may be committed at another (StaleDelivery).  The *)
(* condition Unambiguous names the workflows and clients for which it is   *)
(* refused, and everything below holds of all of those.                    *)
(***************************************************************************)

WaitSteps == {i \in StepIds : Steps[i].kind = "wait"}

\* The workflow waits once.
SingleWait == \A i, j \in WaitSteps : i = j

\* No two steps wait for the same name.
DistinctWaits ==
  \A i, j \in WaitSteps : Steps[i].name = Steps[j].name => i = j

\* Whoever sends a name again retries: he sends it under the same key.
RetriesOnly ==
  \A c, d \in Clients : NameOf[c] = NameOf[d] => KeyOf[c] = KeyOf[d]

\* A delivery cannot be meant for one wait and reach another.
Unambiguous == SingleWait \/ (DistinctWaits /\ RetriesOnly)

Live(p) == pc[p] \in ExecutorLabels

NameAt(k) == NameOf[signals[k].client]

\* A signal of the name that step w waits for was consumed.
Taken(w) ==
  \E k \in DOMAIN signals : signals[k].consumed /\ NameAt(k) = Steps[w].name

Parked(w) == run.status = "waiting_signal" /\ run.current_step_id = w

\* A submission that loaded the run while it waited.
HoldsWait(c) ==
  /\ pc[c] \in {"lookup", "deliver"}
  /\ loaded[c] # None /\ loaded[c].status = "waiting_signal"

--------------------------------------------------------------------------------
(***************************************************************************)
(* The stored signals.                                                     *)
(***************************************************************************)
\* No two stored signals share a key; who resumed the run is stored.
KeysInv ==
  /\ \A j, k \in DOMAIN signals :
       KeyOf[signals[j].client] = KeyOf[signals[k].client] => j = k
  /\ \A c \in resumed : \E k \in DOMAIN signals : signals[k].client = c

\* What one more stored signal changes.
LEMMA StoredFacts ==
  ASSUME signals \in Seq(Signal), NEW c \in Clients, NEW b \in BOOLEAN
  PROVE  /\ DOMAIN signals = 1 .. Len(signals) /\ Len(signals) \in Nat
         /\ DOMAIN Stored(c, b) = DOMAIN signals \cup {Len(signals) + 1}
         /\ Len(Stored(c, b)) = Len(signals) + 1
         /\ \A k \in DOMAIN signals : Stored(c, b)[k] = signals[k]
         /\ Stored(c, b)[Len(signals) + 1] = [client |-> c, consumed |-> b]
<1>1. [client |-> c, consumed |-> b] \in Signal
  BY DEF Signal
<1> QED BY <1>1, AppendProperties DEF Stored

\* What changes when a stored signal is consumed.
LEMMA ConsumedFacts ==
  ASSUME NEW s \in Seq(Signal), NEW k \in DOMAIN s, NEW t,
         t = [s EXCEPT ![k].consumed = TRUE]
  PROVE  /\ DOMAIN t = DOMAIN s
         /\ \A j \in DOMAIN s : /\ t[j].client = s[j].client
                                /\ t[j].consumed = IF j = k THEN TRUE ELSE s[j].consumed
<1>1. \A j \in DOMAIN s : s[j] \in Signal
  OBVIOUS
<1>2. t = [s EXCEPT ![k] = [s[k] EXCEPT !.consumed = TRUE]]
  OBVIOUS
<1> QED BY <1>1, <1>2 DEF Signal

\* What a step does to the stored signals.
SignalsKept == signals' = signals /\ resumed' = resumed

ConsumesOne ==
  /\ \E k \in DOMAIN signals : signals' = [signals EXCEPT ![k].consumed = TRUE]
  /\ resumed' = resumed

StoresOne ==
  \E c \in Clients, b \in BOOLEAN :
    /\ ~KeyStored(c) /\ signals' = Stored(c, b)
    /\ resumed' \in {resumed, resumed \cup {c}}

\* Every step does one of these.
LEMMA SignalSteps ==
  ASSUME IInv, [Next]_vars
  PROVE  SignalsKept \/ ConsumesOne \/ StoresOne
<1> USE DEF SignalsKept, Load, Commit, Commits, store
<1>1. ASSUME NEW p \in Executors, RecordSignalConsumed(p)
      PROVE  SignalsKept \/ ConsumesOne
  <2>1. CASE Load(p, "consume", IsInterruptible(run), "done")
    BY <2>1
  <2>2. CASE Commits(p, "consume")
    <3>1. found[p] \in DOMAIN signals
      BY <2>2, ProcessFacts DEF IInv, TypeOK, PlaceInv
    <3> QED BY <1>1, <2>2, <3>1 DEF RecordSignalConsumed, ConsumesOne
  <2> QED BY <1>1, <2>1, <2>2 DEF RecordSignalConsumed
<1>2. ASSUME NEW p \in Executors, Execute(p), ~RecordSignalConsumed(p)
      PROVE  SignalsKept
  BY <1>2 DEF Execute, RecordRunStarted, RecordStepStarted, AgentReturns,
              RecordStepCompleted, RecordStepSkipped, RecordStepFailed, RecordRunFailed,
              FindUnconsumed, RecordWaitingForSignal, RecordRunCompleted
<1>3. ASSUME NEW c \in Clients, Submit(c)
      PROVE  SignalsKept \/ StoresOne
  BY <1>3 DEF Submit, SubmitLoad, SubmitLookup, PersistSubmissionAndResume,
              PersistSubmission, StoresOne
<1>4. ASSUME NEW k \in Controllers, Control(k)
      PROVE  SignalsKept
  BY <1>4 DEF Control, RecordRunPaused, RecordRunResumed, RecordRunCancelled
<1>5. CASE DropExecutor \/ Crash \/ Recover \/ Quiet \/ UNCHANGED vars
  BY <1>5 DEF DropExecutor, Crash, Recover, Quiet, vars
<1> QED BY <1>1, <1>2, <1>3, <1>4, <1>5 DEF Next

\* The keys stay unique, whatever is stored or consumed.
LEMMA KeysKept ==
  ASSUME IInv, KeysInv, [Next]_vars
  PROVE  KeysInv'
<1> USE DEF KeysInv
<1>0. signals \in Seq(Signal)
  BY DEF IInv, TypeOK
<1>1. CASE SignalsKept
  BY <1>1 DEF SignalsKept
<1>2. CASE ConsumesOne
  <2>1. PICK k \in DOMAIN signals : signals' = [signals EXCEPT ![k].consumed = TRUE]
    BY <1>2 DEF ConsumesOne
  <2>2. /\ DOMAIN signals' = DOMAIN signals
        /\ \A j \in DOMAIN signals : signals'[j].client = signals[j].client
    BY <1>0, <2>1, ConsumedFacts
  <2> QED BY <1>2, <2>2 DEF ConsumesOne
<1>3. CASE StoresOne
  <2>1. PICK c \in Clients, b \in BOOLEAN :
          /\ ~KeyStored(c) /\ signals' = Stored(c, b)
          /\ resumed' \in {resumed, resumed \cup {c}}
    BY <1>3 DEF StoresOne
  <2> DEFINE new == Len(signals) + 1
  <2>2. /\ DOMAIN signals' = DOMAIN signals \cup {new} /\ new \notin DOMAIN signals
        /\ \A k \in DOMAIN signals : signals'[k].client = signals[k].client
        /\ signals'[new].client = c
    <3>1. /\ DOMAIN Stored(c, b) = DOMAIN signals \cup {new}
          /\ \A k \in DOMAIN signals : Stored(c, b)[k] = signals[k]
          /\ Stored(c, b)[new] = [client |-> c, consumed |-> b]
          /\ DOMAIN signals = 1 .. Len(signals) /\ Len(signals) \in Nat
      BY <1>0, StoredFacts
    <3>2. new \notin DOMAIN signals
      BY <3>1
    <3> QED BY <2>1, <3>1, <3>2
  <2>3. \A k \in DOMAIN signals : KeyOf[signals[k].client] # KeyOf[c]
    BY <2>1 DEF KeyStored
  <2> HIDE DEF new
  <2>4. \A j, k \in DOMAIN signals' :
          KeyOf[signals'[j].client] = KeyOf[signals'[k].client] => j = k
    BY <2>2, <2>3
  <2>5. \A d \in resumed' : \E k \in DOMAIN signals' : signals'[k].client = d
    BY <2>1, <2>2
  <2> QED BY <2>4, <2>5
<1> QED BY <1>1, <1>2, <1>3, SignalSteps

\* Unique keys and stored resumptions are an invariant.
LEMMA KeysInvariant == Spec => []KeysInv
<1>1. Init => KeysInv
  BY DEF Init, KeysInv
<1>2. IInv /\ KeysInv /\ [Next]_vars => KeysInv'
  BY KeysKept
<1> QED BY <1>1, <1>2, Invariant, PTL DEF Spec

\* Submissions that share a key resume the run once in all (ResumedOncePerKey), for
\* any number of retries, crashes and waits.
THEOREM OncePerKey == Spec => []ResumedOncePerKey
<1>1. KeysInv => ResumedOncePerKey
  BY DEF KeysInv, ResumedOncePerKey
<1> QED BY <1>1, KeysInvariant, PTL

--------------------------------------------------------------------------------
(***************************************************************************)
(* Whose turn it is.                                                       *)
(***************************************************************************)
OneTurn == \A p, q \in Executors : Live(p) /\ Live(q) => p = q

\* A parked run is executed by nobody.
ParkedInv == run.status = "waiting_signal" => \A p \in Executors : ~Live(p)

\* Nobody works while the daemon is down.
DownInv == ~up => \A p \in Executors : ~Live(p) /\ loaded[p] = None

\* Signals are consumed at steps that are already behind.
AheadInv ==
  \A w \in WaitSteps :
    Taken(w) => /\ \A p \in Executors : Live(p) => w < at[p]
                /\ run.status = "waiting_signal" => w < run.current_step_id

\* A consumed signal is the only one of its name, and the workflow waits for it.
ConsumedInv ==
  /\ \A j, k \in DOMAIN signals :
       signals[j].consumed /\ signals[k].consumed /\ NameAt(j) = NameAt(k) => j = k
  /\ \A k \in DOMAIN signals :
       signals[k].consumed => \E w \in WaitSteps : Steps[w].name = NameAt(k)

\* An executor about to consume a signal holds one it waits for, unconsumed.
FoundAt(p) ==
  /\ found[p] \in DOMAIN signals /\ ~signals[found[p]].consumed
  /\ NameAt(found[p]) = StepAt(p).name

FoundInv == \A p \in Executors : pc[p] = "consume" => FoundAt(p)

\* A submission that saw the run parked at w finds it there, or the signal of w is
\* taken, or the run was taken out of the wait for good.
CopyInv ==
  \A c \in Clients :
    HoldsWait(c) =>
      LET w == loaded[c].current_step_id
      IN \/ Parked(w)
         \/ Taken(w)
         \/ run.status # "waiting_signal" /\ \A p \in Executors : ~Live(p)

TurnInv ==
  /\ OneTurn /\ ParkedInv /\ DownInv /\ AheadInv
  /\ ConsumedInv /\ FoundInv /\ CopyInv

(***************************************************************************)
(* The kinds of step, as far as turns go.                                  *)
(***************************************************************************)
\* No signal is stored or consumed, nobody starts, and the run is parked only by
\* the executor that gives up its turn.
Plain ==
  /\ signals' = signals
  /\ \A p \in Executors : Live(p)' => Live(p) /\ at[p] <= at'[p]
  /\ run'.status = "waiting_signal" =>
       \/ run' = run
       \/ \E p \in Executors : /\ Live(p) /\ ~Live(p)'
                               /\ at[p] \in WaitSteps /\ run'.current_step_id = at[p]
  /\ run.status = "waiting_signal" /\ run'.status = "running"
       => \E p \in Executors : Live(p)
  /\ \A p \in Executors : pc'[p] = "consume" =>
       \/ pc[p] = "consume" /\ found'[p] = found[p] /\ at'[p] = at[p]
       \/ FoundAt(p)'
  /\ \A c \in Clients : HoldsWait(c)' =>
       \/ HoldsWait(c) /\ loaded'[c] = loaded[c]
       \/ loaded'[c] = run /\ run' = run
  /\ up' \/ \A p \in Executors : ~Live(p)' /\ loaded'[p] = None

\* The executor whose turn it is consumes the signal it found.
Consumes(p) ==
  /\ up' /\ pc[p] = "consume" /\ IsInterruptible(run)
  /\ loaded[p] # None /\ loaded[p].status = run.status
  /\ run' = SignalConsumed(loaded[p], Following(at[p]))
  /\ signals' = [signals EXCEPT ![found[p]].consumed = TRUE]
  /\ \E t \in {"begin", "finish"} : pc' = [pc EXCEPT ![p] = t]
  /\ at' = [at EXCEPT ![p] = @ + 1] /\ loaded' = [loaded EXCEPT ![p] = None]
  /\ UNCHANGED <<found, mem, drops>>

\* A submission consumes its own signal and takes the turn.
Delivers(c) ==
  /\ up' /\ pc[c] = "deliver" /\ ~KeyStored(c)
  /\ HoldsWait(c) /\ Consistent(loaded[c]) /\ loaded[c].waiting_ref = NameOf[c]
  /\ loaded[c].current_step_id \in WaitSteps
  /\ run.status = "waiting_signal"
  /\ run' = SignalDelivered(loaded[c], Following(loaded[c].current_step_id))
  /\ signals' = Stored(c, TRUE)
  /\ \E t \in {"begin", "finish"} : pc' = [pc EXCEPT ![c] = t]
  /\ at' = [at EXCEPT ![c] = loaded[c].current_step_id + 1]
  /\ mem' = [mem EXCEPT ![c] = ResumedVars(loaded[c])]
  /\ loaded' = [loaded EXCEPT ![c] = None]
  /\ UNCHANGED <<found, drops>>

\* A submission only stores its signal.
Stores(c) ==
  /\ up' /\ pc[c] = "store" /\ signals' = Stored(c, FALSE)
  /\ pc' = [pc EXCEPT ![c] = "done"]
  /\ UNCHANGED <<run, at, mem, found, loaded, drops>>

TurnStep ==
  \/ Plain
  \/ \E p \in Executors : Consumes(p)
  \/ \E c \in Clients : Delivers(c) \/ Stores(c)

\* Labels of requests are not labels of executors.
LEMMA LabelFacts ==
  /\ {"start", "begin", "agent", "complete", "skip", "fail", "failRun", "find",
      "consume", "park", "finish"} = ExecutorLabels
  /\ "done" \notin ExecutorLabels /\ SubmitLabels \cap ExecutorLabels = {}
BY DEF ExecutorLabels, SubmitLabels

\* A process that loads the row or gives up.
LEMMA LoadPlain ==
  ASSUME IInv, NEW p \in Executors, NEW t \in ExecutorLabels, NEW guard,
         NEW otherwise \in {"done", "fail"}, Load(p, t, guard, otherwise)
  PROVE  Plain
<1> USE ProcessFacts DEF Load, Goto, store, local, env
<1>1. \A q \in Executors : at[q] <= at'[q] /\ (Live(q)' => Live(q))
  BY LabelFacts DEF Live, IInv, TypeOK
<1>2. \A q \in Executors : pc'[q] = "consume" =>
        pc[q] = "consume" /\ found'[q] = found[q] /\ at'[q] = at[q]
  BY DEF IInv, TypeOK
<1>3. \A c \in Clients : HoldsWait(c)' => HoldsWait(c) /\ loaded'[c] = loaded[c]
  BY LabelFacts DEF HoldsWait, IInv, TypeOK, ExecutorLabels
<1> QED BY <1>1, <1>2, <1>3 DEF Plain

\* A process that commits a row that is not parked, or is refused.
LEMMA CommitPlain ==
  ASSUME IInv, NEW p \in Executors, NEW t \in ExecutorLabels, NEW row, NEW next, NEW otherwise,
         Commit(p, t, row, next, otherwise),
         next \notin {"consume", "lookup", "deliver"},
         otherwise \notin {"consume", "lookup", "deliver"},
         row.status # "waiting_signal",
         found' = found, at' \in {at, [at EXCEPT ![p] = @ + 1]}
  PROVE  Plain
<1> USE ProcessFacts DEF Commit, Commits, Goto, env
<1>1. \A q \in Executors : at[q] <= at'[q] /\ (q # p => at'[q] = at[q])
  BY DEF IInv, TypeOK
<1>2. Live(p) /\ \A q \in Executors : Live(q)' => Live(q)
  BY LabelFacts DEF Live, IInv, TypeOK
<1>3. \A q \in Executors : pc'[q] = "consume" =>
        pc[q] = "consume" /\ found'[q] = found[q] /\ at'[q] = at[q]
  BY <1>1 DEF IInv, TypeOK
<1>4. \A c \in Clients : HoldsWait(c)' => HoldsWait(c) /\ loaded'[c] = loaded[c]
  BY LabelFacts DEF HoldsWait, IInv, TypeOK, ExecutorLabels
<1>5. run'.status = "waiting_signal" => run' = run
  OBVIOUS
<1> QED BY <1>1, <1>2, <1>3, <1>4, <1>5 DEF Plain

\* Where an executor that is not at the end of the run goes on.
LEMMA EnterLabels ==
  ASSUME NEW i PROVE Enter(i) \in {"begin", "finish"}
BY DEF Enter

\* The status of the rows that transitions write.
LEMMA RowStatuses ==
  ASSUME IInv, NEW p \in Executors, NEW t, Commits(p, t), NEW i, NEW v, NEW d
  PROVE  LET r == loaded[p] IN
         /\ RunStarted(r, i).status = "running"
         /\ StepStarted(r, i, d).status = r.status
         /\ StepCompleted(r, i, v).status = r.status
         /\ StepSkipped(r, i).status = r.status
         /\ StepFailed(r, i).status = r.status
         /\ RunFailed(r, i).status = "failed"
         /\ RunCompleted(r).status = "completed"
<1>1. loaded[p] \in RunRow
  BY CopyFits, ProcessFacts DEF Fits
<1> QED
  BY <1>1 DEF RunRow, Row, RunStarted, StepStarted, StepCompleted, StepSkipped, StepFailed,
              RunFailed, RunCompleted, Detached

\* The transitions of an executor, but for those of the waits, are plain.
LEMMA StepsPlain ==
  ASSUME IInv, NEW p \in Executors,
         \/ RecordRunStarted(p)    \/ RecordStepStarted(p) \/ RecordStepCompleted(p)
         \/ RecordStepSkipped(p)   \/ RecordStepFailed(p)
         \/ RecordRunFailed(p)     \/ RecordRunCompleted(p)
  PROVE  Plain
<1>0. /\ \A r \in {"done", "fail"} : r \notin {"consume", "lookup", "deliver"}
      /\ \A t : Commits(p, t) => pc[p] = t /\ GuardAt(t, loaded[p], p)
  BY CopyFits, ProcessFacts
<1>1. ASSUME RecordRunStarted(p) PROVE Plain
  <2>1. CASE Load(p, "start", run.status = "pending", "done")
    BY <2>1, LoadPlain, LabelFacts
  <2>2. CASE /\ Commit(p, "start", RunStarted(loaded[p], 1), "begin", "done")
             /\ UNCHANGED local
    <3>1. RunStarted(loaded[p], 1).status # "waiting_signal"
      BY <2>2, RowStatuses DEF Commit
    <3> QED BY <2>2, <3>1, CommitPlain, LabelFacts DEF local
  <2> QED BY <1>1, <2>1, <2>2 DEF RecordRunStarted
<1>2. ASSUME RecordStepStarted(p) PROVE Plain
  <2> DEFINE d == IF StepAt(p).kind = "agent" THEN p ELSE None
             row == StepStarted(loaded[p], at[p], d)
  <2>0. StartRefused(p) \in {"done", "fail"}
    BY DEF StartRefused
  <2>1. CASE Load(p, "begin", CanRecordStep(run), StartRefused(p))
    BY <2>0, <2>1, LoadPlain, LabelFacts
  <2>2. CASE /\ Commit(p, "begin", row, Work(p), StartRefused(p))
             /\ UNCHANGED <<at, found>>
    <3>1. row.status # "waiting_signal"
      BY <2>2, <1>0, RowStatuses DEF Commit, GuardAt
    <3>2. at[p] \in StepIds
      BY <1>0, <2>2, LabelFacts DEF Commit, IInv, PlaceInv
    <3>3. Work(p) \in {"agent", "complete", "find"}
      BY <3>2, StepsAreSteps DEF Work, StepAt, Step
    <3> QED BY <2>0, <2>2, <3>1, <3>3, CommitPlain, LabelFacts
  <2> QED BY <1>2, <2>1, <2>2 DEF RecordStepStarted
<1>3. ASSUME RecordStepCompleted(p) PROVE Plain
  <2> DEFINE row == StepCompleted(loaded[p], at[p], mem[p])
  <2>1. CASE Load(p, "complete", CanRecordStep(run), "done")
    BY <2>1, LoadPlain, LabelFacts
  <2>2. CASE /\ Commit(p, "complete", row, Enter(at[p] + 1), "done")
             /\ Advance(p) /\ UNCHANGED <<mem, found>>
    <3>1. row.status # "waiting_signal"
      BY <2>2, <1>0, RowStatuses DEF Commit, GuardAt
    <3>2. Enter(at[p] + 1) \in {"begin", "finish"} /\ at' = [at EXCEPT ![p] = @ + 1]
      BY <2>2, EnterLabels DEF Advance
    <3> DEFINE next == Enter(at[p] + 1)
    <3>3. next \notin {"consume", "lookup", "deliver"}
      BY <3>2
    <3>4. Commit(p, "complete", row, next, "done") /\ found' = found
      BY <2>2
    <3> HIDE DEF row, next
    <3> QED BY <3>1, <3>2, <3>3, <3>4, CommitPlain, LabelFacts
  <2> QED BY <1>3, <2>1, <2>2 DEF RecordStepCompleted
<1>4. ASSUME RecordStepSkipped(p) PROVE Plain
  <2> DEFINE row == StepSkipped(loaded[p], at[p])
  <2>1. CASE Load(p, "skip", CanRecordStep(run), "done")
    BY <2>1, LoadPlain, LabelFacts
  <2>2. CASE /\ Commit(p, "skip", row, Enter(at[p] + 1), "done")
             /\ Advance(p) /\ UNCHANGED <<mem, found>>
    <3>1. row.status # "waiting_signal"
      BY <2>2, <1>0, RowStatuses DEF Commit, GuardAt
    <3>2. Enter(at[p] + 1) \in {"begin", "finish"} /\ at' = [at EXCEPT ![p] = @ + 1]
      BY <2>2, EnterLabels DEF Advance
    <3> DEFINE next == Enter(at[p] + 1)
    <3>3. next \notin {"consume", "lookup", "deliver"}
      BY <3>2
    <3>4. Commit(p, "skip", row, next, "done") /\ found' = found
      BY <2>2
    <3> HIDE DEF row, next
    <3> QED BY <3>1, <3>2, <3>3, <3>4, CommitPlain, LabelFacts
  <2> QED BY <1>4, <2>1, <2>2 DEF RecordStepSkipped
<1>5. ASSUME RecordStepFailed(p) PROVE Plain
  <2> DEFINE row == StepFailed(loaded[p], at[p])
  <2>1. CASE Load(p, "fail", CanRecordStep(run), "done")
    BY <2>1, LoadPlain, LabelFacts
  <2>2. CASE Commit(p, "fail", row, "failRun", "done") /\ UNCHANGED local
    <3>1. row.status # "waiting_signal"
      BY <2>2, <1>0, RowStatuses DEF Commit, GuardAt
    <3> QED BY <2>2, <3>1, CommitPlain, LabelFacts DEF local
  <2> QED BY <1>5, <2>1, <2>2 DEF RecordStepFailed
<1>6. ASSUME RecordRunFailed(p) PROVE Plain
  <2> DEFINE row == RunFailed(loaded[p], at[p])
  <2>1. CASE Load(p, "failRun", IsInterruptible(run), "done")
    BY <2>1, LoadPlain, LabelFacts
  <2>2. CASE Commit(p, "failRun", row, "done", "done") /\ UNCHANGED local
    <3>1. row.status # "waiting_signal"
      BY <2>2, RowStatuses DEF Commit
    <3> QED BY <2>2, <3>1, CommitPlain, LabelFacts DEF local
  <2> QED BY <1>6, <2>1, <2>2 DEF RecordRunFailed
<1>7. ASSUME RecordRunCompleted(p) PROVE Plain
  <2> DEFINE row == RunCompleted(loaded[p])
  <2>1. CASE Load(p, "finish", CanRecordStep(run), "done")
    BY <2>1, LoadPlain, LabelFacts
  <2>2. CASE Commit(p, "finish", row, "done", "done") /\ UNCHANGED local
    <3>1. row.status # "waiting_signal"
      BY <2>2, RowStatuses DEF Commit
    <3> QED BY <2>2, <3>1, CommitPlain, LabelFacts DEF local
  <2> QED BY <1>7, <2>1, <2>2 DEF RecordRunCompleted
<1> QED BY <1>1, <1>2, <1>3, <1>4, <1>5, <1>6, <1>7

\* So is the return of an agent.
LEMMA AgentPlain ==
  ASSUME IInv, NEW p \in Executors, AgentReturns(p)
  PROVE  Plain
<1> USE ProcessFacts DEF AgentReturns, Goto, store, env
<1>1. PICK t \in {"complete", "skip", "fail"} : pc' = [pc EXCEPT ![p] = t]
  OBVIOUS
<1>2. \A q \in Executors : at[q] <= at'[q] /\ (Live(q)' => Live(q))
  BY <1>1, LabelFacts DEF Live, IInv, TypeOK
<1>3. \A q \in Executors : pc'[q] = "consume" =>
        pc[q] = "consume" /\ found'[q] = found[q] /\ at'[q] = at[q]
  BY <1>1 DEF IInv, TypeOK
<1>4. \A c \in Clients : HoldsWait(c)' => HoldsWait(c) /\ loaded'[c] = loaded[c]
  BY <1>1 DEF HoldsWait, IInv, TypeOK
<1> QED BY <1>2, <1>3, <1>4 DEF Plain

\* An executor that finds a signal finds an unconsumed one of its name.
LEMMA FindPlain ==
  ASSUME IInv, NEW p \in Executors, FindUnconsumed(p)
  PROVE  Plain
<1> USE ProcessFacts DEF FindUnconsumed, Goto, store, env
<1>1. PICK t \in {"park", "consume"} : pc' = [pc EXCEPT ![p] = t]
  OBVIOUS
<1>2. \A q \in Executors : at[q] <= at'[q] /\ (Live(q)' => Live(q))
  BY <1>1, LabelFacts DEF Live, IInv, TypeOK
<1>3. pc'[p] = "consume" => FoundAt(p)'
  <2> SUFFICES ASSUME pc'[p] = "consume" PROVE FoundAt(p)'
    OBVIOUS
  <2>1. PICK k \in Unconsumed(StepAt(p).name) : found' = [found EXCEPT ![p] = k]
    BY DEF IInv, TypeOK
  <2>2. found'[p] = k
    BY <2>1 DEF IInv, TypeOK
  <2>3. k \in DOMAIN signals /\ ~signals[k].consumed /\ NameAt(k) = StepAt(p).name
    BY <2>1 DEF Unconsumed, NameAt
  <2> QED BY <2>2, <2>3 DEF FoundAt, NameAt, StepAt
<1>4. \A q \in Executors : q # p => found'[q] = found[q] /\ at'[q] = at[q] /\ pc'[q] = pc[q]
  <2>1. \/ found' = found
        \/ \E k : found' = [found EXCEPT ![p] = k]
    OBVIOUS
  <2> QED BY <2>1, <1>1 DEF IInv, TypeOK
<1>5. \A c \in Clients : HoldsWait(c)' => HoldsWait(c) /\ loaded'[c] = loaded[c]
  BY <1>1 DEF HoldsWait, IInv, TypeOK
<1> QED BY <1>2, <1>3, <1>4, <1>5 DEF Plain

\* An executor that parks the run parks it at its wait step and leaves.
LEMMA ParkPlain ==
  ASSUME IInv, NEW p \in Executors, RecordWaitingForSignal(p)
  PROVE  Plain
<1> DEFINE row == WaitingForSignal(loaded[p], at[p], StepAt(p).name)
<1>1. CASE Load(p, "park", CanPark(run), "done")
  BY <1>1, LoadPlain, LabelFacts
<1>2. CASE Commit(p, "park", row, "done", "done") /\ UNCHANGED local
  <2> USE <1>2, ProcessFacts DEF Commit, Commits, Goto, env, local
  <2>1. at[p] \in WaitSteps /\ pc[p] = "park"
    BY DEF IInv, PlaceInv, IsWait, WaitSteps
  <2>2. Live(p) /\ ~Live(p)' /\ pc' = [pc EXCEPT ![p] = "done"]
    BY LabelFacts DEF Live, IInv, TypeOK
  <2>3. \A q \in Executors : at[q] <= at'[q] /\ (Live(q)' => Live(q))
    BY <2>2, LabelFacts DEF Live, IInv, TypeOK
  <2>4. \A q \in Executors : pc'[q] = "consume" =>
          pc[q] = "consume" /\ found'[q] = found[q] /\ at'[q] = at[q]
    BY <2>2 DEF IInv, TypeOK
  <2>5. \A c \in Clients : HoldsWait(c)' => HoldsWait(c) /\ loaded'[c] = loaded[c]
    BY <2>2, LabelFacts DEF HoldsWait, IInv, TypeOK
  <2>6. row.current_step_id = at[p]
    <3>1. loaded[p] \in RunRow
      BY CopyFits DEF Fits
    <3> QED BY <3>1 DEF WaitingForSignal, RunRow, Row
  <2>7. run' = run \/ run'.current_step_id = at[p]
    BY <2>6
  <2> HIDE DEF row
  <2> QED BY <2>1, <2>2, <2>3, <2>4, <2>5, <2>7 DEF Plain
<1> QED BY <1>1, <1>2 DEF RecordWaitingForSignal

\* The consumption of the signal found, or a plain step.
LEMMA ConsumeStep ==
  ASSUME IInv, NEW p \in Executors, RecordSignalConsumed(p)
  PROVE  Plain \/ Consumes(p)
<1>1. CASE Load(p, "consume", IsInterruptible(run), "done")
  BY <1>1, LoadPlain, LabelFacts
<1>2. CASE /\ Commits(p, "consume") /\ Goto(p, "done") /\ UNCHANGED <<store, at>>
           /\ UNCHANGED <<env, mem, found, resumed>>
  <2> USE <1>2, ProcessFacts DEF Commits, Goto, store, env
  <2>3. \A q \in Executors : at[q] <= at'[q] /\ (Live(q)' => Live(q))
    BY LabelFacts DEF Live, IInv, TypeOK
  <2>4. \A q \in Executors : pc'[q] = "consume" =>
          pc[q] = "consume" /\ found'[q] = found[q] /\ at'[q] = at[q]
    BY DEF IInv, TypeOK
  <2>5. \A c \in Clients : HoldsWait(c)' => HoldsWait(c) /\ loaded'[c] = loaded[c]
    BY LabelFacts DEF HoldsWait, IInv, TypeOK
  <2> QED BY <2>3, <2>4, <2>5 DEF Plain
<1>3. CASE /\ Commits(p, "consume") /\ Matches(p)
           /\ run' = SignalConsumed(loaded[p], Following(at[p]))
           /\ signals' = [signals EXCEPT ![found[p]].consumed = TRUE]
           /\ Goto(p, Enter(at[p] + 1)) /\ Advance(p)
           /\ UNCHANGED <<env, mem, found, resumed>>
  <2>1. IsInterruptible(loaded[p])
    BY <1>3, CopyFits, ProcessFacts DEF GuardAt
  <2> QED
    BY <1>3, <2>1, EnterLabels
       DEF Consumes, Commits, Matches, IsInterruptible, Goto, Advance, env
<1> QED BY <1>1, <1>2, <1>3 DEF RecordSignalConsumed

\* Everything an executor does is a kind of step.
LEMMA ExecuteStep ==
  ASSUME IInv, NEW p \in Executors, Execute(p)
  PROVE  Plain \/ Consumes(p)
BY StepsPlain, AgentPlain, FindPlain, ParkPlain, ConsumeStep DEF Execute

\* Everything a submission does is a kind of step.
LEMMA SubmitStep ==
  ASSUME IInv, NEW c \in Clients, Submit(c)
  PROVE  Plain \/ Delivers(c) \/ Stores(c)
<1> USE ProcessFacts, LabelFacts DEF Goto
<1>1. ASSUME NEW t \in {"lookup", "deliver", "done", "store"}, Goto(c, t), up, up' = up,
             pc[c] \in SubmitLabels, UNCHANGED <<run, signals, at, found>>,
             \/ loaded' = loaded /\ pc[c] \in {"lookup", "deliver"}
             \/ loaded' = [loaded EXCEPT ![c] = None]
             \/ loaded' = [loaded EXCEPT ![c] = run]
      PROVE  Plain
  <2>1. \A q \in Executors : at[q] <= at'[q] /\ (Live(q)' => Live(q))
    BY <1>1 DEF Live, IInv, TypeOK, SubmitLabels
  <2>2. \A q \in Executors : pc'[q] = "consume" =>
          pc[q] = "consume" /\ found'[q] = found[q] /\ at'[q] = at[q]
    BY <1>1 DEF IInv, TypeOK
  <2>3. \A d \in Clients : HoldsWait(d)' =>
          \/ HoldsWait(d) /\ loaded'[d] = loaded[d]
          \/ loaded'[d] = run /\ run' = run
    BY <1>1 DEF HoldsWait, IInv, TypeOK
  <2> QED BY <1>1, <2>1, <2>2, <2>3 DEF Plain
<1>2. ASSUME SubmitLoad(c) PROVE Plain
  BY <1>1, <1>2 DEF SubmitLoad, store, local, env, SubmitLabels
<1>3. ASSUME SubmitLookup(c) PROVE Plain
  <2>1. PICK t \in {"deliver", "done", "store"} :
          /\ Goto(c, t)
          /\ loaded' = loaded \/ loaded' = [loaded EXCEPT ![c] = None]
    BY <1>3 DEF SubmitLookup
  <2> QED BY <1>1, <1>3, <2>1 DEF SubmitLookup, store, local, env, SubmitLabels
<1>4. ASSUME PersistSubmission(c) PROVE Plain \/ Stores(c)
  <2>1. CASE signals' = signals
    <3>1. pc[c] = "store" /\ loaded[c] = None
      BY <1>4 DEF PersistSubmission, IInv, CopiesInv, GuardAt
    <3>2. loaded' = [loaded EXCEPT ![c] = None]
      BY <1>4, <3>1 DEF PersistSubmission, IInv, TypeOK
    <3> QED BY <1>1, <1>4, <2>1, <3>2 DEF PersistSubmission, local, env, SubmitLabels
  <2>2. CASE signals' = Stored(c, FALSE)
    BY <1>4, <2>2 DEF PersistSubmission, Stores, local, env
  <2> QED BY <1>4, <2>1, <2>2 DEF PersistSubmission
<1>5. ASSUME PersistSubmissionAndResume(c) PROVE Plain \/ Delivers(c)
  <2>1. /\ Commits(c, "deliver") /\ UNCHANGED env
        /\ Consistent(loaded[c]) /\ WaitingMatches(loaded[c], NameOf[c])
    BY <1>5, CopyFits DEF PersistSubmissionAndResume, Fits, GuardAt
  <2>2. ASSUME NEW t \in {"done", "store"}, Goto(c, t), UNCHANGED <<store, local>>
        PROVE  Plain
    BY <1>1, <2>1, <2>2 DEF Commits, store, local, env, SubmitLabels
  <2> DEFINE wait == loaded[c].current_step_id
             next == SignalDelivered(loaded[c], Following(wait))
  <2>3. ASSUME ~KeyStored(c), Matches(c), run' = next,
               at' = [at EXCEPT ![c] = wait + 1], Goto(c, Enter(wait + 1)),
               mem' = [mem EXCEPT ![c] = ResumedVars(loaded[c])],
               signals' = Stored(c, TRUE), UNCHANGED found
        PROVE  Delivers(c)
    <3>1. wait \in WaitSteps
      BY <2>1 DEF Consistent, WaitingMatches, IsWait, WaitSteps
    <3>2. HoldsWait(c) /\ run.status = "waiting_signal"
      BY <2>1, <2>3 DEF HoldsWait, Commits, WaitingMatches, Matches
    <3>3. PICK t \in {"begin", "finish"} : pc' = [pc EXCEPT ![c] = t]
      BY <2>3, EnterLabels
    <3>4. up' /\ pc[c] = "deliver" /\ loaded[c].waiting_ref = NameOf[c]
          /\ loaded' = [loaded EXCEPT ![c] = None] /\ drops' = drops
      BY <2>1 DEF Commits, WaitingMatches, env
    <3> HIDE DEF next
    <3> QED BY <2>1, <2>3, <3>1, <3>2, <3>3, <3>4 DEF Delivers, next
  <2> QED BY <1>5, <2>2, <2>3 DEF PersistSubmissionAndResume
<1> QED BY <1>2, <1>3, <1>4, <1>5 DEF Submit

\* An operator's request takes nobody's turn and parks nothing.
LEMMA ControlStep ==
  ASSUME IInv, NEW k \in Controllers, Control(k)
  PROVE  Plain
<1> USE ProcessFacts DEF Load, Commit, Commits, Goto, store, local, env
<1>1. \A t : Commits(k, t) => loaded[k] \in RunRow /\ GuardAt(t, loaded[k], k)
  BY CopyFits DEF Fits
<1>2. \/ run' = run
      \/ run'.status \in {"paused", "cancelled"}
      \/ run.status = "paused" /\ run'.status = "running"
  <2>1. ASSUME RecordRunPaused(k), run' # run PROVE run'.status = "paused"
    BY <1>1, <2>1 DEF RecordRunPaused, RunPaused, Detached, RunRow, Row
  <2>2. ASSUME RecordRunResumed(k), run' # run
        PROVE  run.status = "paused" /\ run'.status = "running"
    BY <1>1, <2>2 DEF RecordRunResumed, RunResumed, Detached, RunRow, Row, GuardAt, Matches
  <2>3. ASSUME RecordRunCancelled(k), run' # run PROVE run'.status = "cancelled"
    BY <1>1, <2>3 DEF RecordRunCancelled, RunCancelled, RunRow, Row
  <2> QED BY <2>1, <2>2, <2>3 DEF Control
<1>3. /\ \A q \in Executors : pc'[q] = pc[q] /\ loaded'[q] = loaded[q]
      /\ UNCHANGED <<signals, at, found, up>> /\ up
  <2>1. /\ UNCHANGED <<signals, at, found, up>> /\ up
        /\ \E t : pc' = [pc EXCEPT ![k] = t] \/ pc' = pc
        /\ \E r : loaded' = [loaded EXCEPT ![k] = r] \/ loaded' = loaded
    BY DEF Control, RecordRunPaused, RecordRunResumed, RecordRunCancelled
  <2> QED BY <2>1 DEF IInv, TypeOK
<1>4. \A q \in Executors : at[q] <= at'[q]
  BY <1>3 DEF IInv, TypeOK
<1>5. \A q \in Executors : Live(q)' => Live(q)
  BY <1>3 DEF Live
<1>6. \A c \in Clients : HoldsWait(c)' => HoldsWait(c) /\ loaded'[c] = loaded[c]
  BY <1>3 DEF HoldsWait
<1> QED BY <1>2, <1>3, <1>4, <1>5, <1>6 DEF Plain

\* Neither does what happens to the daemon.
LEMMA DaemonStep ==
  ASSUME IInv, DownInv, DropExecutor \/ Crash \/ Recover \/ UNCHANGED vars
  PROVE  Plain
<1> USE ProcessFacts
<1>1. CASE DropExecutor
  <2> USE <1>1 DEF DropExecutor, Goto, store, local
  <2>1. \A q \in Executors : at[q] <= at'[q] /\ (Live(q)' => Live(q))
    BY LabelFacts DEF Live, IInv, TypeOK
  <2>2. \A q \in Executors : pc'[q] = "consume" => pc[q] = "consume"
    BY DEF IInv, TypeOK
  <2>3. \A c \in Clients : HoldsWait(c)' => HoldsWait(c) /\ loaded'[c] = loaded[c]
    BY DEF HoldsWait, IInv, TypeOK
  <2> QED BY <2>1, <2>2, <2>3 DEF Plain
<1>2. CASE Crash
  <2> USE <1>2 DEF Crash, store, local
  <2>1. \A q \in Executors : at[q] <= at'[q] /\ ~Live(q)' /\ loaded'[q] = None
    <3>1. \A q \in Executors : pc'[q] \in {"idle", "done"} /\ at'[q] = at[q]
                               /\ loaded'[q] = None
      BY DEF Untouched
    <3>2. \A q \in Executors : at[q] <= at'[q]
      BY <3>1 DEF IInv, TypeOK
    <3>3. \A q \in Executors : ~Live(q)'
      BY <3>1 DEF Live, ExecutorLabels
    <3> QED BY <3>1, <3>2, <3>3
  <2>2. \A c \in Clients : ~HoldsWait(c)'
    BY DEF HoldsWait
  <2>3. \A q \in Executors : pc'[q] # "consume"
    BY <2>1, LabelFacts DEF Live
  <2> QED BY <2>1, <2>2, <2>3 DEF Plain
<1>3. CASE Recover
  <2> USE <1>3 DEF Recover, local
  <2>1. run' = run \/ run'.status = "paused"
    BY DEF RunRecovered, IInv, TypeOK, RunRow, Row
  <2>2. \A q \in Executors : at[q] <= at'[q] /\ (Live(q)' => Live(q))
    BY DEF Live, IInv, TypeOK
  <2>3. \A c \in Clients : HoldsWait(c)' => HoldsWait(c) /\ loaded'[c] = loaded[c]
    BY DEF HoldsWait
  <2> QED BY <2>1, <2>2, <2>3 DEF Plain
<1>4. CASE UNCHANGED vars
  <2> USE <1>4 DEF vars
  <2>1. \A q \in Executors : at[q] <= at'[q] /\ (Live(q)' => Live(q))
    BY DEF Live, IInv, TypeOK
  <2>2. \A c \in Clients : HoldsWait(c)' => HoldsWait(c) /\ loaded'[c] = loaded[c]
    BY DEF HoldsWait
  <2>3. up' \/ \A q \in Executors : ~Live(q)' /\ loaded'[q] = None
    BY DEF DownInv, Live
  <2> QED BY <2>1, <2>2, <2>3 DEF Plain
<1> QED BY <1>1, <1>2, <1>3, <1>4

\* Every step is of one of the kinds.
LEMMA EveryTurnStep ==
  ASSUME IInv, DownInv, [Next]_vars
  PROVE  TurnStep
BY ExecuteStep, SubmitStep, ControlStep, DaemonStep DEF Next, TurnStep, Quiet

--------------------------------------------------------------------------------
(***************************************************************************)
(* Each kind of step keeps the invariant.                                  *)
(***************************************************************************)
\* A plain step: whoever works after it worked before it.
LEMMA PlainKeepsTurns ==
  ASSUME IInv, IInv', TurnInv, Plain
  PROVE  TurnInv'
<1> USE DEF TurnInv, Plain
<1>1. OneTurn' /\ ParkedInv' /\ DownInv'
  BY DEF OneTurn, ParkedInv, DownInv
<1>2. \A w : Taken(w)' <=> Taken(w)
  BY DEF Taken, NameAt
<1>3. AheadInv'
  <2> SUFFICES ASSUME NEW w \in WaitSteps, Taken(w)'
               PROVE  /\ \A p \in Executors : Live(p)' => w < at'[p]
                      /\ run'.status = "waiting_signal" => w < run'.current_step_id
    BY DEF AheadInv
  <2>1. /\ \A p \in Executors : Live(p) => w < at[p]
        /\ run.status = "waiting_signal" => w < run.current_step_id
    BY <1>2 DEF AheadInv
  <2>2. ASSUME NEW p \in Executors, Live(p)' PROVE w < at'[p]
    <3>1. Live(p) /\ at[p] <= at'[p] /\ w < at[p]
      BY <2>1, <2>2
    <3>2. w \in Nat
      BY DEF WaitSteps, StepIds
    <3>3. at[p] \in Nat
      BY DEF IInv, TypeOK
    <3>4. at'[p] \in Nat
      BY DEF IInv, TypeOK
    <3> QED BY <3>1, <3>2, <3>3, <3>4
  <2>3. ASSUME run'.status = "waiting_signal" PROVE w < run'.current_step_id
    BY <2>1, <2>3
  <2> QED BY <2>2, <2>3
<1>4. ConsumedInv'
  BY DEF ConsumedInv, NameAt
<1>5. FoundInv'
  BY DEF FoundInv, FoundAt, NameAt, StepAt
<1>6. CopyInv'
  <2> SUFFICES ASSUME NEW c \in Clients, HoldsWait(c)'
               PROVE  LET w == loaded'[c].current_step_id
                      IN \/ run'.status = "waiting_signal" /\ run'.current_step_id = w
                         \/ Taken(w)
                         \/ /\ run'.status # "waiting_signal"
                            /\ \A p \in Executors : ~Live(p)'
    BY DEF CopyInv, Parked, Taken, NameAt
  <2>1. CASE loaded'[c] = run /\ run' = run
    BY <2>1 DEF HoldsWait
  <2>2. CASE HoldsWait(c) /\ loaded'[c] = loaded[c]
    <3> DEFINE w == loaded[c].current_step_id
    <3>1. CASE Taken(w)
      BY <2>2, <3>1
    <3>2. CASE Parked(w)
      BY <2>2, <3>2 DEF ParkedInv, Parked
    <3>3. CASE run.status # "waiting_signal" /\ \A p \in Executors : ~Live(p)
      BY <2>2, <3>3
    <3> QED BY <2>2, <3>1, <3>2, <3>3 DEF CopyInv
  <2> QED BY <2>1, <2>2
<1> QED BY <1>1, <1>3, <1>4, <1>5, <1>6

\* Two steps that wait for one name are one step.
LEMMA WaitsAreDistinct == Unambiguous => DistinctWaits
BY DEF Unambiguous, SingleWait, DistinctWaits

\* A signal is consumed by the executor whose turn it is, at a step ahead of those
\* whose signals are taken: it is the first of its name, and the turn goes on.
LEMMA ConsumesKeepsTurns ==
  ASSUME IInv, IInv', TurnInv, Unambiguous, NEW p \in Executors, Consumes(p)
  PROVE  TurnInv'
<1> USE ProcessFacts DEF TurnInv, Consumes
<1> DEFINE f == found[p]
           w == at[p]
<1>1. PICK t \in {"begin", "finish"} : pc' = [pc EXCEPT ![p] = t]
  OBVIOUS
<1>2. Live(p) /\ \A q \in Executors : Live(q) => q = p
  BY LabelFacts DEF Live, OneTurn
<1>3. /\ w \in WaitSteps /\ w \in Nat /\ Steps[w].name = NameAt(f)
      /\ f \in DOMAIN signals /\ ~signals[f].consumed
  BY DEF IInv, PlaceInv, IsWait, WaitSteps, StepIds, FoundInv, FoundAt, StepAt
<1>4. ~Taken(w)
  BY <1>2, <1>3 DEF AheadInv
<1>5. /\ DOMAIN signals' = DOMAIN signals
      /\ \A k \in DOMAIN signals :
           /\ signals'[k].client = signals[k].client
           /\ signals'[k].consumed = IF k = f THEN TRUE ELSE signals[k].consumed
  <2>1. signals \in Seq(Signal)
    BY DEF IInv, TypeOK
  <2> QED BY <1>3, <2>1, ConsumedFacts
<1>6. \A k \in DOMAIN signals : NameAt(k)' = NameAt(k)
  BY <1>5 DEF NameAt
<1> HIDE DEF f
<1>7. /\ run'.status = "running" /\ loaded[p] \in RunRow
      /\ \A q \in Executors : /\ Live(q)' => q = p
                              /\ pc'[q] # "consume" /\ (q # p => at'[q] = at[q])
      /\ at'[p] = w + 1
  <2>1. loaded[p] \in RunRow
    BY DEF IInv, TypeOK
  <2>2. run'.status = "running"
    BY <2>1 DEF SignalConsumed, Detached, RunRow, Row
  <2>3. \A q \in Executors : /\ q # p => pc'[q] = pc[q] /\ at'[q] = at[q]
                             /\ pc'[p] \in {"begin", "finish"} /\ at'[p] = w + 1
    BY <1>1 DEF IInv, TypeOK
  <2> QED BY <1>2, <2>1, <2>2, <2>3, LabelFacts DEF Live
<1>8. OneTurn' /\ ParkedInv' /\ DownInv' /\ FoundInv'
  BY <1>7 DEF OneTurn, ParkedInv, DownInv, FoundInv
<1>9. \A k \in DOMAIN signals : signals[k].consumed => NameAt(k) # NameAt(f)
  BY <1>3, <1>4 DEF Taken
<1>10. ConsumedInv'
  <2>1. \A j, k \in DOMAIN signals :
          signals'[j].consumed /\ signals'[k].consumed /\ NameAt(j) = NameAt(k) => j = k
    BY <1>5, <1>9 DEF ConsumedInv
  <2>2. \A k \in DOMAIN signals :
          signals'[k].consumed => \E v \in WaitSteps : Steps[v].name = NameAt(k)
    BY <1>3, <1>5 DEF ConsumedInv
  <2> QED BY <1>5, <1>6, <2>1, <2>2 DEF ConsumedInv
<1>11. \A v \in WaitSteps : Taken(v)' => Taken(v) \/ v = w
  <2> SUFFICES ASSUME NEW v \in WaitSteps, Taken(v)' PROVE Taken(v) \/ v = w
    OBVIOUS
  <2>1. PICK k \in DOMAIN signals : signals'[k].consumed /\ NameAt(k) = Steps[v].name
    BY <1>5, <1>6 DEF Taken
  <2>2. CASE k = f
    BY <1>3, <2>1, <2>2, WaitsAreDistinct DEF DistinctWaits
  <2>3. CASE k # f
    BY <1>5, <2>1, <2>3 DEF Taken
  <2> QED BY <2>2, <2>3
<1>12. AheadInv'
  <2> SUFFICES ASSUME NEW v \in WaitSteps, Taken(v)' PROVE v < w + 1
    BY <1>7 DEF AheadInv
  <2>1. Taken(v) => v < w
    BY <1>2 DEF AheadInv
  <2> QED BY <1>3, <1>11, <2>1 DEF WaitSteps, StepIds
<1>13. CopyInv'
  <2> SUFFICES ASSUME NEW c \in Clients, HoldsWait(c)'
               PROVE  \E k \in DOMAIN signals :
                        /\ signals'[k].consumed
                        /\ NameAt(k) = Steps[loaded'[c].current_step_id].name
    BY <1>5, <1>6 DEF CopyInv, Taken
  <2>1. HoldsWait(c) /\ loaded'[c] = loaded[c]
    BY <1>1 DEF HoldsWait, IInv, TypeOK
  <2>2. Taken(loaded[c].current_step_id)
    BY <1>2, <2>1 DEF CopyInv, Parked, ParkedInv
  <2> QED BY <1>5, <2>1, <2>2 DEF Taken
<1> QED BY <1>8, <1>10, <1>12, <1>13

\* A signal that is only stored is not consumed, and changes no turn.
LEMMA StoresKeepsTurns ==
  ASSUME IInv, TurnInv, NEW c \in Clients, Stores(c)
  PROVE  TurnInv'
<1> USE ProcessFacts DEF TurnInv, Stores
<1> DEFINE new == Len(signals) + 1
<1>1. /\ DOMAIN signals' = DOMAIN signals \cup {new}
      /\ \A k \in DOMAIN signals : signals'[k] = signals[k]
      /\ ~signals'[new].consumed
  <2>1. signals \in Seq(Signal)
    BY DEF IInv, TypeOK
  <2>2. /\ DOMAIN Stored(c, FALSE) = DOMAIN signals \cup {new}
        /\ \A k \in DOMAIN signals : Stored(c, FALSE)[k] = signals[k]
        /\ Stored(c, FALSE)[new] = [client |-> c, consumed |-> FALSE]
    BY <2>1, StoredFacts
  <2>3. signals'[new] = [client |-> c, consumed |-> FALSE]
    BY <2>2
  <2>4. ~signals'[new].consumed
    <3>1. \A r : r = [client |-> c, consumed |-> FALSE] => ~r.consumed
      OBVIOUS
    <3> QED BY <2>3, <3>1
  <2>5. DOMAIN signals' = DOMAIN signals \cup {new}
    BY <2>2
  <2>6. \A k \in DOMAIN signals : signals'[k] = signals[k]
    BY <2>2
  <2> QED BY <2>4, <2>5, <2>6
<1> HIDE DEF new
<1>2. \A k \in DOMAIN signals : NameAt(k)' = NameAt(k)
  BY <1>1 DEF NameAt
<1>3. \A w : Taken(w)' <=> Taken(w)
  BY <1>1, <1>2 DEF Taken
<1>4. \A q \in Executors : (Live(q)' <=> Live(q)) /\ (pc'[q] = "consume" <=> pc[q] = "consume")
  BY LabelFacts DEF Live, IInv, TypeOK, SubmitLabels
<1>5. OneTurn' /\ ParkedInv' /\ DownInv' /\ AheadInv'
  BY <1>3, <1>4 DEF OneTurn, ParkedInv, DownInv, AheadInv
<1>6. ConsumedInv'
  <2>1. \A k \in DOMAIN signals' :
          signals'[k].consumed => k \in DOMAIN signals /\ signals[k].consumed
    BY <1>1
  <2>2. \A k \in DOMAIN signals : k \in DOMAIN signals'
    BY <1>1
  <2>3. ASSUME NEW j \in DOMAIN signals', NEW k \in DOMAIN signals',
               signals'[j].consumed, signals'[k].consumed, NameAt(j)' = NameAt(k)'
        PROVE  j = k
    BY <1>2, <2>1, <2>3 DEF ConsumedInv
  <2>4. ASSUME NEW k \in DOMAIN signals', signals'[k].consumed
        PROVE  \E w \in WaitSteps : Steps[w].name = NameAt(k)'
    BY <1>2, <2>1, <2>4 DEF ConsumedInv
  <2> QED BY <2>3, <2>4 DEF ConsumedInv
<1>7. FoundInv'
  BY <1>1, <1>2, <1>4 DEF FoundInv, FoundAt, StepAt
<1>8. CopyInv'
  <2> SUFFICES ASSUME NEW d \in Clients, HoldsWait(d)'
               PROVE  LET w == loaded[d].current_step_id
                      IN \/ Parked(w) \/ Taken(w)'
                         \/ run.status # "waiting_signal" /\ \A p \in Executors : ~Live(p)
    BY <1>4 DEF CopyInv, Parked, Taken, NameAt
  <2>1. HoldsWait(d)
    BY DEF HoldsWait, IInv, TypeOK
  <2> QED BY <1>3, <2>1 DEF CopyInv
<1> QED BY <1>5, <1>6, <1>7, <1>8

\* A delivery is committed at the wait it was prepared for: at another one its key
\* would be stored already, or there is no other one.
LEMMA DeliversWhereParked ==
  ASSUME IInv, TurnInv, Unambiguous, NEW c \in Clients, Delivers(c)
  PROVE  Parked(loaded[c].current_step_id) /\ ~Taken(loaded[c].current_step_id)
<1> USE DEF TurnInv, Delivers
<1> DEFINE w == loaded[c].current_step_id
<1>1. /\ run.current_step_id \in WaitSteps /\ run.current_step_id \in Nat
      /\ w \in WaitSteps /\ Steps[w].name = NameOf[c]
  BY DEF IInv, RowConsistent, Consistent, IsWait, WaitSteps, StepIds, HoldsWait
<1>2. ~Taken(run.current_step_id)
  BY <1>1 DEF AheadInv
<1>3. Parked(w) \/ Taken(w)
  BY DEF CopyInv
<1>4. Taken(w) => ~RetriesOnly
  <2> SUFFICES ASSUME Taken(w), RetriesOnly PROVE FALSE
    OBVIOUS
  <2>1. PICK k \in DOMAIN signals : NameAt(k) = NameOf[c]
    BY <1>1 DEF Taken
  <2>2. signals[k].client \in Clients
    <3>1. signals \in Seq(Signal)
      BY DEF IInv, TypeOK
    <3>2. signals[k] \in Signal
      BY <3>1
    <3> QED BY <3>2 DEF Signal
  <2> QED BY <2>1, <2>2 DEF NameAt, RetriesOnly, KeyStored
<1>5. Taken(w) => ~SingleWait
  BY <1>1, <1>2 DEF SingleWait
<1> QED BY <1>3, <1>4, <1>5 DEF Unambiguous

\* A submission that delivers to the parked run takes a turn that nobody has, past the
\* wait step, and its signal is the first of the name.
LEMMA DeliversKeepsTurns ==
  ASSUME IInv, IInv', TurnInv, Unambiguous, NEW c \in Clients, Delivers(c)
  PROVE  TurnInv'
<1> USE ProcessFacts DEF TurnInv, Delivers
<1> DEFINE w == loaded[c].current_step_id
<1>1. Parked(w) /\ ~Taken(w)
  BY DeliversWhereParked
<1>2. \A q \in Executors : ~Live(q)
  BY <1>1 DEF Parked, ParkedInv
<1>3. PICK t \in {"begin", "finish"} : pc' = [pc EXCEPT ![c] = t]
  OBVIOUS
<1>4. PICK new :
         /\ DOMAIN signals' = DOMAIN signals \cup {new} /\ new \notin DOMAIN signals
         /\ \A k \in DOMAIN signals : signals'[k] = signals[k]
         /\ signals'[new].client = c /\ signals'[new].consumed
  <2> DEFINE new == Len(signals) + 1
  <2>1. signals \in Seq(Signal)
    BY DEF IInv, TypeOK
  <2>2. /\ DOMAIN signals = 1 .. Len(signals) /\ Len(signals) \in Nat
        /\ DOMAIN Stored(c, TRUE) = DOMAIN signals \cup {new}
        /\ \A k \in DOMAIN signals : Stored(c, TRUE)[k] = signals[k]
        /\ Stored(c, TRUE)[new] = [client |-> c, consumed |-> TRUE]
    BY <2>1, StoredFacts
  <2>3. \A r : r = [client |-> c, consumed |-> TRUE] => r.client = c /\ r.consumed
    OBVIOUS
  <2>4. signals'[new].client = c /\ signals'[new].consumed
    BY <2>2, <2>3
  <2>5. new \notin DOMAIN signals
    BY <2>2
  <2>6. \A k \in DOMAIN signals : signals'[k] = signals[k]
    BY <2>2
  <2>7. DOMAIN signals' = DOMAIN signals \cup {new}
    BY <2>2
  <2> HIDE DEF new
  <2> QED BY <2>4, <2>5, <2>6, <2>7
<1>5. /\ \A k \in DOMAIN signals : NameAt(k)' = NameAt(k)
      /\ NameAt(new)' = NameOf[c]
  BY <1>4 DEF NameAt
<1>6. w \in WaitSteps /\ w \in Nat /\ Steps[w].name = NameOf[c]
  BY DEF HoldsWait, Consistent, WaitSteps, StepIds
<1>7. /\ run'.status = "running"
      /\ \A q \in Executors : (Live(q)' => q = c) /\ pc'[q] # "consume"
      /\ at'[c] = w + 1
  <2>1. loaded[c] \in RunRow
    BY DEF IInv, TypeOK, HoldsWait
  <2>2. run'.status = "running"
    BY <2>1 DEF SignalDelivered, RunRow, Row
  <2>3. /\ \A q \in Executors : q # c => pc'[q] = pc[q]
        /\ pc'[c] \in {"begin", "finish"} /\ at'[c] = w + 1
    BY <1>3 DEF IInv, TypeOK
  <2> QED BY <1>2, <2>2, <2>3, LabelFacts DEF Live
<1>8. OneTurn' /\ ParkedInv' /\ DownInv' /\ FoundInv'
  BY <1>7 DEF OneTurn, ParkedInv, DownInv, FoundInv
<1>9. \A k \in DOMAIN signals : signals[k].consumed => NameAt(k) # NameOf[c]
  BY <1>1, <1>6 DEF Taken
<1>10. ConsumedInv'
  <2>1. ASSUME NEW j \in DOMAIN signals', NEW k \in DOMAIN signals',
               signals'[j].consumed, signals'[k].consumed, NameAt(j)' = NameAt(k)'
        PROVE  j = k
    <3>1. CASE j = new \/ k = new
      <4>1. \A i \in DOMAIN signals :
              signals'[i].consumed => i # new /\ NameAt(i)' # NameAt(new)'
        BY <1>4, <1>5, <1>9
      <4>2. j \in DOMAIN signals \/ j = new
        BY <1>4, <2>1
      <4>3. k \in DOMAIN signals \/ k = new
        BY <1>4, <2>1
      <4> QED BY <2>1, <3>1, <4>1, <4>2, <4>3
    <3>2. CASE j # new /\ k # new
      <4>1. /\ j \in DOMAIN signals /\ signals'[j] = signals[j]
            /\ k \in DOMAIN signals /\ signals'[k] = signals[k]
        BY <1>4, <3>2
      <4>2. signals[j].consumed /\ signals[k].consumed /\ NameAt(j) = NameAt(k)
        BY <1>5, <2>1, <4>1
      <4> QED BY <4>1, <4>2 DEF ConsumedInv
    <3> QED BY <3>1, <3>2
  <2>2. ASSUME NEW k \in DOMAIN signals', signals'[k].consumed
        PROVE  \E v \in WaitSteps : Steps[v].name = NameAt(k)'
    <3>1. CASE k = new
      BY <1>5, <1>6, <3>1
    <3>2. CASE k # new
      <4>1. k \in DOMAIN signals /\ signals'[k] = signals[k]
        BY <1>4, <3>2
      <4>2. signals[k].consumed /\ NameAt(k)' = NameAt(k)
        BY <1>5, <2>2, <4>1
      <4> QED BY <4>1, <4>2 DEF ConsumedInv
    <3> QED BY <3>1, <3>2
  <2> QED BY <2>1, <2>2 DEF ConsumedInv
<1>11. \A v \in WaitSteps : Taken(v)' => Taken(v) \/ v = w
  <2> SUFFICES ASSUME NEW v \in WaitSteps, Taken(v)' PROVE Taken(v) \/ v = w
    OBVIOUS
  <2>1. PICK k \in DOMAIN signals' :
          signals'[k].consumed /\ NameAt(k)' = Steps[v].name
    BY DEF Taken
  <2>2. CASE k = new
    BY <1>5, <1>6, <2>1, <2>2, WaitsAreDistinct DEF DistinctWaits
  <2>3. CASE k # new
    BY <1>4, <1>5, <2>1, <2>3 DEF Taken
  <2> QED BY <2>2, <2>3
<1>12. AheadInv'
  <2> SUFFICES ASSUME NEW v \in WaitSteps, Taken(v)' PROVE v < w + 1
    BY <1>7 DEF AheadInv
  <2>1. Taken(v) => v < w
    BY <1>1 DEF AheadInv, Parked
  <2> QED BY <1>6, <1>11, <2>1 DEF WaitSteps, StepIds
<1>13. CopyInv'
  <2> SUFFICES ASSUME NEW d \in Clients, HoldsWait(d)'
               PROVE  \E k \in DOMAIN signals' :
                        /\ signals'[k].consumed
                        /\ NameAt(k)' = Steps[loaded'[d].current_step_id].name
    BY DEF CopyInv, Taken, NameAt
  <2>1. HoldsWait(d) /\ loaded'[d] = loaded[d]
    BY <1>3 DEF HoldsWait, IInv, TypeOK
  <2>2. Taken(loaded[d].current_step_id) \/ loaded[d].current_step_id = w
    BY <1>1, <2>1 DEF CopyInv, Parked
  <2>3. CASE loaded[d].current_step_id = w
    <3>1. new \in DOMAIN signals' /\ signals'[new].consumed
      BY <1>4
    <3>2. NameAt(new)' = Steps[w].name
      BY <1>5, <1>6
    <3> QED BY <2>1, <2>3, <3>1, <3>2
  <2>4. CASE Taken(loaded[d].current_step_id)
    <3>1. PICK k \in DOMAIN signals :
            signals[k].consumed /\ NameAt(k) = Steps[loaded[d].current_step_id].name
      BY <2>4 DEF Taken
    <3>2. k \in DOMAIN signals' /\ signals'[k] = signals[k] /\ NameAt(k)' = NameAt(k)
      BY <1>4, <1>5
    <3> QED BY <2>1, <3>1, <3>2
  <2> QED BY <2>2, <2>3, <2>4
<1> QED BY <1>8, <1>10, <1>12, <1>13

--------------------------------------------------------------------------------
\* Nobody's turn is disputed at first.
LEMMA InitTurns == Init => TurnInv
<1> SUFFICES ASSUME Init PROVE TurnInv
  OBVIOUS
<1> USE ProcessFacts DEF Init
<1>1. \A p \in Executors : Live(p) <=> p = Main
  <2>1. \A p \in Executors : p = Main \/ p \in Clients
    BY DEF Executors
  <2> QED BY <2>1, LabelFacts, ProcessAssumption DEF Live, SubmitLabels, ExecutorLabels
<1>2. DOMAIN signals = {} /\ run.status = "pending" /\ up
  BY DEF CreatedRow
<1>3. OneTurn /\ ParkedInv /\ DownInv /\ AheadInv /\ ConsumedInv
  BY <1>1, <1>2 DEF OneTurn, ParkedInv, DownInv, AheadInv, ConsumedInv, Taken
<1>4. FoundInv /\ CopyInv
  <2>1. \A p \in Executors : pc[p] \in {"start", "idle"} /\ loaded[p] = None
    BY DEF Executors
  <2> QED BY <2>1 DEF FoundInv, CopyInv, HoldsWait
<1> QED BY <1>3, <1>4 DEF TurnInv

\* The order of turns is inductive.
LEMMA NextTurns ==
  Unambiguous /\ IInv /\ TurnInv /\ [Next]_vars => TurnInv'
<1> SUFFICES ASSUME Unambiguous, IInv, TurnInv, [Next]_vars PROVE TurnInv'
  OBVIOUS
<1>1. IInv'
  BY NextIInv
<1>2. TurnStep
  BY EveryTurnStep DEF TurnInv
<1> QED
  BY <1>1, <1>2, PlainKeepsTurns, ConsumesKeepsTurns, DeliversKeepsTurns,
     StoresKeepsTurns DEF TurnStep

\* In every execution turns are taken one after the other.
THEOREM TurnInvariant ==
  ASSUME Unambiguous
  PROVE  Spec => [](IInv /\ TurnInv)
<1>1. Init => IInv /\ TurnInv
  BY InitIInv, InitTurns
<1>2. IInv /\ TurnInv /\ [Next]_vars => IInv' /\ TurnInv'
  BY NextIInv, NextTurns
<1> QED BY <1>1, <1>2, PTL DEF Spec

\* At most one executor works for a run (AtMostOneExecutor), whatever operators,
\* crashes, dropped executors and other submissions come in between, unless a late
\* delivery can be taken for one of another wait.
THEOREM OneExecutor ==
  ASSUME Unambiguous
  PROVE  Spec => []AtMostOneExecutor
<1>1. TurnInv => AtMostOneExecutor
  BY DEF TurnInv, OneTurn, Live, AtMostOneExecutor
<1> QED BY <1>1, TurnInvariant, PTL

\* No wait step consumes two signals (NoDoubleConsume), under the same condition.
THEOREM ConsumedOnce ==
  ASSUME Unambiguous
  PROVE  Spec => []NoDoubleConsume
<1>1. TurnInv => NoDoubleConsume
  <2> SUFFICES ASSUME ConsumedInv, NEW n \in Names
               PROVE  Cardinality({k \in DOMAIN signals : signals[k].consumed /\ NameAt(k) = n})
                        <= Cardinality({i \in StepIds : /\ Steps[i].kind = "wait"
                                                        /\ Steps[i].name = n})
    BY DEF TurnInv, NoDoubleConsume, NameAt
  <2> DEFINE taken == {k \in DOMAIN signals : signals[k].consumed /\ NameAt(k) = n}
             waits == {i \in StepIds : Steps[i].kind = "wait" /\ Steps[i].name = n}
  <2>1. IsFiniteSet(waits) /\ Cardinality(waits) \in Nat
    <3>1. IsFiniteSet(StepIds)
      BY ProcessFacts, FS_Interval DEF StepIds
    <3> QED BY <3>1, FS_Subset, FS_CardinalityType
  <2>2. CASE taken = {}
    <3>1. Cardinality(taken) = 0
      BY <2>2, FS_EmptySet
    <3> QED BY <2>1, <3>1
  <2>3. ASSUME NEW k \in taken PROVE Cardinality(taken) <= Cardinality(waits)
    <3>1. taken = {k}
      BY <2>3 DEF ConsumedInv
    <3>2. Cardinality(taken) = 1
      BY <3>1, FS_Singleton
    <3>3. waits # {}
      BY <2>3 DEF ConsumedInv, WaitSteps
    <3>4. Cardinality(waits) # 0
      BY <2>1, <3>3, FS_EmptySet
    <3> QED BY <2>1, <3>2, <3>4
  <2> QED BY <2>2, <2>3
<1> QED BY <1>1, TurnInvariant, PTL

\* A parked run goes on by a signal of the name it waits for when the signal is
\* committed (ResumedByAwaitedSignal), and by nothing else.
THEOREM AwaitedSignalResumes ==
  ASSUME Unambiguous
  PROVE  Spec => ResumedByAwaitedSignal
<1> DEFINE A == run.status = "waiting_signal" /\ run'.status = "running"
                  => /\ Len(signals') > Len(signals)
                     /\ NameOf[signals'[Len(signals')].client] = run.waiting_ref
<1>1. IInv /\ TurnInv /\ [Next]_vars => [A]_run
  <2> SUFFICES ASSUME IInv, TurnInv, [Next]_vars,
                      run.status = "waiting_signal", run'.status = "running"
               PROVE  /\ Len(signals') > Len(signals)
                      /\ NameOf[signals'[Len(signals')].client] = run.waiting_ref
    OBVIOUS
  <2>1. \A p \in Executors : ~Live(p)
    BY DEF TurnInv, ParkedInv
  <2>2. ~Plain /\ \A p \in Executors : ~Consumes(p)
    BY <2>1, LabelFacts DEF Plain, Consumes, Live
  <2>3. PICK c \in Clients : Delivers(c)
    BY <2>2, EveryTurnStep DEF TurnInv, TurnStep, Stores
  <2> DEFINE w == loaded[c].current_step_id
  <2>4. Parked(w)
    BY <2>3, DeliversWhereParked
  <2>5. run.waiting_ref = Steps[w].name /\ NameOf[c] = Steps[w].name
    BY <2>3, <2>4
       DEF Parked, Delivers, HoldsWait, IInv, RowConsistent, Consistent
  <2>6. /\ Len(signals') = Len(signals) + 1 /\ Len(signals) \in Nat
        /\ signals'[Len(signals')] = [client |-> c, consumed |-> TRUE]
    BY <2>3, StoredFacts DEF Delivers, IInv, TypeOK
  <2>7. \A r : r = [client |-> c, consumed |-> TRUE] => r.client = c
    OBVIOUS
  <2>8. signals'[Len(signals')].client = c
    BY <2>6, <2>7
  <2> QED BY <2>5, <2>6, <2>8
<1> QED BY <1>1, TurnInvariant, PTL DEF Spec, ResumedByAwaitedSignal

--------------------------------------------------------------------------------
(***************************************************************************)
(* What the executor whose turn it is does to the run and to the saved     *)
(* outputs.                                                                *)
(***************************************************************************)
\* It loads the row, or works without touching it.
Thinks(p) == run' = run /\ Live(p)' /\ loaded'[p] \in {None, run}

\* It commits: the outputs in the row are those of its copy, or all that it knows.
Writes(p) ==
  /\ loaded[p] # None /\ Matches(p) /\ loaded'[p] = None
  /\ run'.status = "running" => Live(p)'
  /\ run'.vars_json \in {loaded[p].vars_json, mem[p]}

\* It ends, because the run is not running, is already started, or moved meanwhile.
GivesUp(p) ==
  /\ run' = run /\ ~Live(p)' /\ loaded'[p] = None
  /\ \/ run.status # "running"
     \/ pc[p] = "start" /\ loaded[p] = None
     \/ loaded[p] # None /\ ~Matches(p)

ExecutorStep(p) ==
  /\ Live(p) /\ up /\ up' /\ drops' = drops
  /\ pc'[p] = "start" => pc[p] = "start" /\ run' = run
  /\ \A q \in Procs \ {p} : pc'[q] = pc[q] /\ loaded'[q] = loaded[q]
  /\ \A q \in Executors \ {p} : mem'[q] = mem[q]
  /\ mem[p] \subseteq mem'[p]
  /\ Thinks(p) \/ Writes(p) \/ GivesUp(p)

\* A process that loads the row, or gives up because its guard refuses.
LEMMA LoadTakesStep ==
  ASSUME IInv, NEW p \in Executors, NEW t \in ExecutorLabels, NEW guard,
         NEW otherwise \in {"done", "fail"}, Load(p, t, guard, otherwise),
         run.status = "running" /\ t # "start" => guard
  PROVE  ExecutorStep(p)
<1> USE ProcessFacts, LabelFacts DEF Load, Goto, store, local, env
<1>1. Live(p) /\ run' = run
  BY DEF Live
<1>2. CASE pc' = pc /\ loaded' = [loaded EXCEPT ![p] = run]
  <2>1. Thinks(p)
    BY <1>1, <1>2 DEF Thinks, Live, IInv, TypeOK
  <2> QED BY <1>1, <1>2, <2>1 DEF ExecutorStep, IInv, TypeOK
<1>3. CASE ~guard /\ pc' = [pc EXCEPT ![p] = otherwise] /\ loaded' = loaded
  <2>1. pc'[p] = otherwise
    BY <1>3 DEF IInv, TypeOK
  <2>2. Thinks(p) \/ GivesUp(p)
    BY <1>1, <1>3, <2>1 DEF Thinks, GivesUp, Live
  <2> QED BY <1>1, <1>3, <2>1, <2>2 DEF ExecutorStep, IInv, TypeOK
<1> QED BY <1>2, <1>3

\* A process that commits, or gives up because the status moved.
LEMMA CommitTakesStep ==
  ASSUME IInv, NEW p \in Executors, NEW t \in ExecutorLabels, NEW row,
         NEW next, next # "start", NEW otherwise \in {"done", "fail"},
         Commit(p, t, row, next, otherwise),
         row.status = "running" => next \in ExecutorLabels,
         row.vars_json \in {loaded[p].vars_json, mem[p]},
         mem' = mem \/ Remember(p)
  PROVE  ExecutorStep(p)
<1> USE ProcessFacts, LabelFacts DEF Commit, Commits, Goto, env
<1>1. /\ Live(p) /\ loaded'[p] = None
      /\ \A q \in Procs \ {p} : loaded'[q] = loaded[q]
  BY DEF Live, IInv, TypeOK
<1>2. mem[p] \subseteq mem'[p] /\ \A q \in Executors \ {p} : mem'[q] = mem[q]
  BY DEF Remember, IInv, TypeOK
<1>3. CASE Matches(p) /\ run' = row /\ pc' = [pc EXCEPT ![p] = next]
  <2>1. pc'[p] = next /\ \A q \in Procs \ {p} : pc'[q] = pc[q]
    BY <1>3 DEF IInv, TypeOK
  <2>2. Writes(p)
    BY <1>1, <1>3, <2>1 DEF Writes, Live
  <2> QED BY <1>1, <1>2, <2>1, <2>2 DEF ExecutorStep
<1>4. CASE ~Matches(p) /\ run' = run /\ pc' = [pc EXCEPT ![p] = otherwise]
  <2>1. pc'[p] = otherwise /\ \A q \in Procs \ {p} : pc'[q] = pc[q]
    BY <1>4 DEF IInv, TypeOK
  <2>2. Thinks(p) \/ GivesUp(p)
    BY <1>1, <1>4, <2>1 DEF Thinks, GivesUp, Live
  <2> QED BY <1>1, <1>2, <2>1, <2>2 DEF ExecutorStep
<1> QED BY <1>3, <1>4

\* The guards of the transitions of a running run hold while it runs.
LEMMA RunningGuards ==
  ASSUME IInv, run.status = "running"
  PROVE  CanRecordStep(run) /\ IsInterruptible(run) /\ CanPark(run)
BY NoneAssumption
   DEF IInv, TypeOK, RunRow, Row, RowConsistent, Consistent, CanRecordStep, IsInterruptible,
       CanPark, NoActiveHitl, WaitingModeAvailable

\* The outputs in the rows that transitions write.
LEMMA RowOutputs ==
  ASSUME IInv, NEW p \in Executors, NEW t, Commits(p, t), NEW i, NEW v, NEW d
  PROVE  LET r == loaded[p] IN
         /\ RunStarted(r, i).vars_json = r.vars_json
         /\ StepStarted(r, i, d).vars_json = r.vars_json
         /\ StepCompleted(r, i, v).vars_json = v
         /\ StepSkipped(r, i).vars_json = r.vars_json
         /\ StepFailed(r, i).vars_json = r.vars_json
         /\ RunFailed(r, i).vars_json = r.vars_json
         /\ RunCompleted(r).vars_json = r.vars_json
<1>1. loaded[p] \in RunRow
  BY CopyFits, ProcessFacts DEF Fits
<1> QED
  BY <1>1 DEF RunRow, Row, RunStarted, StepStarted, StepCompleted, StepSkipped, StepFailed,
              RunFailed, RunCompleted, Detached

\* What the executor does step by step.
LEMMA ExecuteTakesStep ==
  ASSUME IInv, TurnInv, NEW p \in Executors, Execute(p)
  PROVE  ExecutorStep(p)
<1> USE LabelFacts
<1>1. ASSUME RecordRunStarted(p) PROVE ExecutorStep(p)
  <2>1. CASE Load(p, "start", run.status = "pending", "done")
    BY <2>1, LoadTakesStep
  <2> DEFINE row == RunStarted(loaded[p], 1)
  <2>2. CASE Commit(p, "start", row, "begin", "done") /\ UNCHANGED local
    <3>1. row.vars_json = loaded[p].vars_json
      BY <2>2, RowOutputs DEF Commit
    <3> HIDE DEF row
    <3> QED BY <2>2, <3>1, CommitTakesStep DEF local
  <2> QED BY <1>1, <2>1, <2>2 DEF RecordRunStarted
<1>2. ASSUME RecordStepStarted(p) PROVE ExecutorStep(p)
  <2> DEFINE d == IF StepAt(p).kind = "agent" THEN p ELSE None
             row == StepStarted(loaded[p], at[p], d)
             next == Work(p)
             otherwise == StartRefused(p)
  <2>0. otherwise \in {"done", "fail"}
    BY DEF StartRefused
  <2>1. CASE Load(p, "begin", CanRecordStep(run), otherwise)
    BY <2>0, <2>1, LoadTakesStep, RunningGuards
  <2>2. CASE /\ Commit(p, "begin", row, next, otherwise)
             /\ IF StepAt(p).kind = "noop" THEN Remember(p) ELSE UNCHANGED mem
    <3>1. row.vars_json = loaded[p].vars_json
      BY <2>2, RowOutputs DEF Commit
    <3>2. at[p] \in StepIds
      BY <2>2 DEF Commit, Commits, IInv, PlaceInv
    <3>3. next \in {"agent", "complete", "find"}
      BY <3>2, StepsAreSteps DEF Work, StepAt, Step
    <3> HIDE DEF row, next, otherwise
    <3> QED BY <2>0, <2>2, <3>1, <3>3, CommitTakesStep
  <2> QED BY <1>2, <2>1, <2>2 DEF RecordStepStarted
<1>3. ASSUME RecordStepCompleted(p) PROVE ExecutorStep(p)
  <2> DEFINE row == StepCompleted(loaded[p], at[p], mem[p])
             next == Enter(at[p] + 1)
  <2>1. CASE Load(p, "complete", CanRecordStep(run), "done")
    BY <2>1, LoadTakesStep, RunningGuards
  <2>2. CASE Commit(p, "complete", row, next, "done") /\ UNCHANGED <<mem, found>>
    <3>1. row.vars_json = mem[p] /\ next \in {"begin", "finish"}
      BY <2>2, RowOutputs, EnterLabels DEF Commit
    <3> HIDE DEF row, next
    <3> QED BY <2>2, <3>1, CommitTakesStep
  <2> QED BY <1>3, <2>1, <2>2 DEF RecordStepCompleted
<1>4. ASSUME RecordStepSkipped(p) PROVE ExecutorStep(p)
  <2> DEFINE row == StepSkipped(loaded[p], at[p])
             next == Enter(at[p] + 1)
  <2>1. CASE Load(p, "skip", CanRecordStep(run), "done")
    BY <2>1, LoadTakesStep, RunningGuards
  <2>2. CASE Commit(p, "skip", row, next, "done") /\ UNCHANGED <<mem, found>>
    <3>1. row.vars_json = loaded[p].vars_json /\ next \in {"begin", "finish"}
      BY <2>2, RowOutputs, EnterLabels DEF Commit
    <3> HIDE DEF row, next
    <3> QED BY <2>2, <3>1, CommitTakesStep
  <2> QED BY <1>4, <2>1, <2>2 DEF RecordStepSkipped
<1>5. ASSUME RecordStepFailed(p) PROVE ExecutorStep(p)
  <2> DEFINE row == StepFailed(loaded[p], at[p])
  <2>1. CASE Load(p, "fail", CanRecordStep(run), "done")
    BY <2>1, LoadTakesStep, RunningGuards
  <2>2. CASE Commit(p, "fail", row, "failRun", "done") /\ UNCHANGED local
    <3>1. row.vars_json = loaded[p].vars_json
      BY <2>2, RowOutputs DEF Commit
    <3> HIDE DEF row
    <3> QED BY <2>2, <3>1, CommitTakesStep DEF local
  <2> QED BY <1>5, <2>1, <2>2 DEF RecordStepFailed
<1>6. ASSUME RecordRunFailed(p) PROVE ExecutorStep(p)
  <2> DEFINE row == RunFailed(loaded[p], at[p])
  <2>1. CASE Load(p, "failRun", IsInterruptible(run), "done")
    BY <2>1, LoadTakesStep, RunningGuards
  <2>2. CASE Commit(p, "failRun", row, "done", "done") /\ UNCHANGED local
    <3>1. row.vars_json = loaded[p].vars_json /\ row.status # "running"
      BY <2>2, RowOutputs, RowStatuses DEF Commit
    <3> HIDE DEF row
    <3> QED BY <2>2, <3>1, CommitTakesStep DEF local
  <2> QED BY <1>6, <2>1, <2>2 DEF RecordRunFailed
<1>7. ASSUME RecordRunCompleted(p) PROVE ExecutorStep(p)
  <2> DEFINE row == RunCompleted(loaded[p])
  <2>1. CASE Load(p, "finish", CanRecordStep(run), "done")
    BY <2>1, LoadTakesStep, RunningGuards
  <2>2. CASE Commit(p, "finish", row, "done", "done") /\ UNCHANGED local
    <3>1. row.vars_json = loaded[p].vars_json /\ row.status # "running"
      BY <2>2, RowOutputs, RowStatuses DEF Commit
    <3> HIDE DEF row
    <3> QED BY <2>2, <3>1, CommitTakesStep DEF local
  <2> QED BY <1>7, <2>1, <2>2 DEF RecordRunCompleted
<1>8. ASSUME RecordWaitingForSignal(p) PROVE ExecutorStep(p)
  <2> DEFINE row == WaitingForSignal(loaded[p], at[p], StepAt(p).name)
  <2>1. CASE Load(p, "park", CanPark(run), "done")
    BY <2>1, LoadTakesStep, RunningGuards
  <2>2. CASE Commit(p, "park", row, "done", "done") /\ UNCHANGED local
    <3>1. row.vars_json = loaded[p].vars_json /\ row.status # "running"
      BY <2>2, CopyFits, ProcessFacts
         DEF Commit, Fits, RunRow, Row, WaitingForSignal
    <3> HIDE DEF row
    <3> QED BY <2>2, <3>1, CommitTakesStep DEF local
  <2> QED BY <1>8, <2>1, <2>2 DEF RecordWaitingForSignal
<1>9. ASSUME AgentReturns(p) \/ FindUnconsumed(p) PROVE ExecutorStep(p)
  <2> USE ProcessFacts DEF store, env, Goto
  <2>1. /\ up /\ up' = up /\ UNCHANGED <<run, loaded, drops>>
        /\ \E t \in {"complete", "skip", "fail", "park", "consume"} : pc' = [pc EXCEPT ![p] = t]
        /\ mem' = mem \/ Remember(p)
        /\ Live(p) /\ loaded[p] = None
    BY <1>9 DEF AgentReturns, FindUnconsumed, Live, IInv, CopiesInv, GuardAt
  <2>2. Live(p)' /\ pc'[p] # "start" /\ \A q \in Procs \ {p} : pc'[q] = pc[q]
    BY <2>1 DEF Live, IInv, TypeOK
  <2>3. mem[p] \subseteq mem'[p] /\ \A q \in Executors \ {p} : mem'[q] = mem[q]
    BY <2>1 DEF Remember, IInv, TypeOK
  <2> QED BY <2>1, <2>2, <2>3 DEF ExecutorStep, Thinks
<1>10. ASSUME RecordSignalConsumed(p) PROVE ExecutorStep(p)
  <2>1. CASE Load(p, "consume", IsInterruptible(run), "done")
    BY <2>1, LoadTakesStep, RunningGuards
  <2> DEFINE row == SignalConsumed(loaded[p], Following(at[p]))
             next == Enter(at[p] + 1)
  <2>2. ASSUME Commits(p, "consume"), Matches(p), run' = row, Goto(p, next), UNCHANGED env,
               UNCHANGED mem
        PROVE  ExecutorStep(p)
    <3> USE <2>2, ProcessFacts DEF Commits, Goto, env
    <3>1. row.vars_json = loaded[p].vars_json
      BY CopyFits DEF Fits, RunRow, Row, SignalConsumed, Detached
    <3>2. next \in {"begin", "finish"}
      BY EnterLabels
    <3> HIDE DEF row, next
    <3>3. /\ pc'[p] = next /\ loaded'[p] = None /\ Live(p)
          /\ \A q \in Procs \ {p} : pc'[q] = pc[q] /\ loaded'[q] = loaded[q]
      BY DEF Live, IInv, TypeOK
    <3>4. Writes(p)
      BY <3>1, <3>2, <3>3 DEF Writes, Live
    <3> QED BY <3>2, <3>3, <3>4 DEF ExecutorStep
  <2>3. ASSUME Commits(p, "consume"), ~(Matches(p) /\ ~signals[found[p]].consumed),
               Goto(p, "done"), UNCHANGED <<store, at>>, UNCHANGED <<env, mem, found, resumed>>
        PROVE  ExecutorStep(p)
    <3> USE <2>3, ProcessFacts DEF Commits, Goto, env, store
    <3>1. ~Matches(p)
      BY DEF TurnInv, FoundInv, FoundAt
    <3>2. /\ pc'[p] = "done" /\ loaded'[p] = None /\ Live(p)
          /\ \A q \in Procs \ {p} : pc'[q] = pc[q] /\ loaded'[q] = loaded[q]
      BY DEF Live, IInv, TypeOK
    <3> QED BY <3>1, <3>2 DEF ExecutorStep, GivesUp, Live
  <2> QED BY <1>10, <2>1, <2>2, <2>3 DEF RecordSignalConsumed
<1> QED BY <1>1, <1>2, <1>3, <1>4, <1>5, <1>6, <1>7, <1>8, <1>9, <1>10 DEF Execute

(***************************************************************************)
(* What everybody else does to them.                                       *)
(***************************************************************************)
NoResume == \A k \in Controllers : ActionOf[k] # "resume"

\* An operator's request is what it was made for, or done.
RequestsInv == \A k \in Controllers : pc[k] \in {ActionOf[k], "done"}

\* No executor is started or moved; one is lost only with the daemon or on record.
Bystands ==
  /\ drops' = 0 => drops = 0
  /\ mem' = mem
  /\ \A q \in Executors : Live(q)' => pc'[q] = pc[q] /\ loaded'[q] = loaded[q]
  /\ \/ run' = run /\ ~up'
     \/ /\ run' = run /\ (up \/ run.status # "running")
        /\ drops' = 0 => \A q \in Executors : Live(q) => Live(q)'
     \/ /\ run'.status \notin {"running", "waiting_signal"}
        /\ Controllers = {} => /\ run'.vars_json = run.vars_json
                               /\ \A q \in Executors : ~Live(q)

\* A submission that does not deliver.
LEMMA SubmitBystands ==
  ASSUME IInv, NEW c \in Clients, Submit(c)
  PROVE  Bystands \/ Delivers(c)
<1> USE ProcessFacts, LabelFacts DEF store, local, env, Goto, Commits
<1>1. ASSUME NEW t, pc[c] \in SubmitLabels, pc' = [pc EXCEPT ![c] = t], t \notin ExecutorLabels,
             UNCHANGED <<run, mem, up, drops>>,
             \A q \in Procs \ {c} : loaded'[q] = loaded[q]
      PROVE  Bystands
  <2>1. ~Live(c) /\ ~Live(c)' /\ \A q \in Executors \ {c} : pc'[q] = pc[q]
    BY <1>1 DEF Live, IInv, TypeOK
  <2> QED BY <1>1, <2>1 DEF Bystands, Live
<1>2. \A t \in {"lookup", "deliver", "done", "store"} : t \notin ExecutorLabels
  BY DEF SubmitLabels
<1>3. ASSUME SubmitLoad(c) PROVE Bystands
  BY <1>1, <1>2, <1>3 DEF SubmitLoad, IInv, TypeOK, SubmitLabels
<1>4. ASSUME SubmitLookup(c) PROVE Bystands
  <2>1. /\ \E t \in {"deliver", "done", "store"} : pc' = [pc EXCEPT ![c] = t]
        /\ \A q \in Procs \ {c} : loaded'[q] = loaded[q]
        /\ UNCHANGED <<run, mem, up, drops>> /\ pc[c] \in SubmitLabels
    BY <1>4 DEF SubmitLookup, IInv, TypeOK, SubmitLabels
  <2> QED BY <1>1, <1>2, <2>1
<1>5. ASSUME PersistSubmission(c) PROVE Bystands
  <2>1. /\ pc' = [pc EXCEPT ![c] = "done"] /\ UNCHANGED <<run, mem, up, drops, loaded>>
        /\ pc[c] \in SubmitLabels
    BY <1>5 DEF PersistSubmission, SubmitLabels
  <2> QED BY <1>1, <1>2, <2>1
<1>6. ASSUME PersistSubmissionAndResume(c), ~Delivers(c) PROVE Bystands
  <2>1. ~Plain => FALSE
    BY <1>6, SubmitStep DEF Submit, Stores, PersistSubmissionAndResume
  <2>2. \A p \in Executors : Live(p)' => Live(p)
    BY <2>1 DEF Plain
  <2>3. /\ pc[c] = "deliver" /\ \A q \in Procs \ {c} : loaded'[q] = loaded[q]
        /\ UNCHANGED <<up, drops>>
    BY <1>6 DEF PersistSubmissionAndResume, IInv, TypeOK
  <2>4. \/ /\ UNCHANGED <<run, mem>>
           /\ \E t \in {"done", "store"} : pc' = [pc EXCEPT ![c] = t]
        \/ \E t \in {"begin", "finish"} : pc' = [pc EXCEPT ![c] = t]
    BY <1>6, EnterLabels DEF PersistSubmissionAndResume
  <2>5. ASSUME NEW t \in {"begin", "finish"}, pc' = [pc EXCEPT ![c] = t] PROVE FALSE
    BY <2>2, <2>3, <2>5 DEF Live, SubmitLabels, IInv, TypeOK
  <2> QED BY <1>1, <1>2, <2>3, <2>4, <2>5 DEF SubmitLabels
<1> QED BY <1>3, <1>4, <1>5, <1>6 DEF Submit

\* An operator's request, other than a resume.
LEMMA ControlBystands ==
  ASSUME IInv, RequestsInv, NoResume, NEW k \in Controllers, Control(k)
  PROVE  Bystands
<1> USE ProcessFacts DEF Load, Commit, Commits, Goto, store, local, env
<1>1. loaded[k] # None => loaded[k] \in RunRow
  BY DEF IInv, TypeOK
<1>2. run' = run \/ run'.status \in {"paused", "cancelled"}
  <2>1. ASSUME RecordRunPaused(k), run' # run PROVE run'.status = "paused"
    BY <1>1, <2>1 DEF RecordRunPaused, RunPaused, Detached, RunRow, Row
  <2>2. ~RecordRunResumed(k)
    BY DEF RecordRunResumed, RequestsInv, NoResume
  <2>3. ASSUME RecordRunCancelled(k), run' # run PROVE run'.status = "cancelled"
    BY <1>1, <2>3 DEF RecordRunCancelled, RunCancelled, RunRow, Row
  <2> QED BY <2>1, <2>2, <2>3 DEF Control
<1>3. /\ \A q \in Executors : pc'[q] = pc[q] /\ loaded'[q] = loaded[q]
      /\ UNCHANGED <<mem, up, drops>>
  <2>1. /\ UNCHANGED <<mem, up, drops>>
        /\ \E t : pc' = [pc EXCEPT ![k] = t] \/ pc' = pc
        /\ \E r : loaded' = [loaded EXCEPT ![k] = r] \/ loaded' = loaded
    BY DEF Control, RecordRunPaused, RecordRunResumed, RecordRunCancelled
  <2> QED BY <2>1 DEF IInv, TypeOK
<1> QED BY <1>2, <1>3 DEF Bystands, Live

\* The loss of the executor, a crash, recovery.
LEMMA DaemonBystands ==
  ASSUME IInv, TurnInv, DropExecutor \/ Crash \/ Recover \/ UNCHANGED vars
  PROVE  Bystands
<1> USE ProcessFacts, LabelFacts DEF store, local, Goto
<1>1. CASE DropExecutor
  <2> USE <1>1 DEF DropExecutor
  <2>1. drops' # 0
    BY DEF IInv, TypeOK
  <2>2. ~Live(Main)' /\ \A q \in Executors \ {Main} : pc'[q] = pc[q] /\ loaded'[q] = loaded[q]
    BY DEF Live, IInv, TypeOK
  <2> QED BY <2>1, <2>2 DEF Bystands
<1>2. CASE Crash
  <2> USE <1>2 DEF Crash
  <2>1. \A q \in Executors : pc'[q] \in {"idle", "done"}
    BY DEF Untouched
  <2>2. \A q \in Executors : ~Live(q)'
    BY <2>1 DEF Live, ExecutorLabels
  <2> QED BY <2>2 DEF Bystands
<1>3. CASE Recover
  <2> USE <1>3 DEF Recover
  <2>1. \A q \in Executors : ~Live(q) /\ ~Live(q)'
    BY DEF TurnInv, DownInv, Live
  <2>2. \/ run' = run /\ run.status # "running"
        \/ run'.status = "paused" /\ run'.vars_json = run.vars_json
    BY DEF RunRecovered, IInv, TypeOK, RunRow, Row
  <2>3. CASE run' = run /\ run.status # "running"
    BY <2>1, <2>3 DEF Bystands
  <2> QED BY <2>1, <2>2, <2>3 DEF Bystands
<1>4. CASE UNCHANGED vars
  BY <1>4 DEF vars, Bystands, Live
<1> QED BY <1>1, <1>2, <1>3, <1>4

--------------------------------------------------------------------------------
(***************************************************************************)
(* A running run has an executor, as long as no operator resumes it and no *)
(* executor is dropped.                                                    *)
(***************************************************************************)
\* The executor's copy does not keep it from recording what it did.
CopyRuns ==
  \A p \in Executors :
    Live(p) /\ loaded[p] # None /\ run.status = "running" => loaded[p].status = "running"

StartsFirst ==
  \A p \in Executors : pc[p] = "start" => run.status \notin {"running", "waiting_signal"}

StandInv == drops = 0 => NoStrandedRun /\ CopyRuns /\ StartsFirst

\* The executor's own steps: it works on, or the run is not running any more.
LEMMA ExecutorStands ==
  ASSUME IInv, TurnInv, StandInv, NEW p \in Executors, ExecutorStep(p)
  PROVE  StandInv'
<1> SUFFICES ASSUME drops' = 0 PROVE NoStrandedRun' /\ CopyRuns' /\ StartsFirst'
  BY DEF StandInv
<1> USE ProcessFacts, LabelFacts DEF ExecutorStep
<1>1. NoStrandedRun /\ CopyRuns /\ StartsFirst /\ Live(p) /\ up /\ up'
  BY DEF StandInv
<1>2. \A q \in Executors : Live(q)' /\ q # p => FALSE
  <2>1. \A q \in Executors : Live(q) => q = p
    BY <1>1 DEF TurnInv, OneTurn
  <2> QED BY <2>1 DEF Live
<1>3. StartsFirst'
  <2>1. \A q \in Executors : pc'[q] = "start" => q = p
    BY <1>2 DEF Live
  <2> QED BY <1>1, <2>1 DEF StartsFirst
<1>4. CASE Thinks(p)
  BY <1>1, <1>2, <1>3, <1>4 DEF Thinks, NoStrandedRun, CopyRuns, Live
<1>5. CASE Writes(p)
  BY <1>1, <1>2, <1>3, <1>5 DEF Writes, NoStrandedRun, CopyRuns, Live
<1>6. CASE GivesUp(p)
  <2>1. run'.status # "running"
    BY <1>1, <1>6 DEF GivesUp, CopyRuns, StartsFirst, Matches
  <2> QED BY <1>2, <1>3, <2>1 DEF NoStrandedRun, CopyRuns
<1> QED BY <1>4, <1>5, <1>6

\* A delivery: the submission works on.
LEMMA DeliveryStands ==
  ASSUME IInv, TurnInv, Unambiguous, NEW c \in Clients, Delivers(c)
  PROVE  StandInv'
<1> USE ProcessFacts, LabelFacts DEF Delivers
<1>1. \A q \in Executors : ~Live(q)
  BY DEF TurnInv, ParkedInv
<1>2. PICK t \in {"begin", "finish"} : pc' = [pc EXCEPT ![c] = t]
  OBVIOUS
<1>3. pc'[c] = t /\ loaded'[c] = None /\ \A q \in Executors \ {c} : pc'[q] = pc[q]
  BY <1>2 DEF IInv, TypeOK
<1>4. Live(c)' /\ \A q \in Executors : Live(q)' => q = c
  BY <1>1, <1>3 DEF Live
<1>5. NoStrandedRun' /\ CopyRuns' /\ StartsFirst'
  BY <1>3, <1>4 DEF NoStrandedRun, CopyRuns, StartsFirst, Live
<1> QED BY <1>5 DEF StandInv

\* Everybody else.
LEMMA BystanderStands ==
  ASSUME IInv, StandInv, Bystands
  PROVE  StandInv'
<1> SUFFICES ASSUME drops' = 0 PROVE NoStrandedRun' /\ CopyRuns' /\ StartsFirst'
  BY DEF StandInv
<1> USE DEF Bystands
<1>1. NoStrandedRun /\ CopyRuns /\ StartsFirst
  BY DEF StandInv
<1>2. \A q \in Executors : pc'[q] = "start" => Live(q)'
  BY LabelFacts DEF Live
<1>3. CASE run'.status \notin {"running", "waiting_signal"}
  BY <1>3 DEF NoStrandedRun, CopyRuns, StartsFirst
<1>4. CASE run' = run /\ ~up'
  BY <1>1, <1>2, <1>4 DEF NoStrandedRun, CopyRuns, StartsFirst, Live
<1>5. CASE /\ run' = run /\ (up \/ run.status # "running")
           /\ \A q \in Executors : Live(q) => Live(q)'
  BY <1>1, <1>2, <1>5 DEF NoStrandedRun, CopyRuns, StartsFirst, Live
<1> QED BY <1>3, <1>4, <1>5

\* Requests stay what they are.
LEMMA RequestsStay == IInv /\ RequestsInv /\ [Next]_vars => RequestsInv'
<1> SUFFICES ASSUME IInv, RequestsInv, [Next]_vars PROVE RequestsInv'
  OBVIOUS
<1> USE ProcessFacts DEF Goto
<1>1. ASSUME NEW p \in Executors, \E t : pc' = [pc EXCEPT ![p] = t] \/ pc' = pc
      PROVE  RequestsInv'
  BY <1>1 DEF RequestsInv, IInv, TypeOK
<1>2. ASSUME NEW p \in Executors, Execute(p) PROVE RequestsInv'
  <2>1. \E t : pc' = [pc EXCEPT ![p] = t] \/ pc' = pc
    BY <1>2 DEF Execute, RecordRunStarted, RecordStepStarted, AgentReturns,
              RecordStepCompleted, RecordStepSkipped, RecordStepFailed, RecordRunFailed,
              FindUnconsumed, RecordSignalConsumed, RecordWaitingForSignal,
              RecordRunCompleted, Load, Commit
  <2> QED BY <1>1, <2>1
<1>3. ASSUME NEW c \in Clients, Submit(c) PROVE RequestsInv'
  <2>1. \E t : pc' = [pc EXCEPT ![c] = t] \/ pc' = pc
    BY <1>3 DEF Submit, SubmitLoad, SubmitLookup, PersistSubmissionAndResume,
                PersistSubmission
  <2> QED BY <1>1, <2>1
<1>4. ASSUME NEW k \in Controllers, Control(k) PROVE RequestsInv'
  BY <1>4 DEF Control, RecordRunPaused, RecordRunResumed, RecordRunCancelled, Load,
              Commit, RequestsInv, IInv, TypeOK
<1>5. CASE DropExecutor \/ Crash \/ Recover \/ Quiet \/ UNCHANGED vars
  BY <1>5, <1>1 DEF DropExecutor, Crash, Recover, Quiet, vars, RequestsInv
<1> QED BY <1>2, <1>3, <1>4, <1>5 DEF Next

\* Every step is the executor's, a delivery, or a bystander's.
LEMMA WhoseStep ==
  ASSUME IInv, TurnInv, RequestsInv, NoResume, [Next]_vars
  PROVE  \/ \E p \in Executors : ExecutorStep(p)
         \/ \E c \in Clients : Delivers(c)
         \/ Bystands
BY ExecuteTakesStep, SubmitBystands, ControlBystands, DaemonBystands DEF Next, Quiet

\* A running run is executed by somebody (NoStrandedRun), until an executor is
\* dropped: every end of an executor leaves another status behind, and what it
\* loaded before never keeps it from doing so. Of an operator's resume it does not
\* hold: it starts no executor (Resume).
THEOREM NeverStranded ==
  ASSUME Unambiguous, NoResume
  PROVE  Spec => [](drops = 0 => NoStrandedRun)
<1> DEFINE Inv == IInv /\ TurnInv /\ RequestsInv /\ StandInv
<1>1. Init => Inv
  <2> SUFFICES ASSUME Init PROVE RequestsInv /\ StandInv
    BY InitIInv, InitTurns
  <2>1. run.status = "pending" /\ \A p \in Procs : loaded[p] = None
    BY DEF Init, CreatedRow
  <2>2. RequestsInv
    BY ProcessFacts, ProcessAssumption DEF Init, RequestsInv, Executors
  <2>3. StandInv
    BY <2>1, ProcessFacts DEF StandInv, NoStrandedRun, CopyRuns, StartsFirst
  <2> QED BY <2>2, <2>3
<1>2. Inv /\ [Next]_vars => Inv'
  <2> SUFFICES ASSUME Inv, [Next]_vars PROVE Inv'
    OBVIOUS
  <2>1. IInv' /\ TurnInv' /\ RequestsInv'
    BY NextIInv, NextTurns, RequestsStay
  <2>2. StandInv'
    BY WhoseStep, ExecutorStands, DeliveryStands, BystanderStands
  <2> QED BY <2>1, <2>2
<1>3. Inv => (drops = 0 => NoStrandedRun)
  BY DEF StandInv
<1> QED BY <1>1, <1>2, <1>3, PTL DEF Spec

--------------------------------------------------------------------------------
(***************************************************************************)
(* The saved outputs, when no operator writes the run.                     *)
(***************************************************************************)
\* The executor's copy is the row, and it knows everything that is saved in it.
KnowsAll ==
  \A p \in Executors :
    Live(p) => /\ loaded[p] # None => loaded[p] = run
               /\ run.vars_json \subseteq mem[p]

\* A submission that finds the run parked where it saw it parked has the row.
ParkedCopies ==
  \A c \in Clients :
    HoldsWait(c) /\ Parked(loaded[c].current_step_id) => loaded[c] = run

\* The run is not parked twice at one wait.
LEMMA CopiesKept ==
  ASSUME IInv, TurnInv, TurnInv', TurnStep, ParkedCopies
  PROVE  ParkedCopies'
<1> SUFFICES ASSUME NEW c \in Clients, HoldsWait(c)', run'.status = "waiting_signal",
                    run'.current_step_id = loaded'[c].current_step_id
             PROVE  loaded'[c] = run'
  BY DEF ParkedCopies, Parked
<1> USE ProcessFacts
<1>1. CASE Plain
  <2>1. CASE loaded'[c] = run /\ run' = run
    BY <2>1
  <2>2. CASE HoldsWait(c) /\ loaded'[c] = loaded[c] /\ run' = run
    BY <2>2 DEF ParkedCopies, Parked
  <2>3. CASE HoldsWait(c) /\ loaded'[c] = loaded[c] /\ run' # run
    <3> DEFINE w == loaded[c].current_step_id
    <3>1. PICK p \in Executors : Live(p)
      BY <1>1, <2>3 DEF Plain
    <3>2. Taken(w)
      BY <2>3, <3>1 DEF TurnInv, CopyInv, ParkedInv, Parked
    <3>3. w \in WaitSteps /\ w \in Nat
      BY <2>3 DEF HoldsWait, IInv, CopiesInv, Consistent, IsWait, WaitSteps, StepIds
    <3>4. Taken(w)' => w' < run'.current_step_id
      BY <2>3, <3>3 DEF TurnInv, AheadInv, Taken, NameAt
    <3>5. Taken(w)'
      BY <1>1, <2>3, <3>2 DEF Plain, Taken, NameAt
    <3> QED BY <2>3, <3>3, <3>4, <3>5
  <2> QED BY <1>1, <2>1, <2>2, <2>3 DEF Plain
<1>2. ASSUME NEW p \in Executors, Consumes(p) PROVE FALSE
  <2>1. loaded[p] \in RunRow
    BY <1>2 DEF Consumes, IInv, TypeOK
  <2> QED BY <1>2, <2>1 DEF Consumes, SignalConsumed, Detached, RunRow, Row
<1>3. ASSUME NEW d \in Clients, Delivers(d) PROVE FALSE
  <2>1. loaded[d] \in RunRow
    BY <1>3 DEF Delivers, HoldsWait, IInv, TypeOK
  <2> QED BY <1>3, <2>1 DEF Delivers, SignalDelivered, RunRow, Row
<1>4. ASSUME NEW d \in Clients, Stores(d) PROVE loaded'[c] = run'
  BY <1>4 DEF Stores, HoldsWait, ParkedCopies, Parked, IInv, TypeOK
<1> QED BY <1>1, <1>2, <1>3, <1>4 DEF TurnStep

\* Nothing saved is lost in one step, and the executor still knows all of it.
LEMMA OutputsKept ==
  ASSUME IInv, TurnInv, Unambiguous, Controllers = {}, KnowsAll, ParkedCopies,
         \/ \E p \in Executors : ExecutorStep(p)
         \/ \E c \in Clients : Delivers(c)
         \/ Bystands
  PROVE  KnowsAll' /\ run.vars_json \subseteq run'.vars_json
<1> USE ProcessFacts, LabelFacts
<1>1. ASSUME NEW p \in Executors, ExecutorStep(p)
      PROVE  KnowsAll' /\ run.vars_json \subseteq run'.vars_json
  <2> USE <1>1 DEF ExecutorStep
  <2>1. \A q \in Executors : Live(q)' => q = p
    <3>1. \A q \in Executors : Live(q) => q = p
      BY DEF TurnInv, OneTurn
    <3> QED BY <3>1 DEF Live
  <2>2. /\ loaded[p] # None => loaded[p] = run
        /\ run.vars_json \subseteq mem[p]
    BY DEF KnowsAll
  <2>3. CASE Thinks(p)
    BY <2>1, <2>2, <2>3 DEF Thinks, KnowsAll
  <2>4. CASE Writes(p)
    BY <2>1, <2>2, <2>4 DEF Writes, KnowsAll
  <2>5. CASE GivesUp(p)
    BY <2>1, <2>5 DEF GivesUp, KnowsAll
  <2> QED BY <2>3, <2>4, <2>5
<1>2. ASSUME NEW c \in Clients, Delivers(c)
      PROVE  KnowsAll' /\ run.vars_json \subseteq run'.vars_json
  <2> USE <1>2 DEF Delivers
  <2>1. loaded[c] = run
    BY DeliversWhereParked DEF ParkedCopies
  <2>2. \A q \in Executors : ~Live(q)
    BY DEF TurnInv, ParkedInv
  <2>3. \A q \in Executors : Live(q)' => q = c
    BY <2>2 DEF Live, IInv, TypeOK
  <2>4. run'.vars_json = run.vars_json
    BY <2>1 DEF SignalDelivered, IInv, TypeOK, RunRow, Row
  <2>5. mem'[c] = run.vars_json /\ loaded'[c] = None
    BY <2>1 DEF ResumedVars, IInv, TypeOK
  <2> QED BY <2>3, <2>4, <2>5 DEF KnowsAll
<1>3. CASE Bystands
  <2> USE <1>3 DEF Bystands
  <2>1. \A q \in Executors : Live(q)' => Live(q) /\ loaded'[q] = loaded[q]
    BY DEF Live
  <2>2. CASE run' = run
    BY <2>1, <2>2 DEF KnowsAll
  <2>3. CASE run'.vars_json = run.vars_json /\ \A q \in Executors : ~Live(q)
    BY <2>1, <2>3 DEF KnowsAll
  <2> QED BY <2>2, <2>3
<1> QED BY <1>1, <1>2, <1>3

\* What a step saved stays saved (SavedStepsKept), through waits, resumptions, lost
\* executors and crashes, when no operator interferes. Of a pause it does not hold:
\* it writes the outputs of the copy it loaded.
THEOREM OutputsStay ==
  ASSUME Unambiguous, Controllers = {}
  PROVE  Spec => SavedStepsKept
<1> DEFINE Inv == IInv /\ TurnInv /\ RequestsInv /\ KnowsAll /\ ParkedCopies
           A == run.vars_json \subseteq run'.vars_json
<1>1. Init => Inv
  <2> SUFFICES ASSUME Init PROVE RequestsInv /\ KnowsAll /\ ParkedCopies
    BY InitIInv, InitTurns
  <2>1. run.vars_json = {} /\ \A p \in Procs : loaded[p] = None
    BY DEF Init, CreatedRow
  <2> QED BY <2>1, ProcessFacts DEF RequestsInv, KnowsAll, ParkedCopies, HoldsWait
<1>2. Inv /\ [Next]_vars => Inv' /\ A
  <2> SUFFICES ASSUME Inv, [Next]_vars PROVE Inv' /\ A
    OBVIOUS
  <2>1. IInv' /\ TurnInv' /\ RequestsInv'
    BY NextIInv, NextTurns, RequestsStay
  <2>2. NoResume
    BY DEF NoResume
  <2>3. KnowsAll' /\ A
    BY <2>2, WhoseStep, OutputsKept
  <2>4. TurnStep
    BY EveryTurnStep DEF TurnInv
  <2>5. ParkedCopies'
    BY <2>1, <2>4, CopiesKept
  <2> QED BY <2>1, <2>3, <2>5
<1>3. Inv /\ [Next]_vars => [A]_run
  BY <1>2
<1> QED BY <1>1, <1>2, <1>3, PTL DEF Spec, SavedStepsKept

================================================================================
