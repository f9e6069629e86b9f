---------------------------- MODULE WorkflowSignals ----------------------------
(***************************************************************************)
(* One durable workflow run, everything that executes it and everything    *)
(* that reaches it from outside: the executor started with the run, signal *)
(* submissions (each of which may spawn another executor), the operator's  *)
(* pause, resume and cancel, the loss of an executor, and a crash of the   *)
(* daemon followed by the recovery scan.                                   *)
(*                                                                         *)
(* A transition is two steps of a process: it loads the row and tests its  *)
(* guard, then commits a complete row if the status is still the one it    *)
(* loaded.  Steps of other processes come in between.                      *)
(***************************************************************************)
EXTENDS WorkflowRow, Sequences, FiniteSets

CONSTANTS
  Steps,        \* the workflow: a sequence of [kind, name]
  Names,        \* signal names
  Main,         \* the executor started with the run
  Clients,      \* signal submissions
  NameOf,       \* the signal name a submission carries
  KeyOf,        \* its idempotency key: a retry carries the key of the original
  Controllers,  \* operator requests
  ActionOf,     \* what each of them asks for
  MaxCrashes,   \* bound: crashes of the daemon
  MaxDrops      \* bound: executor futures dropped by a timeout

Actions == {"pause", "resume", "cancel"}

Step == [kind : {"agent", "noop"}, name : {None}]
          \cup [kind : {"wait"}, name : Names]

ASSUME WorkflowAssumption ==
  /\ Steps \in Seq(Step) /\ Len(Steps) > 0
  /\ None \notin Names
  /\ NameOf \in [Clients -> Names]
  /\ DOMAIN KeyOf = Clients
  /\ ActionOf \in [Controllers -> Actions]
  /\ MaxCrashes \in Nat /\ MaxDrops \in Nat

ASSUME ProcessAssumption ==
  /\ Main \notin Clients \cup Controllers
  /\ Clients \cap Controllers = {}
  /\ None \notin Clients \cup Controllers \cup {Main}

Executors == Clients \cup {Main}

Procs == Executors \cup Controllers

StepIds == 1 .. Len(Steps)

VARIABLES
  run,      \* the durable row
  signals,  \* rows of workflow_signal, oldest first
  up,       \* the daemon serves requests
  pc,       \* what each process does next
  at,       \* executor: index of its step
  mem,      \* executor: its copy of the workflow variables
  loaded,   \* the row a process loaded and has not used yet
  found,    \* executor: the stored signal it found at a wait step
  resumed,  \* history: the submissions that resumed the run
  crashes,  \* counts crashes up to MaxCrashes
  drops     \* counts dropped executors up to MaxDrops

store == <<run, signals>>
local == <<at, mem, found>>
env   == <<up, crashes, drops>>
vars  == <<run, signals, up, pc, at, mem, loaded, found, resumed, crashes, drops>>

ExecutorLabels ==
  {"start", "begin", "agent", "complete", "skip", "fail", "failRun", "find",
   "consume", "park", "finish"}

SubmitLabels == {"idle", "lookup", "deliver", "store"}

Labels == ExecutorLabels \cup SubmitLabels \cup Actions \cup {"done"}

Init ==
  /\ run = CreatedRow
  /\ signals = <<>>
  /\ up = TRUE
  /\ pc = [p \in Procs |-> CASE p = Main -> "start"
                             [] p \in Clients -> "idle"
                             [] OTHER -> ActionOf[p]]
  /\ at = [p \in Executors |-> 1]
  /\ mem = [p \in Executors |-> {}]
  /\ loaded = [p \in Procs |-> None]
  /\ found = [p \in Executors |-> 0]
  /\ resumed = {}
  /\ crashes = 0 /\ drops = 0

--------------------------------------------------------------------------------
(***************************************************************************)
(* Loading and committing.                                                 *)
(***************************************************************************)
Goto(p, label) == pc' = [pc EXCEPT ![p] = label]

\* A process at t loads the row; it goes to otherwise when the guard refuses.
Load(p, t, guard, otherwise) ==
  /\ up /\ pc[p] = t /\ loaded[p] = None
  /\ IF guard
     THEN loaded' = [loaded EXCEPT ![p] = run] /\ UNCHANGED pc
     ELSE Goto(p, otherwise) /\ UNCHANGED loaded
  /\ UNCHANGED <<store, local, env, resumed>>

MatchesAlways(p) == TRUE    \* mutant: the update is not conditional

\* The compare-and-swap on the status, and nothing but the status.
Matches(p) == run.status = loaded[p].status

Commits(p, t) == /\ up /\ pc[p] = t /\ loaded[p] # None
                 /\ loaded' = [loaded EXCEPT ![p] = None]

\* Writes the row and goes on at next, or writes nothing and goes to otherwise.
Commit(p, t, row, next, otherwise) ==
  /\ Commits(p, t)
  /\ IF Matches(p)
     THEN run' = row /\ Goto(p, next)
     ELSE UNCHANGED run /\ Goto(p, otherwise)
  /\ UNCHANGED <<signals, env, resumed>>

--------------------------------------------------------------------------------
(***************************************************************************)
(* Executors: execute_steps and the transitions it records.                *)
(***************************************************************************)
StepAt(p) == Steps[at[p]]

EnterWithoutFinish(i) ==    \* mutant: the end of the run is not recorded
  IF i > Len(Steps) THEN "done" ELSE "begin"

Enter(i) == IF i > Len(Steps) THEN "finish" ELSE "begin"

FollowingUnchecked(i) == i + 1    \* mutant: no end of the step list

\* current_step_id of the step after i, NULL after the last.
Following(i) == IF i < Len(Steps) THEN i + 1 ELSE 0

\* Where an executor goes once its step is recorded as started.
Work(p) == CASE StepAt(p).kind = "agent" -> "agent"
             [] StepAt(p).kind = "noop"  -> "complete"
             [] StepAt(p).kind = "wait"  -> "find"

\* A refused step_started is an agent step's error, and aborts any other step.
StartRefused(p) == IF StepAt(p).kind = "agent" THEN "fail" ELSE "done"

\* A noop saves its value before it records; an agent step when it returns.
Remember(p) == mem' = [mem EXCEPT ![p] = @ \cup {at[p]}]

RecordRunStarted(p) ==
  \/ Load(p, "start", run.status = "pending", "done")
  \/ /\ Commit(p, "start", RunStarted(loaded[p], 1), "begin", "done")
     /\ UNCHANGED local

RecordStepStarted(p) ==
  \/ Load(p, "begin", CanRecordStep(run), StartRefused(p))
  \/ /\ Commit(p, "begin",
               StepStarted(loaded[p], at[p],
                           IF StepAt(p).kind = "agent" THEN p ELSE None),
               Work(p), StartRefused(p))
     /\ IF StepAt(p).kind = "noop" THEN Remember(p) ELSE UNCHANGED mem
     /\ UNCHANGED <<at, found>>

\* The dispatched agent answers, is skipped by its error mode, or fails.
AgentReturns(p) ==
  /\ up /\ pc[p] = "agent"
  /\ \/ Goto(p, "complete") /\ Remember(p)
     \/ Goto(p, "skip") /\ UNCHANGED mem
     \/ Goto(p, "fail") /\ UNCHANGED mem
  /\ UNCHANGED <<store, env, at, found, loaded, resumed>>

Advance(p) == at' = [at EXCEPT ![p] = @ + 1]

RecordStepCompleted(p) ==
  \/ Load(p, "complete", CanRecordStep(run), "done")
  \/ /\ Commit(p, "complete", StepCompleted(loaded[p], at[p], mem[p]),
               Enter(at[p] + 1), "done")
     /\ Advance(p) /\ UNCHANGED <<mem, found>>

RecordStepSkipped(p) ==
  \/ Load(p, "skip", CanRecordStep(run), "done")
  \/ /\ Commit(p, "skip", StepSkipped(loaded[p], at[p]),
               Enter(at[p] + 1), "done")
     /\ Advance(p) /\ UNCHANGED <<mem, found>>

RecordStepFailed(p) ==
  \/ Load(p, "fail", CanRecordStep(run), "done")
  \/ /\ Commit(p, "fail", StepFailed(loaded[p], at[p]), "failRun", "done")
     /\ UNCHANGED local

RecordRunFailed(p) ==
  \/ Load(p, "failRun", IsInterruptible(run), "done")
  \/ /\ Commit(p, "failRun", RunFailed(loaded[p], at[p]), "done", "done")
     /\ UNCHANGED local

Unconsumed(name) ==
  {k \in DOMAIN signals : ~signals[k].consumed /\ NameOf[signals[k].client] = name}

IsOldest(k, ks) == \A j \in ks : k <= j

\* The wait step looks for a stored signal, and parks on a later step if none.
FindUnconsumed(p) ==
  /\ up /\ pc[p] = "find"
  /\ LET ks == Unconsumed(StepAt(p).name)
     IN IF ks = {}
        THEN Goto(p, "park") /\ UNCHANGED found
        ELSE /\ Goto(p, "consume")
             /\ \E k \in ks : IsOldest(k, ks) /\ found' = [found EXCEPT ![p] = k]
  /\ UNCHANGED <<store, env, at, mem, loaded, resumed>>

\* One transaction: the signal must be unconsumed and the status as loaded.
RecordSignalConsumed(p) ==
  \/ Load(p, "consume", IsInterruptible(run), "done")
  \/ /\ Commits(p, "consume")
     /\ IF Matches(p) /\ ~signals[found[p]].consumed
        THEN /\ run' = SignalConsumed(loaded[p], Following(at[p]))
             /\ signals' = [signals EXCEPT ![found[p]].consumed = TRUE]
             /\ Goto(p, Enter(at[p] + 1)) /\ Advance(p)
        ELSE Goto(p, "done") /\ UNCHANGED <<store, at>>
     /\ UNCHANGED <<env, mem, found, resumed>>

RecordWaitingForSignal(p) ==
  \/ Load(p, "park", CanPark(run), "done")
  \/ /\ Commit(p, "park",
               WaitingForSignal(loaded[p], at[p], StepAt(p).name),
               "done", "done")
     /\ UNCHANGED local

RecordRunCompleted(p) ==
  \/ Load(p, "finish", CanRecordStep(run), "done")
  \/ /\ Commit(p, "finish", RunCompleted(loaded[p]), "done", "done")
     /\ UNCHANGED local

Execute(p) ==
  \/ RecordRunStarted(p)    \/ RecordStepStarted(p)
  \/ AgentReturns(p)        \/ RecordStepCompleted(p)
  \/ RecordStepSkipped(p)   \/ RecordStepFailed(p)
  \/ RecordRunFailed(p)     \/ FindUnconsumed(p)
  \/ RecordSignalConsumed(p) \/ RecordWaitingForSignal(p)
  \/ RecordRunCompleted(p)

--------------------------------------------------------------------------------
(***************************************************************************)
(* submit_signal.                                                          *)
(***************************************************************************)
KeyIgnored(c) == FALSE    \* mutant: the idempotency key is not unique

KeyStored(c) == \E k \in DOMAIN signals : KeyOf[signals[k].client] = KeyOf[c]

WaitingMatchesAny(r, name) == r.status = "waiting_signal"    \* mutant: any name

WaitingMatches(r, name) ==
  r.status = "waiting_signal" /\ r.waiting_kind = "signal" /\ r.waiting_ref = name

SubmitLoad(c) ==
  /\ up /\ pc[c] = "idle"
  /\ loaded' = [loaded EXCEPT ![c] = run] /\ Goto(c, "lookup")
  /\ UNCHANGED <<store, local, env, resumed>>

\* A stored key answers the request; a row that waits for the name is resumed.
SubmitLookup(c) ==
  /\ up /\ pc[c] = "lookup"
  /\ IF ~KeyStored(c) /\ WaitingMatches(loaded[c], NameOf[c])
     THEN Goto(c, "deliver") /\ UNCHANGED loaded
     ELSE /\ Goto(c, IF KeyStored(c) THEN "done" ELSE "store")
          /\ loaded' = [loaded EXCEPT ![c] = None]
  /\ UNCHANGED <<store, local, env, resumed>>

Stored(c, isConsumed) == Append(signals, [client |-> c, consumed |-> isConsumed])

ResumedVarsLost(r) == {}    \* mutant: the new executor starts with no variables

\* The variables the new executor starts with.
ResumedVars(r) == r.vars_json

(***************************************************************************)
(* One transaction: insert the signal (the key is unique), consume it and  *)
(* resume the run; then spawn an executor after the wait step, with the    *)
(* variables of the loaded row.  A status that moved rolls everything back *)
(* and the signal is stored as if the run had not been waiting.            *)
(***************************************************************************)
PersistSubmissionAndResume(c) ==
  /\ Commits(c, "deliver")
  /\ \/ KeyStored(c) /\ Goto(c, "done") /\ UNCHANGED <<store, local, resumed>>
     \/ /\ ~KeyStored(c) /\ ~Matches(c)
        /\ Goto(c, "store") /\ UNCHANGED <<store, local, resumed>>
     \/ /\ ~KeyStored(c) /\ Matches(c)
        /\ LET wait == loaded[c].current_step_id
           IN /\ run' = SignalDelivered(loaded[c], Following(wait))
              /\ at' = [at EXCEPT ![c] = wait + 1]
              /\ Goto(c, Enter(wait + 1))
        /\ mem' = [mem EXCEPT ![c] = ResumedVars(loaded[c])]
        /\ signals' = Stored(c, TRUE)
        /\ resumed' = resumed \cup {c}
        /\ UNCHANGED found
  /\ UNCHANGED env

PersistSubmission(c) ==
  /\ up /\ pc[c] = "store"
  /\ IF KeyStored(c) THEN UNCHANGED signals ELSE signals' = Stored(c, FALSE)
  /\ Goto(c, "done")
  /\ UNCHANGED <<run, local, env, loaded, resumed>>

Submit(c) == \/ SubmitLoad(c) \/ SubmitLookup(c)
             \/ PersistSubmissionAndResume(c) \/ PersistSubmission(c)

--------------------------------------------------------------------------------
(***************************************************************************)
(* The operator's requests, and what happens to the daemon.                *)
(***************************************************************************)
RecordRunPaused(k) ==
  \/ Load(k, "pause", IsInterruptible(run), "done")
  \/ Commit(k, "pause", RunPaused(loaded[k]), "done", "done") /\ UNCHANGED local

\* Only the row is written: nothing starts an executor.
RecordRunResumed(k) ==
  \/ Load(k, "resume", run.status = "paused", "done")
  \/ Commit(k, "resume", RunResumed(loaded[k]), "done", "done") /\ UNCHANGED local

RecordRunCancelled(k) ==
  \/ Load(k, "cancel", ~IsTerminal(run), "done")
  \/ Commit(k, "cancel", RunCancelled(loaded[k]), "done", "done") /\ UNCHANGED local

Control(k) == RecordRunPaused(k) \/ RecordRunResumed(k) \/ RecordRunCancelled(k)

\* The timeout around the first executor drops it wherever it is.
DropExecutor ==
  /\ up /\ drops < MaxDrops /\ pc[Main] \in ExecutorLabels
  /\ drops' = drops + 1
  /\ Goto(Main, "done") /\ loaded' = [loaded EXCEPT ![Main] = None]
  /\ UNCHANGED <<store, local, up, crashes, resumed>>

\* Requests not made yet are made after the restart; everything else is lost.
Untouched(p) == pc[p] = "idle" \/ (p \in Controllers /\ loaded[p] = None)

Crash ==
  /\ up /\ crashes < MaxCrashes
  /\ crashes' = crashes + 1 /\ up' = FALSE
  /\ pc' = [p \in Procs |-> IF Untouched(p) THEN pc[p] ELSE "done"]
  /\ loaded' = [p \in Procs |-> None]
  /\ UNCHANGED <<store, local, drops, resumed>>

\* bootstrap_workflow_definitions, before the server accepts requests.
Recover ==
  /\ ~up /\ up' = TRUE
  /\ run' = RunRecovered(run)
  /\ UNCHANGED <<signals, local, pc, loaded, resumed, crashes, drops>>

Quiet == /\ up /\ \A p \in Procs : pc[p] = "done"
         /\ UNCHANGED vars

Next ==
  \/ \E p \in Executors : Execute(p)
  \/ \E c \in Clients : Submit(c)
  \/ \E k \in Controllers : Control(k)
  \/ DropExecutor \/ Crash \/ Recover
  \/ Quiet

\* Runtime threads keep running the tasks they own; the daemon is restarted.
Fairness == /\ \A p \in Executors : WF_vars(Execute(p))
            /\ \A c \in Clients : WF_vars(Submit(c))
            /\ \A k \in Controllers : WF_vars(Control(k))
            /\ WF_vars(Recover)

Spec == Init /\ [][Next]_vars

FairSpec == Spec /\ Fairness
--------------------------------------------------------------------------------
(***************************************************************************)
(* Properties.                                                             *)
(***************************************************************************)
RunRow == Row(StepIds, Names, Executors, {})

Signal == [client : Clients, consumed : BOOLEAN]

\* Type invariant of the machine.
TypeOK ==
  /\ run \in RunRow
  /\ signals \in Seq(Signal)
  /\ up \in BOOLEAN
  /\ pc \in [Procs -> Labels]
  /\ at \in [Executors -> 1 .. Len(Steps) + 1]
  /\ mem \in [Executors -> SUBSET StepIds]
  /\ loaded \in [Procs -> RunRow \cup {None}]
  /\ found \in [Executors -> 0 .. Len(signals)]
  /\ resumed \in SUBSET Clients
  /\ crashes \in 0 .. MaxCrashes /\ drops \in 0 .. MaxDrops

IsWait(i) == i \in StepIds /\ Steps[i].kind = "wait"

\* The columns of one row agree with each other.
Consistent(r) ==
  /\ IF r.status = "waiting_signal"
     THEN /\ r.waiting_kind = "signal" /\ IsWait(r.current_step_id)
          /\ r.waiting_ref = Steps[r.current_step_id].name
          /\ r.active_dispatch_id = None
     ELSE r.waiting_kind = None /\ r.waiting_ref = None
  /\ r.status # "waiting_hitl"
  /\ r.completed_at <=> IsTerminal(r)
  /\ r.status = "failed" => r.error_json
  /\ r.status = "completed" => ~r.error_json

\* The durable row never contradicts itself, whatever stale copies are
\* committed over it: the waiting columns, the wait step they stand for, the
\* error and the completion time follow the status (TransitionWriter and
\* submit_signal, which write whole rows they loaded some time before).
RowConsistent == Consistent(run)

\* A wait step of the workflow consumes at most one signal of its name, however
\* many are submitted at once (submit_signal and the eager path of a wait step).
NoDoubleConsume ==
  \A n \in Names :
    Cardinality({k \in DOMAIN signals :
                   signals[k].consumed /\ NameOf[signals[k].client] = n})
      <= Cardinality({i \in StepIds : Steps[i].kind = "wait" /\ Steps[i].name = n})

\* The run is executed by at most one executor at a time: a resumed run gets its
\* new executor only after the old one is gone (resume_workflow_signal_context).
AtMostOneExecutor ==
  \A p, q \in Executors :
    pc[p] \in ExecutorLabels /\ pc[q] \in ExecutorLabels => p = q

\* Submissions that share an idempotency key resume the run at most once in all,
\* also when the retry comes after a crash between the commit and its answer.
ResumedOncePerKey ==
  \A c, d \in resumed : KeyOf[c] = KeyOf[d] => c = d

\* While the daemon is up, a running run has an executor: every commit that makes
\* the row running happens where an executor is about to continue, and an
\* executor that gives up leaves another status behind.
NoStrandedRun ==
  up /\ run.status = "running" => \E p \in Executors : pc[p] \in ExecutorLabels

\* A parked run has no stored signal it could consume: the eager path of the wait
\* step takes a signal that is already there instead of parking.
NoSignalLeftBehind ==
  run.status = "waiting_signal" => Unconsumed(run.waiting_ref) = {}

\* Nothing that still holds a copy of the row from before can revive or alter a
\* completed, failed or cancelled run (late commits against cancel_run).
TerminalIsFinal == [][~IsTerminal(run)]_run

\* A paused run runs again only by the operator's resume: the executor that was
\* interrupted, and signals, leave it paused (resume_run, recover_durable_runs).
OnlyResumeLeavesPause ==
  [][run.status = "paused" /\ run'.status = "running"
       => \E k \in Controllers : pc[k] = "resume" /\ loaded[k] # None]_run

\* A signal that resumes a parked run is one the run is parked on: its name is
\* the one in waiting_ref at the moment of the commit, not when it was loaded.
ResumedByAwaitedSignal ==
  [][run.status = "waiting_signal" /\ run'.status = "running"
       => /\ Len(signals') > Len(signals)
          /\ NameOf[signals'[Len(signals')].client] = run.waiting_ref]_run

\* What a completed step saved in the durable variables stays there: no later
\* transition, crash or resumed executor writes an older copy over it.
SavedStepsKept == [][run.vars_json \subseteq run'.vars_json]_run

\* The statuses and what they wait for, as RunLifecycle has them.
Lifecycle == INSTANCE RunLifecycle
               WITH status <- run.status, awaited <- run.waiting_ref,
                    Awaitable <- Names

\* Every interleaving of stale copies is one of the lifecycle's steps: TransitionWriter
\* implements the status rules of pause, resume, cancel, fail and the waits.
ImplementsLifecycle == Lifecycle!Spec

\* Every executor comes to an end and leaves the run parked, paused or finished.
RunSettles == <>[](run.status # "running")

================================================================================
