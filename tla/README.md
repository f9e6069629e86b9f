# Formal models of OpenFang's durable workflows

TLA+ models of the parts of OpenFang where several actors share durable state,
with the TLC instances that check them and TLAPS proofs of all the safety
properties these check. Paths are relative to the repository root; `workflow.rs` is
`crates/openfang-kernel/src/workflow.rs`, `kernel.rs` is
`crates/openfang-kernel/src/kernel.rs`, and the stores are in
`crates/openfang-memory/src/`.

## The system

OpenFang is an agent operating system: one daemon (`crates/openfang-cli`,
`openfang-desktop`) hosts a kernel (`openfang-kernel`), a runtime that talks to
model providers and tools (`openfang-runtime`), SQLite-backed stores
(`openfang-memory`), an HTTP API (`openfang-api`), channel adapters
(`openfang-channels`), a peer network (`openfang-wire`) and catalogues of hands,
skills and extensions. The core logic of its own is the durable workflow engine.

| Component | State | Operations | What is hard | What makes it correct |
|---|---|---|---|---|
| Workflow run store (`workflow_store.rs`) | `workflow_run`, `workflow_signal`, `workflow_checkpoint` rows | whole-row update conditional on the status; signal insert and consume; recovery scan | rows built from copies loaded earlier; status that leaves and comes back | columns of a row agree; finished runs never change; recovery covers all running rows |
| Workflow engine (`workflow.rs`) | executors (futures), run cache | run and step transitions, signal submission, pause, resume, cancel | interleaved load and commit; executor spawned after the commit; lost executors | one executor per run, each wait consumes one signal, no running run without an executor |
| Human in the loop (`workflow.rs`, `kernel.rs`, `hitl.rs`) | `hitl_request` rows, registry of oneshot senders | ask, wait, answer live or rebuild, cancel, expire | three rows read before one transaction; memory touched after the commit; timers | a question is decided once; a waiting run can be answered; a decision wakes somebody |
| Dispatch records (`dispatch.rs`) | `dispatch` rows: status, attempt | ensure running, complete, fail, retry, cancel | legality checked on an old copy, or not at all inside the HITL transactions | only legal moves, attempts in order |
| Looper (`looper.rs`, both crates; `kernel.rs`) | run row, execution-view rows, subtasks, dispatches; a runtime's copy and in-flight set; cancellation tokens | create with a scope, schedule, settle, pause, resume, cancel, restart | every row written on its own; status written unconditionally; token looked for and inserted in two steps; view rebuilt after a crash | dependencies, parallelism and scope respected; nothing repeated or left behind; every runtime ends |
| Tasks (`task.rs`) | task and subtask rows | create, complete, replan | one transaction each | dependencies stay inside the task |
| Triggers v2 (`trigger_v2.rs`, `runtime_store.rs`) | definitions, compiled and active sets, runtime rows | save, remove, match, record a fire | the row is read and written back whole, by events and edits | `max_fires` and cooldown hold; memory and row follow the definition |
| Cron (`cron.rs`) | jobs, next run | claim due jobs, run by hand, record outcome, enable, replace | changes while a job runs | a period is claimed once; an enabled job keeps running |
| Approval (`approval.rs`) | pending oneshots, recent decisions | request, resolve, time out | timeout against resolve; count then insert | an agent acts on what is recorded |
| Circuit breaker (`auth_cooldown.rs`) | provider state | check, record success, failure, probe | nothing: no caller passes a breaker (`agent_loop.rs:532`, `:1680`) | not modelled |
| The rest: agent loop, guards, channels, wire, API, catalogues, CLI, desktop | see `PROJECT.json` | | I/O, pure functions or thin wrappers | not modelled, each with its reason in `PROJECT.json` |

How they interact: the API calls the kernel; the kernel runs executors as tasks,
each of which calls the engine's `TransitionWriter` before and after it
dispatches an agent; submissions, answers and operator requests use the same
writer from their own tasks; every monitor (the HITL sweep, the cron tick loop) is
another task. A looper run has a runtime task of its own, which spawns one executor
per dispatch. Cron jobs and events start runs, which then live by themselves.
Between all of these the only mutual exclusion is inside one SQLite transaction, or one
entry of a concurrent map; the exception is `definition_mutation_lock`, which
admits one edit of trigger definitions at a time.

## The modules

| Module | Models | Uses |
|---|---|---|
| `WorkflowRow` | the run row, the guards of all transitions and the rows they write; pure operators | |
| `RunLifecycle` | abstract specification: statuses and what a run waits for | |
| `WorkflowSignals` | executors of a run of agent, noop and wait steps; submissions; pause, resume, cancel; lost executors; crash and recovery | `WorkflowRow`, `RunLifecycle` (refinement) |
| `HitlPause` | one agent step that asks a human: executor, answer, cancellations, sweep, timeouts, retry, crash and recovery | `WorkflowRow`, `RunLifecycle` (refinement) |
| `FanOut` | a fan-out group: its concurrent steps with dispatches, error modes and questions; the executor that joins them and records results in order; pause, cancel, cancelled dispatches | `WorkflowRow` |
| `LooperTask` | the task, the policy and the bounds of a looper run, with their assumptions | |
| `Looper` | one looper run: runtime, executors, requests, shutdown, crash and recovery | `LooperTask` |
| `Approval` | approvals of several tool calls, operators, timers | |
| `Cron` | jobs, the tick loop, runs by hand, edits | |
| `Triggers` | one trigger, edits of its definition, concurrent events | |
| `WorkflowSignals_proofs` | theorems about `WorkflowSignals` | `SequenceTheorems`, `FiniteSetTheorems`, `TLAPS` |
| `HitlPause_proofs` | theorems about `HitlPause`: the row, questions, decisions; and those that count processes | `FiniteSetTheorems`, `TLAPS` |
| `Looper_proofs` | theorems about `Looper` | library theorems, `TLAPS` |
| `FanOut_proofs`, `Approval_proofs`, `Cron_proofs`, `Triggers_proofs` | theorems about these components | library theorems, `TLAPS`; `RunLifecycle` (`FanOut_proofs`) |
| `MCWorkflowSignals`, `MCHitlPause`, `MCLooper`, `MCTask` | workflows, a task, clients and processes for TLC | |
| `MCServices` | `Looper`, `Approval`, `Cron`, `Triggers` and `FanOut` in one specification | the five, four of them through their proof modules |
| `Services_proofs` | carries the theorems about looper runs, approvals, jobs, triggers and groups over to `MCServices` | `MCServices`, `Triggers_proofs`, `TLAPS` |

**State and code.** `run` is the row of `workflow_run`, `signals` the rows of
`workflow_signal` in `created_at` order, `dispatch` and `hitl` the rows of their
tables, `registry` the map in `HitlRegistry`, `inbox` what a oneshot receiver has
got. `loaded` (`seen` in `HitlPause`) is the copy a Rust function keeps in
`current` across an `.await`. `pc` is where a function is between two of its
database calls.

**Actions and code.** A transition of `TransitionWriter` is the pair of disjuncts
of one action: `Load` tests the guard on the row it reads, `Commit` writes the
row of `WorkflowRow` if the status has not moved (`update_workflow_run_record`).
One SQLite transaction is one step; two calls are two steps. Which action stands
for which lines is in `PROJECT.json` under `map`.

**Looper.** `status`, `shown`, `view`, `link`, `subtask` and `dispatch` are the columns of
`looper_run`, `looper_subtask`, `subtask` and `agent_dispatch`; `mem`, `seen`, `inflight`
and `cursor` the local variables of `LooperRuntime::run`, which is written out call by
call: `Load`, `CreateRow`, `RepairRow` are `ensure_execution_view`, `Top` to `Begin` one
round of the loop, `Join` to `SettleSubtask` a completion, `Finish` the idle outcome. A
crash may fall between any two. `exec` is the task that carries a dispatch to the
agent. `Create`, `Seed`, `Fill`, `CheckStart`, `Launch` are one request; `token` is the run's
entry of `looper_runtime_tokens`. `filled`, `turns`, `late` and `wanted` are history.

**Triggers.** `defined`, `compiled`, `active` are the maps of `TriggerV2Engine`, `row` the row
of `trigger_runtime`. Between `Compile` and `Sync` the write lock of `active_compiled` is
held. `stale` and `lost` are history: a copy was read before the row was last written,
and such a copy was written back.

**Cron** keeps an instant as the time left until it, so time needs no bound. **Approval**
separates the map, the history and the channel, which are written one after the other.
**FanOut** has one process per step, one that joins them, and the operators.

**Abstractions.** There is one run. Every step saves its output, and `vars_json`
is the set of steps saved in it. Inputs, outputs, payloads, checkpoints and
timestamps are left out, and so are errors in the data (missing rows, invalid
JSON) and failures of SQLite. Every agent step is dispatched with mode Call. A
workflow is a sequence (`WorkflowSignals`) or one fan-out group (`FanOut`). `HitlPause` starts after `step_started` of its only step;
its agent may ask again after each answer. A timer may strike at any time. The sweep
handles one expired question per round.

Definitions commented `mutant` are plausible bugs: they stand next to the definition
they would replace, and each property of a passing run is violated by one of them.

## Runs

| Run | Instance | Shows |
|---|---|---|
| `Signals` | work before each of two waits, A and B; two submissions of each, the second a retry; 1 crash, 1 lost executor | types; a key resumes once; a run is resumed by the signal it waits for; saved outputs survive |
| `Controls` | work, wait, noop; a submission and its retry; pause, resume, cancel; 1 crash, 1 lost executor | the row never contradicts itself; terminal is final; only a resume leaves pause; `RunLifecycle` is implemented |
| `Race` | one wait and work; two submissions; pause, cancel; 1 crash; fair | one signal consumed, one executor, never stranded, comes to rest |
| `Questions` | two questions that can expire, 1 retry; two answers, pause, sweep; fair | waiting runs are answerable; one turn at a time; legal dispatch; decisions final; expiry releases; the run comes to rest |
| `Interrupted` | two questions; answer and cancellation of question, dispatch and run; 1 timeout of step or run; 1 crash | one waiting mode; only the active question is answered; the row follows `RunLifecycle` |
| `Services` | a looper run of three subtasks, two of them parallel, one dependent, with and without a scope, two callers whose starts do not overlap, 2 controls, 1 crash; two approvals, two operators; an interval and a one-shot job, 3 edits; a trigger with 2 events and 3 edits; a group of two steps; fair | see below |
| `LostWakeup` | one wait, one submission | violation: parks although the signal is stored |
| `StaleDelivery` | two waits, two submissions of the first name | violation: one wait consumes two signals |
| `Resume` | pause, resume | violation: running without an executor |
| `StepTimeout` | one question, one step timeout | violation: waits for a question nobody can answer |
| `CancelRace` | one question, one cancellation | violation: an executor waits for ever on a running run |
| `Overlap` | the looper task, two requests at a time, 3 controls | violation: two runtimes give one subtask out twice |

`Services` shows, of the looper: no more agents than the policy allows and one at a time
for what may not be shared (`WithinPolicy`), dependencies first (`DependenciesFirst`), a
turn repeated only by a crash (`RepeatedOnlyByCrash`), no row, dispatch or subtask left
open by a finished run (`NothingLeftBehind`), no new round of dispatches after a cancel
(`CancelStopsSelection`), no subtask outside the scope (`WithinScope`), an outcome that
the rows justify although it is written blindly (`OutcomeJustified`), no running run
abandoned but by a pause (`LeavesOnlyWhenPaused`), and that every runtime ends
(`RuntimesLeave`). Of approvals: an agent acts on what the history shows
(`HistoryAgrees`). Of cron: `ClaimedOncePerPeriod`, `KeepsRunning`. Of triggers:
`FollowsDefinition`, `LimitsKept`. Of a group: a completed one saved the output of every
step that completed (`SavedTogether`), and a failed one failed for a step's failure or
for a sibling's question, recorded in order (`FailsInOrder`).

The five share no variable. A behaviour of `Services` takes the steps of one of them only,
so its states are the sum of theirs and not the product; since every property of the run is about
the variables of one, interleaving them would show nothing else.

Which property is checked where matters. Some of these properties do not
hold of every instance, and the instances above keep the passing runs out of what causes
them, as follows (the theorems below state weaker conditions):

- `NoDoubleConsume`, `AtMostOneExecutor` (`Race`): one wait step and no resume, so
  that no status comes back; `StaleDelivery` has two waits.
- `NoStrandedRun` (`Race`): no resume and no lost executor; (`Questions`): no
  cancellation, which would meet the question before its sender is registered.
- `SavedStepsKept` (`Signals`): no operator; a pause and a resume let an older
  copy through, like the second wait does.
- `WaitingIsAnswerable`, `AtMostOneTurn` (`Questions`): no step timeout. With one, a
  rebuilt executor can meet a retry of the first.
- `DispatchIsLegal`: retries without cancellations (`Questions`). Together they write a
  copy of one attempt over the next, since the update compares only the status.
- The looper's properties (`Services`): two callers, of whom one at a time creates or
  resumes the run, while the other may pause or cancel it. Two that start it at once
  start it twice, which `Overlap` shows.
- `LimitsKept`, `FollowsDefinition` (`Services`): until `lost`. `record_successful_fire`
  and `sync_runtime_record` write whole rows from copies, so two events recorded at once
  count once, and a record that meets an edit puts back what the edit changed; events
  that were dispatched and not yet recorded are not counted either.
- `WithinScope`: once a row of the scope is written. A request whose scope is refused leaves
  its run pending (`kernel.rs:5773`); paused and resumed, it runs the whole task.
- `LeavesOnlyWhenPaused` says what remains true of a resume that meets a runtime on its
  way out: the run was paused when the runtime last looked. Then it is running without one.
- `ExpiryReleases` (`Questions`): no crash. A crash between the expiry of a
  question and the transition of its run leaves the run waiting, since later sweeps
  look only for pending questions.

`PROJECT.json` lists under `findings` what the six violation runs show and the
statement each contradicts, and under `hazards` what no property covers yet.

**Bounds.** Two submissions are enough for every race on a row: a stale copy needs
one process that loads and another that moves the status and, for a status that
comes back, moves it again. Four give each of two waits its retry. One crash at any
point meets every pair of commits; a second only meets rows the first recovery has
written. Two questions are needed for a question that is not the active one.
One retry has both a first and a last attempt. `MaxCrashes`, `MaxDrops`,
`MaxQuestions`, `MaxRetries`, `MaxTimeouts`, `MaxCancels`, `MaxControls`, `MaxDispatches`,
`MaxEdits`, `MaxEvents` are the only bounds; there is no state constraint. Three
subtasks are the least with two in flight and one that waits for a dependency; five
dispatches let a crash repeat two of them. `Services` has about 630,000 states. Period 2
and two instants tell an overdue job, and a cooldown, from one that is just over.

**Deadlock** is checked in every run. `Quiet` and `Stuck` are stuttering steps for the
states in which the system may really rest: everything is done, or only a human (or
the next sweep) can go on.

**Fairness.** Weak fairness of each executor (a spawned tokio task runs until it
ends), of deliveries, detaches and the sweep once they have begun
(`spawn_hitl_timeout_monitor` ticks for ever), and of recovery (the daemon is
restarted). In `HitlPause` nobody has to answer, cancel or pause. Crashes, timeouts
and lost executors are never forced. `RunSettles` allows a run that waits for ever
for a human or a signal: nothing promises that they come. In `Looper` each runtime and
executor goes on (agent turns have their own timeouts); no request has to be carried
through, and a daemon that stops need not be started again. In `Cron` time passes, and
the tick loop ticks and gets its jobs done; a run by hand may take for ever.

## Proofs

Every theorem holds for every value of the constants: any number of submissions, answers,
operators, jobs, steps, questions, retries, timeouts, crashes. Where a property of the
code needs a condition, the theorem states it, and a run shows why it is needed.

### Runs and signals: `WorkflowSignals_proofs`

Assumptions: `NoneAssumption`, `WorkflowAssumption`, `ProcessAssumption`.

- `TypeCorrect`: `[]TypeOK`; `RowsConsistent`: `[]RowConsistent`;
- `TerminalFinal`: `TerminalIsFinal`; `PausedUntilResumed`: `OnlyResumeLeavesPause`;
- `LifecycleImplemented`: `WorkflowSignals` implements `RunLifecycle`;
- `OncePerKey`: `[]ResumedOncePerKey`;
- if `Unambiguous`: `OneExecutor`: `[]AtMostOneExecutor`; `ConsumedOnce`: `[]NoDoubleConsume`;
  `AwaitedSignalResumes`: `ResumedByAwaitedSignal`;
- if also nobody resumes: `NeverStranded`: `drops = 0 => NoStrandedRun`, always;
- if also there is no operator: `OutputsStay`: `SavedStepsKept`.

*Rows.* `RowConsistent` alone is not inductive: a commit writes a row built from
an old copy. The invariant `IInv` therefore says of each copy what is true of the row:
it is consistent, and it satisfies the guard its holder tested (`CopiesInv`); and it
says where an executor stands in the list of steps (`PlaceInv`). The commit tests that
the row still has the status of the copy, and each guard that matters is about the
status or follows from it in a consistent row. One lemma per next row
(`...Fits`) says it is consistent; one per operation (`...Keeps`) says the invariant
survives; one per kind of process (`...Moves`) says what it may do to the status.

*Turns.* An executor has the turn from the commit that makes the run run to the one that
parks or ends it. A submission that loaded a parked row and commits later takes the turn if
the status is `waiting_signal` again, whichever wait it now is. `Unambiguous` says when
that cannot be: one wait step; or waits for different names, and submissions that differ in
name or are retries under one key. `Signals`, `Controls` and `Race` satisfy it,
`StaleDelivery` does not, and there TLC finds two executors. `TurnInv` says that there is
one turn, none while the run is parked or the daemon down (`OneTurn`, `ParkedInv`,
`DownInv`); that consumed signals belong to waits that are behind, one each (`AheadInv`,
`ConsumedInv`); that the signal an executor found is still there (`FoundInv`); and that a
wait seen by a submission is the present one, taken, or left for good (`CopyInv`). The
operations fall into four kinds (`Plain`, `Consumes`, `Delivers`, `Stores`):
`EveryTurnStep` shows there are no others, and one lemma per kind that it keeps `TurnInv`.
`NeverStranded` and `OutputsStay` add what the executor knows. An operator's resume starts no
executor (`Resume`), a dropped one is not replaced, and a pause writes the outputs of
the copy it loaded; hence their conditions.

### Human in the loop: `HitlPause_proofs`

Assumption: `HitlAssumption`. Clients are finitely many, since a daemon serves finitely
many requests; it is used to see that whoever asks finds a free question number. `None` is
no value of a column.

- `TypeCorrect`: `[]TypeOK`; `WaitingModeKept`: `[]OneWaitingMode`;
- `DecisionsFinal`: `DecisionIsFinal`; `ActiveAnswered`: `AnswersTheActiveQuestion`;
  `LifecycleFollowed`: `FollowsLifecycle`;
- `OneTurn`: `AtMostOneTurn` until a step timeout strikes (run `StepTimeout`);
- `Answerable`: `WaitingIsAnswerable` until a step timeout or crash, or the dispatch is
  cancelled;
- `NotStranded`: `NoStrandedRun` until a timer or crash, or a question or dispatch is
  cancelled (run `CancelRace`);
- `WritesLegal`: every write of the dispatch but a cancellation is legal, until a step timeout;
  `DispatchLegal`: `DispatchIsLegal` if there are no step timeouts and nobody cancels
  dispatches.

*Rows.* `IInv` says which columns of the row agree (`RowOK`), what the status of the run says
of the question and the dispatch it names (`QuestionInv`), and, per label, what a
process knows of the copy it holds (`Knows`) and of the question it is about (`Concerns`).
The transaction of an answer compares only statuses; that it still hits the active
question follows from `hitl[h] = "pending"` and from there being one pending question.

*The baton.* The other properties count processes. Whoever works on the step, or has
decided its question and must still wake somebody, holds a baton: an ask lays it down, a
decision picks it up, waking the receiver passes it on. `BatonInv` says it is held once,
and by nobody while the dispatch waits; hence what was read of the dispatch is still
true when it is written (`FreshInv`). Some thirty operations are eight kinds of step
(`EveryStep`), and each kind keeps `BInv`. The conditions are needed:

- A step timeout leaves the question pending and lets the executor go on, so an
  answer makes a second one. A crash between an expiry and its transition leaves a
  waiting run with no pending question (`hitl.rs:485`, which later sweeps do not see).
- A cancelled question whose receiver has not registered yet wakes nobody.
- `cancel_dispatch` reads the dispatch of attempt 1 as `waiting_hitl`; a sweep expires the
  question and the run fails the attempt; the request finds no pending question and reads
  the run as running; the retry makes attempt 2 and asks again. The update
  (`dispatch.rs:844`) tests only the status, so it commits attempt 1 as cancelled while the
  run waits for a question of attempt 2. TLC shows this trace when the condition is dropped.

### Fan-out groups: `FanOut_proofs`

Assumption: `FanOutAssumption` (at least one step; error modes; operators are not steps).
`TypeCorrect`; `NothingLost`: `[]SavedTogether`; `FirstFails`: `[]FailsInOrder`;
`LifecycleFollowed`: every write of the row is a step of `RunLifecycle`.

`IInv` ties the place of each step to the status of its dispatch (`StepFits`), the place of the
executor to what it has recorded (`ExecutorInv`), and the row to both (`RowInv`). The
argument: until all steps have ended the executor has saved nothing, so every copy a
step or operator holds has no outputs and writing it loses none. Afterwards a
row that runs is written by the executor alone, whose copy is the row (`CopyInv`):
a pause or cancellation ends the writing, since nobody resumes. The first
step left is found by `CurrentIsFirst` (a set of numbers has a least member).
For the life cycle, `EveryWrite` finds that each write is one of the moves `RowMoves`, and
`EveryCopy` that a copy is only ever taken of the row; so copies, like the row, name a
question only while they wait (`AttachedInv`), and a step that writes an old copy back
cannot leave the row waiting for a question that was answered.

### Looper: `Looper_proofs`

Assumption: `LooperAssumption` (dependencies on earlier subtasks; at least one subtask and
one slot). Condition: `[]OneStart`, requests that create or resume the run do not overlap;
pauses, cancellations of the run or of a dispatch, shutdowns and crashes come at any time,
from any number of callers. `Overlap` shows that the condition is needed.

- `TypeCorrect`; `PolicyKept`: `[]WithinPolicy`; `OrderKept`: `[]DependenciesFirst`;
- `NotRepeated`: `[]RepeatedOnlyByCrash`; `NothingLeft`: `[]NothingLeftBehind`;
- `CancelStops`: `[]CancelStopsSelection`; `ScopeKept`: `[]WithinScope`;
- `EndsForCause`: `OutcomeJustified`; `LeavesOnPause`: `LeavesOnlyWhenPaused`.

*One runtime.* Under the condition only the runtime of the token is at work (`TokenInv`),
since what a start has found out (`CallInv`) is still true when it launches. Its copy of the
view is then the view except for the row it is about to write (`ViewFits`), and what it has in
flight are the rows that run and the dispatches they are linked to, with one exception per
place in the code (`FlightFits`). So what it decides on the copy is right of the rows:
the policy (`PolicyFits`), the dependencies (`DependsInv`), and that it gives up with cause
(`IdleFits`; that no row is ready means that some dependency is cancelled or has no row follows
from the least pending row, `FirstPendingWaits`). The status alone can change under it, and `StatusFits` says how.

*Counting.* A turn is counted when it begins, and as long as it may begin without another
crash there is no more than one per crash (`RepeatInv`). A crash leaves open at most one
dispatch that no row names (`Loose`) and one subtask whose row is settled (`Dangling`): it
catches the runtime at one place (`LeftoverInv`). Dispatches created after a cancellation
are in flight, in the round it fell into (`LateFits`), so the policy bounds them (`LateInv`).

### Approvals, jobs, triggers: `Approval_proofs`, `Cron_proofs`, `Triggers_proofs`

- Approvals (`MaxRecent \in Nat`): `TypeCorrect`; `ActsOnRecord`: `[]HistoryAgrees`. The map, the
  history and the channel are written one after the other. `OneDecider` says a request
  is in the map, with one operator, or answered; `OnRecord` what the history may show of it
  at each of these places, unless it is full and may have dropped it.
- Jobs (`CronAssumption`: an interval has a length, errors have a limit, no job is named as
  none): `TypeCorrect`; `AlwaysScheduled`: an enabled job has a next run; `ClaimedOnce`:
  `ClaimedOncePerPeriod`. The invariant `PeriodAhead` says that the next run and the time since
  the last claim make a period together; outcomes recorded late and edits only
  move the next run away.
- Triggers (no assumption): `TypeCorrect`; `DefinitionFollowed`: `[]FollowsDefinition`;
  `LimitsHold`: `LimitsKept`. Neither is inductive: both speak of what is stored, and what is
  stored comes from copies. `IInv` adds how far an edit has come and what it holds
  (`EditorInv`), that the row counts exactly the fires recorded while no record is lost
  (`CountInv`), and that a handler about to write holds the row as it is unless it was
  marked out of date (`HandlerInv`), which also covers the record of a fire that meets a
  removed row: it is found only while an edit is under way.

### All of them: `Services_proofs`

What `MCServices` does to the variables of a service is a behaviour of that service
(`RunsBehave`, `ApprovalsBehave`, `JobsBehave`, `TriggersBehave`, `GroupsBehave`), and
its looper requests meet the condition (`StartsApart`: `ServicesNext` admits no start beside
another). Hence every property of the run `Services` but the two that speak of
fairness is a theorem of `ServicesSpec`: `ServicesTypeOK` (`AllTyped`), the eight of the looper,
`HistoryAgrees`, `ClaimedOncePerPeriod`, `FollowsDefinition`, `LimitsKept`, `SavedTogether` and
`FailsInOrder`. Assumptions: `ServicesAssumption`, from which those of approvals, jobs and
groups follow, and `LooperAssumption`.

### Only model-checked

Liveness, which the prover cannot treat: `RunSettles` (`Race`, `Questions`), `ExpiryReleases`
(`Questions`), `RuntimesLeave` and `KeepsRunning` (`Services`). The violation runs stand by their traces.

## Seen in the code and not stated as a property

No statement of the repository promises these otherwise, or the model leaves them out.

- A shutdown cancels the tokens, and an idle runtime then marks its run `failed`
  (`looper.rs:817`), while a crash would have left it running and recovered.
- A crash between a row's completion and its subtask's leaves the subtask `in_progress`, and
  one between a dispatch and its link leaves the dispatch pending: `NothingLeftBehind`
  counts one of each per crash. Pending looper runs are not recovered at boot.
- A run with a scope whose subtask depends on one left out, completed before, fails: the
  scope is accepted, and `dependencies_completed` finds no row.
- Results of a fan-out group after the first that fails the run are dropped.
- A job with an instant in the past is due at every tick until it succeeds; a one-shot
  success removes the job that replaced it; a run by hand claims the period that is due,
  whatever its outcome.
- An operator can be told that a decision was accepted which the agent, timed out, never
  sees; concurrent requests of one agent can pass `MAX_PENDING_PER_AGENT` together.

## Not modelled

The HTTP layer, adapters, catalogues, CLI and desktop are I/O around these services and are
listed with their reasons in `PROJECT.json`, as are the model-provider loop and the
stores that are single statements. By lines they are most of the repository: the map
covers what keeps state that several actors share. Within the modelled components: loops
and conditions of workflows and steps after a fan-out group; `retry_dispatch_control_plane`;
Send and Spawn dispatches; replanning a task under a looper run; failures of SQLite, other
than the refused insert of a looper row; persistence of cron jobs; event patterns; the
circuit breaker, which nothing uses.

## Plan

Done: the above. Next, in this order:

1. `Sweep`: two runs with expired questions in one batch, its early return, and the
   crash between expiry and transition.
2. `RunCache`: the order of cache updates. Steps after a fan-out group.
