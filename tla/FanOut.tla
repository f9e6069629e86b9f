------------------------------- MODULE FanOut -------------------------------
(* A group of fan-out steps, the last of a workflow run: execute_steps of        *)
(* crates/openfang-kernel/src/workflow.rs.  The steps run concurrently on the   *)
(* one run row, each with a dispatch of its own, and may stop to ask a human;   *)
(* the executor of the run waits for all of them and then records what became  *)
(* of each, in the order of the definition.                                     *)
(*                                                                              *)
(* Guards and rows are those of WorkflowRow; a transition loads the row in one  *)
(* step and commits it in another, if the status is still what it was.          *)
EXTENDS WorkflowRow, FiniteSets, FiniteSetsExt

CONSTANTS
  K,            \* steps of the group
  Mode,         \* error mode of each: "fail", "skip" or "retry"
  MaxRetries,   \* retries of the "retry" mode
  Operators,    \* requests that pause or cancel the run
  MaxQuestions, \* bound: questions asked
  MaxTimeouts,  \* bound: step timeouts
  MaxCancels    \* bound: dispatches cancelled

Steps == 1 .. K
Main  == 0
Procs == Steps \cup {Main} \cup Operators

VARIABLES
  run,       \* the durable run row
  dispatch,  \* status of the dispatch of each step
  pc,
  seen,      \* the row a process has loaded and not committed yet
  saved,     \* the executor's variables: the steps whose output it holds
  recorded,  \* the steps whose result it has recorded
  tries,
  questions, timeouts, cancels,
  started    \* history: the steps whose step_started was recorded

env  == <<questions, timeouts, cancels, started>>
vars == <<run, dispatch, pc, seen, saved, recorded, tries, env>>

Init ==
  /\ run = RunStarted(CreatedRow, 1)
  /\ dispatch = [s \in Steps |-> "none"]
  /\ pc = [p \in Procs |-> CASE p \in Steps -> "new" [] p = Main -> "join" [] OTHER -> "ready"]
  /\ seen = [p \in Procs |-> CreatedRow]
  /\ saved = {}
  /\ recorded = {}
  /\ tries = [s \in Steps |-> 0]
  /\ questions = 0 /\ timeouts = 0 /\ cancels = 0 /\ started = {}

-----------------------------------------------------------------------------
At(p, l)   == pc[p] = l
Goto(p, l) == pc' = [pc EXCEPT ![p] = l] /\ seen' = [seen EXCEPT ![p] = CreatedRow]

\* The load and the guard; a refusal is an error of the transition.
Load(p, l, guard, next, refused) ==
  /\ At(p, l)
  /\ IF guard
     THEN pc' = [pc EXCEPT ![p] = next] /\ seen' = [seen EXCEPT ![p] = run]
     ELSE Goto(p, refused)
  /\ UNCHANGED <<run, dispatch, saved, recorded, tries, env>>

Commits(p, l) == At(p, l) /\ run.status = seen[p].status
Refused(p, l) == At(p, l) /\ run.status # seen[p].status

Commit(p, l, row) ==
  /\ Commits(p, l)
  /\ run' = row
  /\ Goto(p, "gone")
  /\ UNCHANGED <<dispatch, saved, recorded, tries, env>>

DispatchTo(s, st) == dispatch' = [dispatch EXCEPT ![s] = st]
Open(s) == dispatch[s] \in {"pending", "running", "waiting_hitl"}

\* fail_dispatch: a dispatch cancelled meanwhile stays as it is.
FailDispatch(s) == IF Open(s) THEN DispatchTo(s, "failed") ELSE UNCHANGED dispatch

-----------------------------------------------------------------------------
(* One step: dispatch_agent_step                                             *)

CreateDispatch(s) ==
  /\ At(s, "new")
  /\ DispatchTo(s, "pending")
  /\ Goto(s, "start")
  /\ UNCHANGED <<run, saved, recorded, tries, env>>

\* A refused step_started leaves the dispatch that was created as it is.
RecordStarted(s) ==
  \/ Load(s, "start", CanRecordStep(run), "started", "err")
  \/ /\ Commits(s, "started")
     /\ run' = StepStarted(seen[s], s, s)
     /\ Goto(s, "begin")
     /\ started' = started \cup {s}
     /\ UNCHANGED <<dispatch, saved, recorded, tries, questions, timeouts, cancels>>
  \/ /\ Refused(s, "started")
     /\ Goto(s, "err")
     /\ UNCHANGED <<run, dispatch, saved, recorded, tries, env>>

\* The agent is resolved, the dispatch marked running.
BeginTurn(s) ==
  /\ At(s, "begin")
  /\ \/ /\ Open(s)
        /\ DispatchTo(s, "running")
        /\ Goto(s, "turn")
     \/ /\ FailDispatch(s)
        /\ Goto(s, "failed")
  /\ UNCHANGED <<run, saved, recorded, tries, env>>

Conclude(s) ==
  /\ At(s, "turn")
  /\ IF dispatch[s] = "running"
     THEN DispatchTo(s, "completed") /\ Goto(s, "ok")
     ELSE Goto(s, "failed") /\ UNCHANGED dispatch
  /\ UNCHANGED <<run, saved, recorded, tries, env>>

TurnFails(s) ==
  /\ At(s, "turn")
  /\ FailDispatch(s)
  /\ Goto(s, "failed")
  /\ UNCHANGED <<run, saved, recorded, tries, env>>

\* record_hitl_requested: the question of one step parks the whole run.
Ask(s) ==
  \/ /\ At(s, "turn")
     /\ questions < MaxQuestions
     /\ questions' = questions + 1
     /\ Goto(s, "ask")
     /\ UNCHANGED <<run, dispatch, saved, recorded, tries, timeouts, cancels, started>>
  \/ Load(s, "ask", CanPark(run) /\ dispatch[s] = "running", "asking", "refused")
  \/ /\ Commits(s, "asking") /\ dispatch[s] = "running"
     /\ run' = HitlRequested(seen[s], s, s, s)
     /\ DispatchTo(s, "waiting_hitl")
     /\ Goto(s, "await")
     /\ UNCHANGED <<saved, recorded, tries, env>>
  \/ /\ At(s, "asking") /\ (run.status # seen[s].status \/ dispatch[s] # "running")
     /\ Goto(s, "refused")
     /\ UNCHANGED <<run, dispatch, saved, recorded, tries, env>>
  \/ /\ At(s, "refused")
     /\ FailDispatch(s)
     /\ Goto(s, "failed")
     /\ UNCHANGED <<run, saved, recorded, tries, env>>

\* The human's answer (one step here: a row that waits is moved by nothing else
\* that keeps its status) and the continuation of the same dispatch.
Answer(s) ==
  /\ At(s, "await")
  /\ run.status = "waiting_hitl" /\ run.active_hitl_request_id = s
  /\ dispatch[s] = "waiting_hitl"
  /\ run' = HitlAnswered(run, s)
  /\ DispatchTo(s, "running")
  /\ Goto(s, "turn")
  /\ UNCHANGED <<saved, recorded, tries, env>>

\* The timeout covers the wait for the human; the row keeps waiting.
StepTimeout(s) ==
  /\ pc[s] \in {"begin", "turn", "ask", "asking", "await"}
  /\ timeouts < MaxTimeouts
  /\ timeouts' = timeouts + 1
  /\ FailDispatch(s)
  /\ Goto(s, "failed")
  /\ UNCHANGED <<run, saved, recorded, tries, questions, cancels, started>>

\* execute_agent_step_with_error_mode, prepare_dispatch_retry
AfterFailure(s) ==
  /\ At(s, "failed")
  /\ LET retries == Mode[s] = "retry" /\ tries[s] < MaxRetries /\ dispatch[s] = "failed"
     IN  IF retries
         THEN /\ DispatchTo(s, "pending")
              /\ tries' = [tries EXCEPT ![s] = @ + 1]
              /\ Goto(s, "begin")
         ELSE /\ Goto(s, IF Mode[s] = "skip" THEN "none" ELSE "err")
              /\ UNCHANGED <<dispatch, tries>>
  /\ UNCHANGED <<run, saved, recorded, env>>

Step(s) ==
  \/ CreateDispatch(s) \/ RecordStarted(s) \/ BeginTurn(s) \/ Conclude(s) \/ TurnFails(s)
  \/ Ask(s) \/ Answer(s) \/ StepTimeout(s) \/ AfterFailure(s)

-----------------------------------------------------------------------------
(* The executor of the run                                                   *)

Ended == {"ok", "none", "err"}

CurrentFailedFirst ==    \* mutant: errors are looked for before results are saved
  LET left == Steps \ recorded
      bad  == {s \in left : pc[s] = "err"}
  IN  Min(IF bad = {} THEN left ELSE bad)

\* join_all keeps the order of the definition.
Current == Min(Steps \ recorded)

SavedAlone(s) == {s}    \* mutant: the step's own copy of the variables is saved

Saved(s) == saved \cup {s}

JoinAll ==
  /\ At(Main, "join")
  /\ \A s \in Steps : pc[s] \in Ended
  /\ Goto(Main, "record")
  /\ UNCHANGED <<run, dispatch, saved, recorded, tries, env>>

ResultRow(s) ==
  CASE pc[s] = "ok"   -> StepCompleted(seen[Main], s, Saved(s))
    [] pc[s] = "none" -> StepSkipped(seen[Main], s)
    [] pc[s] = "err"  -> StepFailed(seen[Main], s)

RecordResult ==
  \/ Load(Main, "record", CanRecordStep(run), "result", "gone")
  \/ /\ Commits(Main, "result")
     /\ run' = ResultRow(Current)
     /\ IF pc[Current] = "err"
        THEN Goto(Main, "fail") /\ UNCHANGED <<saved, recorded>>
        ELSE /\ saved' = IF pc[Current] = "ok" THEN Saved(Current) ELSE saved
             /\ recorded' = recorded \cup {Current}
             /\ Goto(Main, IF recorded' = Steps THEN "end" ELSE "record")
     /\ UNCHANGED <<dispatch, tries, env>>

\* The first error ends the run; the results after it are not recorded.
RecordRunFailed ==
  \/ Load(Main, "fail", IsInterruptible(run), "failRun", "gone")
  \/ Commit(Main, "failRun", RunFailed(seen[Main], Current))

RecordRunCompleted ==
  \/ Load(Main, "end", CanRecordStep(run), "complete", "gone")
  \/ Commit(Main, "complete", RunCompleted(seen[Main]))

\* A transition refused at its commit ends the execution with an error.
RefusedAtCommit ==
  /\ \E l \in {"result", "failRun", "complete"} : Refused(Main, l)
  /\ Goto(Main, "gone")
  /\ UNCHANGED <<run, dispatch, saved, recorded, tries, env>>

Executor ==
  \/ JoinAll \/ RecordResult \/ RecordRunFailed \/ RecordRunCompleted \/ RefusedAtCommit

-----------------------------------------------------------------------------
(* Operators                                                                 *)

PauseRun(o) ==
  \/ Load(o, "ready", IsInterruptible(run), "pausing", "gone")
  \/ Commit(o, "pausing", RunPaused(seen[o]))

CancelRun(o) ==
  \/ Load(o, "ready", ~IsTerminal(run), "cancelling", "gone")
  \/ Commit(o, "cancelling", RunCancelled(seen[o]))

RequestRefused(o) ==
  /\ \E l \in {"pausing", "cancelling"} : Refused(o, l)
  /\ Goto(o, "gone")
  /\ UNCHANGED <<run, dispatch, saved, recorded, tries, env>>

\* cancel_dispatch_control_plane: a waiting dispatch releases the run, and the
\* step that waits gets an error.
CancelDispatch(s) ==
  /\ Open(s)
  /\ cancels < MaxCancels
  /\ cancels' = cancels + 1
  /\ DispatchTo(s, "cancelled")
  /\ run' = IF dispatch[s] = "waiting_hitl" /\ run.status = "waiting_hitl"
            THEN HitlReleased(run) ELSE run
  /\ IF At(s, "await") THEN Goto(s, "failed") ELSE UNCHANGED <<pc, seen>>
  /\ UNCHANGED <<saved, recorded, tries, questions, timeouts, started>>

Operator(o) == PauseRun(o) \/ CancelRun(o) \/ RequestRefused(o)

\* The executor has left, or a step waits for a human who need not answer.
Rest ==
  /\ \/ At(Main, "gone")
     \/ \E s \in Steps : At(s, "await")
  /\ UNCHANGED vars

Next ==
  \/ \E s \in Steps : Step(s) \/ CancelDispatch(s)
  \/ Executor
  \/ \E o \in Operators : Operator(o)
  \/ Rest

Spec == Init /\ [][Next]_vars

-----------------------------------------------------------------------------
\* Type correctness of the row, the dispatches and the steps.
TypeOK ==
  /\ run \in Row(Steps, Steps, Steps, Steps)
  /\ dispatch \in [Steps -> {"none", "pending", "running", "waiting_hitl"} \cup Terminal]
  /\ saved \subseteq recorded /\ recorded \subseteq Steps
  /\ tries \in [Steps -> 0 .. MaxRetries]

Unfinished(s) == dispatch[s] # "completed"

\* A run that completed saved the output of every step whose dispatch completed,
\* also those that ended while another one waited for a human, and left a step
\* out only when its mode is to be skipped.
SavedTogether ==
  run.status = "completed" =>
    \A s \in Steps : IF s \in run.vars_json THEN dispatch[s] = "completed"
                     ELSE Mode[s] = "skip" /\ dispatch[s] \in {"failed", "cancelled"}

\* A run fails in the name of the first step, in the order of the definition,
\* that failed: those before it are saved or skipped, and its own dispatch did
\* not complete.  A step that may be skipped fails the run only when another
\* step's question had parked it before the step could start.
FailsInOrder ==
  run.status = "failed" =>
    LET s == run.current_step_id
    IN  /\ Unfinished(s)
        /\ Mode[s] # "skip" \/ (s \notin started /\ questions > 0)
        /\ \A t \in 1 .. s - 1 :
             t \in run.vars_json \/ (Mode[t] = "skip" /\ Unfinished(t))
=============================================================================
