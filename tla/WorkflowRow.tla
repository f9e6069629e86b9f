------------------------------ MODULE WorkflowRow ------------------------------
(***************************************************************************)
(* The durable row of one workflow run (table workflow_run) and the row    *)
(* that each transition of the workflow engine writes.                     *)
(*                                                                         *)
(* Every method of TransitionWriter loads the row, tests a guard on what   *)
(* it loaded, builds the complete next row from that copy, and commits it  *)
(* with a compare-and-swap on the status alone.  The guards and the next   *)
(* rows are here, as operators; when they are loaded and when they are     *)
(* committed is for the modules that have variables.                       *)
(***************************************************************************)
EXTENDS Naturals

CONSTANT None        \* an absent optional column (SQL NULL, Rust None)

ASSUME NoneAssumption == None \notin {"signal", "hitl"}

Terminal == {"completed", "failed", "cancelled"}

Statuses == Terminal \cup
            {"pending", "running", "waiting_signal", "waiting_hitl", "paused"}

(***************************************************************************)
(* The set of rows over given step numbers, waiting references, dispatch   *)
(* ids and HITL request ids.  Step 0 is a NULL current_step_id: steps are  *)
(* numbered from 1.  vars_json is the set of the steps whose output is     *)
(* saved in it.                                                            *)
(***************************************************************************)
Row(steps, refs, dispatches, requests) ==
  [status                 : Statuses,
   current_step_id        : steps \cup {0},
   waiting_kind           : {None, "signal", "hitl"},
   waiting_ref            : refs \cup {None},
   active_dispatch_id     : dispatches \cup {None},
   active_hitl_request_id : requests \cup {None},
   vars_json              : SUBSET steps,
   error_json             : BOOLEAN,
   completed_at           : BOOLEAN]

\* A run as the engine creates it: nobody executes it yet.
CreatedRow ==
  [status                 |-> "pending",
   current_step_id        |-> 0,
   waiting_kind           |-> None,
   waiting_ref            |-> None,
   active_dispatch_id     |-> None,
   active_hitl_request_id |-> None,
   vars_json              |-> {},
   error_json             |-> FALSE,
   completed_at           |-> FALSE]

(***************************************************************************)
(* Guards, on the row a transition loaded.                                 *)
(***************************************************************************)
NoActiveHitl(r) == r.active_hitl_request_id = None

WaitingModeAvailable(r) == r.waiting_kind # "signal" /\ NoActiveHitl(r)

\* step_started, step_completed, step_failed, step_skipped and run_completed.
CanRecordStep(r) == r.status = "running" /\ NoActiveHitl(r)

CanPark(r) == r.status = "running" /\ WaitingModeAvailable(r)

IsInterruptibleOrPaused(r) ==    \* mutant: a paused run is interruptible too
  r.status \in {"running", "waiting_signal", "paused"}

\* run_paused, run_failed and signal_consumed.
IsInterruptible(r) == r.status \in {"running", "waiting_signal"}

IsTerminal(r) == r.status \in Terminal

(***************************************************************************)
(* Next rows.                                                              *)
(***************************************************************************)
\* The four columns that say what a run waits for and which work it owns.
Detached(r) == [r EXCEPT !.waiting_kind = None, !.waiting_ref = None,
                         !.active_dispatch_id = None,
                         !.active_hitl_request_id = None]

RunStarted(r, first) ==
  [Detached(r) EXCEPT !.status = "running", !.current_step_id = first]

\* Waiting columns are left as they were loaded.
StepStarted(r, step, dispatch) ==
  [r EXCEPT !.current_step_id = step, !.active_dispatch_id = dispatch,
            !.active_hitl_request_id = None]

StepSkipped(r, step) == StepStarted(r, step, None)

StepFailed(r, step) == [StepStarted(r, step, None) EXCEPT !.error_json = TRUE]

\* vars is the executor's own memory: it replaces the column.
StepCompleted(r, step, vars) ==
  [StepStarted(r, step, None) EXCEPT !.vars_json = vars, !.error_json = FALSE]

WaitingForSignal(r, step, name) ==
  [r EXCEPT !.status = "waiting_signal", !.current_step_id = step,
            !.waiting_kind = "signal", !.waiting_ref = name,
            !.active_dispatch_id = None, !.active_hitl_request_id = None]

\* The executor found a stored signal at the wait step.
SignalConsumed(r, next) ==
  [Detached(r) EXCEPT !.status = "running", !.current_step_id = next]

\* submit_signal delivers to a parked run: the active columns stay as loaded.
SignalDelivered(r, next) ==
  [r EXCEPT !.status = "running", !.current_step_id = next,
            !.waiting_kind = None, !.waiting_ref = None]

HitlRequested(r, step, dispatch, request) ==
  [r EXCEPT !.status = "waiting_hitl", !.current_step_id = step,
            !.waiting_kind = "hitl", !.waiting_ref = request,
            !.active_dispatch_id = dispatch,
            !.active_hitl_request_id = request]

HitlAnsweredStillWaiting(r, dispatch) ==    \* mutant: waiting columns stay
  [r EXCEPT !.status = "running", !.active_dispatch_id = dispatch,
            !.active_hitl_request_id = None]

HitlAnswered(r, dispatch) ==
  [Detached(r) EXCEPT !.status = "running", !.active_dispatch_id = dispatch]

\* A cancelled or timed out request: the same row for both.
HitlReleased(r) == [Detached(r) EXCEPT !.status = "running"]

RunCompleted(r) ==
  [Detached(r) EXCEPT !.status = "completed", !.error_json = FALSE,
                      !.completed_at = TRUE]

\* The failing step replaces current_step_id only when there is one.
RunFailed(r, step) ==
  [Detached(r) EXCEPT !.status = "failed", !.error_json = TRUE,
                      !.completed_at = TRUE,
                      !.current_step_id = IF step = 0 THEN @ ELSE step]

RunPausedStillWaiting(r) == [r EXCEPT !.status = "paused"]    \* mutant

RunPaused(r) == [Detached(r) EXCEPT !.status = "paused"]

RunResumed(r) == [Detached(r) EXCEPT !.status = "running"]

\* active_hitl_request_id stays as it was loaded.
RunCancelled(r) ==
  [r EXCEPT !.status = "cancelled", !.completed_at = TRUE,
            !.waiting_kind = None, !.waiting_ref = None,
            !.active_dispatch_id = None]

RunNotRecovered(r) == r    \* mutant: the scan leaves running rows as they are

\* The recovery scan at boot: active columns stay.
RunRecovered(r) ==
  IF r.status = "running"
  THEN [r EXCEPT !.status = "paused", !.waiting_kind = None,
                 !.waiting_ref = None]
  ELSE r
================================================================================
