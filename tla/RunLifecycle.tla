----------------------------- MODULE RunLifecycle ------------------------------
(***************************************************************************)
(* What the engine promises about the life of a workflow run, without      *)
(* saying how: which status may follow which, and that a run which waits   *)
(* says for what, in one step with the status.                             *)
(***************************************************************************)
CONSTANTS None, Awaitable    \* what a run can wait for: signals, human answers

VARIABLES status, awaited

Finished == {"completed", "failed", "cancelled"}

Waiting == {"waiting_signal", "waiting_hitl"}

Init == status = "pending" /\ awaited = None

Become(s) == status' = s /\ awaited' = None

Start == status = "pending" /\ Become("running")

Park == /\ status = "running" /\ status' \in Waiting
        /\ awaited' \in Awaitable

Wake == status \in Waiting /\ Become("running")

\* An operator's pause, or recovery after a crash.  A run that waits for a human
\* answer is not paused.
Pause == status \in {"running", "waiting_signal"} /\ Become("paused")

Resume == status = "paused" /\ Become("running")

Complete == status = "running" /\ Become("completed")

Fail == status \in {"running", "waiting_signal"} /\ Become("failed")

Cancel == status \notin Finished /\ Become("cancelled")

Next == \/ Start \/ Park \/ Wake \/ Pause \/ Resume
        \/ Complete \/ Fail \/ Cancel

Spec == Init /\ [][Next]_<<status, awaited>>
================================================================================
