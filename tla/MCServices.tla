----------------------------- MODULE MCServices -----------------------------
(* The kernel's services beside the workflow engine, and the fan-out group of   *)
(* the engine: the looper, approvals, the cron scheduler, event triggers.  They *)
(* share no variable, and what one may start in another (a run that a cron job  *)
(* or an event starts) is an input of the other's model, so nothing is lost by  *)
(* taking them one at a time: a behaviour takes a step of one service and from  *)
(* then on only of that one, the others staying as they were created.          *)
EXTENDS MCTask, LooperTask, Triggers

CONSTANTS
  Requests, Operators, MaxPending, MaxRecent,
  Jobs, Intervals, OneShot, Period, MaxErrors, MaxJobEdits,
  Absence, K, MaxRetries, Controllers, MaxQuestions, MaxTimeouts, MaxCancels

VARIABLES
  status, shown, view, link, subtask, dispatch, exec, pc, mem, seen, inflight, cursor,
  token, stopped, call, callSeen, daemon, wanted, crashes, controls, turns, late, filled,
  pending, recent, channel, caller, result, op, told,
  job, at, batch, firing, manual, since, jobEdits,
  run, sent, stepPc, loaded, saved, results, tries, questions, timeouts, cancels, started

looper   == <<status, shown, view, link, subtask, dispatch, exec, pc, mem, seen, inflight,
              cursor, token, stopped, call, callSeen, daemon, wanted, crashes, controls,
              turns, late, filled>>
approval == <<pending, recent, channel, caller, result, op, told>>
cron     == <<job, at, batch, firing, manual, since, jobEdits>>
fanOut   == <<run, sent, stepPc, loaded, saved, results, tries, questions, timeouts,
              cancels, started>>

OneAgent == [r \in Requests |-> "agent"]
Kinds == [j \in Jobs |-> IF j \in Intervals THEN "every" ELSE "at"]
Modes == [s \in 1 .. K |-> IF s = K THEN "skip" ELSE "retry"]

\* What the services ask of their parameters.
ASSUME ServicesAssumption ==
  /\ MaxRecent \in Nat
  /\ Period \in Nat \ {0} /\ MaxErrors \in Nat \ {0}
  /\ "none" \notin Jobs
  /\ Absence \notin {"signal", "hitl"}
  /\ K \in Nat \ {0} /\ MaxRetries \in Nat
  /\ Controllers \cap (0 .. K) = {}

\* The services are taken with the theorems about them.
Lo == INSTANCE Looper_proofs
Ap == INSTANCE Approval_proofs WITH AgentOf <- OneAgent, pc <- caller
Cr == INSTANCE Cron_proofs WITH KindOf <- Kinds, edits <- jobEdits, MaxEdits <- MaxJobEdits
Fo == INSTANCE FanOut_proofs WITH None <- Absence, Mode <- Modes, Operators <- Controllers,
                                  dispatch <- sent, pc <- stepPc, seen <- loaded,
                                  recorded <- results

ServicesInit == Init /\ Lo!Init /\ Ap!Init /\ Cr!Init /\ Fo!Init

\* The requests that start a looper run do not overlap (Overlap has those that do);
\* the others come at any time.
ServicesNext ==
  \/ /\ Lo!Init /\ Ap!Init /\ Cr!Init /\ Fo!Init
     /\ Next
     /\ UNCHANGED <<looper, approval, cron, fanOut>>
  \/ /\ Init /\ Ap!Init /\ Cr!Init /\ Fo!Init
     /\ Lo!Next /\ Lo!OneStart'
     /\ UNCHANGED <<vars, approval, cron, fanOut>>
  \/ /\ Init /\ Lo!Init /\ Cr!Init /\ Fo!Init
     /\ Ap!Next
     /\ UNCHANGED <<vars, looper, cron, fanOut>>
  \/ /\ Init /\ Lo!Init /\ Ap!Init /\ Fo!Init
     /\ Cr!Next
     /\ UNCHANGED <<vars, looper, approval, fanOut>>
  \/ /\ Init /\ Lo!Init /\ Ap!Init /\ Cr!Init
     /\ Fo!Next
     /\ UNCHANGED <<vars, looper, approval, cron>>

\* Nothing is asked of a service nobody uses: the fair actions of the looper and
\* of the scheduler are disabled until there is a run and a job.
ServicesSpec ==
  /\ ServicesInit
  /\ [][ServicesNext]_<<vars, looper, approval, cron, fanOut>>
  /\ Lo!Fairness /\ Cr!Fairness

-----------------------------------------------------------------------------
\* Type correctness of every service.
ServicesTypeOK == TypeOK /\ Lo!TypeOK /\ Ap!TypeOK /\ Cr!TypeOK /\ Fo!TypeOK

\* The properties of the other services, stated in their modules.
WithinPolicy         == Lo!WithinPolicy           \* parallelism
DependenciesFirst    == Lo!DependenciesFirst      \* order of the subtasks
RepeatedOnlyByCrash  == Lo!RepeatedOnlyByCrash    \* turns of a subtask
NothingLeftBehind    == Lo!NothingLeftBehind      \* a finished run is finished
CancelStopsSelection == Lo!CancelStopsSelection   \* dispatches after a cancel
WithinScope          == Lo!WithinScope            \* no subtask outside the scope
OutcomeJustified     == Lo!OutcomeJustified       \* completed or failed for cause
LeavesOnlyWhenPaused == Lo!LeavesOnlyWhenPaused   \* no running run abandoned
RuntimesLeave        == Lo!RuntimesLeave          \* every runtime ends
HistoryAgrees        == Ap!HistoryAgrees          \* an agent acts on what was recorded
ClaimedOncePerPeriod == Cr!ClaimedOncePerPeriod   \* no period is claimed twice
KeepsRunning         == Cr!KeepsRunning           \* an enabled job keeps running
SavedTogether        == Fo!SavedTogether          \* a completed group saved all
FailsInOrder         == Fo!FailsInOrder           \* a failed group failed for cause
=============================================================================
