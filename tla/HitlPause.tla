------------------------------- MODULE HitlPause -------------------------------
(***************************************************************************)
(* A workflow run in the middle of its one agent step.  The agent may stop *)
(* and ask a human (a HITL request); the step's executor then waits for    *)
(* the answer on a oneshot channel, and whoever decides the request wakes  *)
(* it.  Here are the executor of the step, the requests that answer or     *)
(* cancel a question, cancel the dispatch, cancel or pause the run, the    *)
(* sweep that expires questions, the step timeout, and crash and recovery. *)
(*                                                                         *)
(* Three durable rows (run, dispatch, request) are read one by one before  *)
(* they are written in one transaction; the registry of senders is in      *)
(* memory and is touched in a step of its own.                             *)
(***************************************************************************)
EXTENDS WorkflowRow, FiniteSets

CONSTANTS
  Main,         \* the executor that started the step
  Clients,      \* requests from outside, and the sweep
  ActionOf,     \* what each client does
  ErrorMode,    \* the step's error mode: "fail", "skip" or "retry"
  MaxRetries,   \* retries of the "retry" mode
  MaxQuestions, \* bound: questions the agent asks
  Expirable,    \* the questions that have a timeout_at
  Timers,       \* the timers that may strike: "step" and "run"
  MaxTimeouts,  \* bound: how often they strike
  MaxCrashes    \* bound: crashes of the daemon

Actions == {"answer", "cancelRequest", "cancelDispatch", "cancelRun",
            "pauseRun", "sweep"}

Requests == 1 .. MaxQuestions

ASSUME HitlAssumption ==
  /\ ActionOf \in [Clients -> Actions]
  /\ IsFiniteSet(Clients) /\ Main \notin Clients
  /\ ErrorMode \in {"fail", "skip", "retry"} /\ Timers \subseteq {"step", "run"}
  /\ {MaxRetries, MaxQuestions, MaxTimeouts, MaxCrashes} \subseteq Nat
  /\ None \notin Nat \cup Clients \cup {Main, "answer", "closed"}
  /\ Expirable \subseteq Requests

Doing(action) == {c \in Clients : ActionOf[c] = action}

Executors == {Main} \cup Doing("answer")

Procs == {Main} \cup Clients

ThisStep == 1
ThisDispatch == "d"

VARIABLES
  run,       \* the durable run row
  dispatch,  \* the durable dispatch row of the step: status and attempt
  hitl,      \* status of each request row, "none" before it is inserted
  registry,  \* request -> executor whose sender is registered
  inbox,     \* executor -> what its channel brought: an answer, or it closed
  up, pc,
  about,     \* the request a process is dealing with
  seen,      \* the rows a process read and has not used yet
  tries,     \* executor: retries used
  timeouts, crashes

durable == <<run, dispatch, hitl>>
live    == <<registry, inbox>>
env     == <<up, timeouts, crashes>>
vars    == <<run, dispatch, hitl, registry, inbox, up, pc, about, seen, tries,
             timeouts, crashes>>

Blank == [run |-> None, dispatch |-> None, requests |-> {}]

\* The executor has recorded step_started, with a dispatch just created.
Init ==
  /\ run = StepStarted(RunStarted(CreatedRow, ThisStep), ThisStep, ThisDispatch)
  /\ dispatch = [status |-> "pending", attempt |-> 1]
  /\ hitl = [h \in Requests |-> "none"]
  /\ registry = [h \in Requests |-> None]
  /\ inbox = [p \in Executors |-> None]
  /\ up = TRUE
  /\ pc = [p \in Procs |-> IF p = Main THEN "ensure" ELSE ActionOf[p]]
  /\ about = [p \in Procs |-> None]
  /\ seen = [p \in Procs |-> Blank]
  /\ tries = [p \in Executors |-> 0]
  /\ timeouts = 0 /\ crashes = 0

--------------------------------------------------------------------------------
(***************************************************************************)
(* Reading and writing rows.                                               *)
(***************************************************************************)
At(p, t) == up /\ pc[p] = t

\* p has used, or gives up, what it read.
Goto(p, label) == /\ pc' = [pc EXCEPT ![p] = label]
                  /\ seen' = [seen EXCEPT ![p] = Blank]

ReadRun(p, t, guard, otherwise) ==
  /\ At(p, t) /\ seen[p].run = None
  /\ IF guard THEN seen' = [seen EXCEPT ![p].run = run] /\ UNCHANGED pc
              ELSE Goto(p, otherwise)
  /\ UNCHANGED <<durable, live, env, about, tries>>

ReadDispatch(p, t, guard, otherwise) ==
  /\ At(p, t) /\ seen[p].dispatch = None
  /\ IF guard THEN seen' = [seen EXCEPT ![p].dispatch = dispatch] /\ UNCHANGED pc
              ELSE Goto(p, otherwise)
  /\ UNCHANGED <<durable, live, env, about, tries>>

Unconditional(p) == TRUE    \* mutant: the update does not test the status

\* Both updates are conditional on the status, and on nothing else.
RunUnmoved(p) == run.status = seen[p].run.status

DispatchUnmoved(p) == dispatch.status = seen[p].dispatch.status

CommitRun(p, t, row, next, otherwise) ==
  /\ At(p, t) /\ seen[p].run # None
  /\ IF RunUnmoved(p) THEN run' = row /\ Goto(p, next)
                      ELSE UNCHANGED run /\ Goto(p, otherwise)
  /\ UNCHANGED <<dispatch, hitl, live, env, about, tries>>

DispatchFirstAttempt(p, status) ==    \* mutant: the attempt is not carried over
  [status |-> status, attempt |-> 1]

\* The row update_dispatch_row writes: everything else as it was read.
DispatchTo(p, status) == [seen[p].dispatch EXCEPT !.status = status]

\* A legal change of the dispatch alone: read it, then update it conditionally.
MoveDispatch(p, t, from, next, row, otherwise) ==
  \/ ReadDispatch(p, t, dispatch.status \in from, otherwise)
  \/ /\ At(p, t) /\ seen[p].dispatch # None
     /\ IF DispatchUnmoved(p) THEN dispatch' = row /\ Goto(p, next)
                              ELSE UNCHANGED dispatch /\ Goto(p, otherwise)
     /\ UNCHANGED <<run, hitl, live, env, about, tries>>

Open == {"pending", "running", "waiting_hitl"}

--------------------------------------------------------------------------------
(***************************************************************************)
(* The executor of the step.                                               *)
(***************************************************************************)
EnsureDispatchRunning(p) ==
  /\ At(p, "ensure")
  /\ Goto(p, CASE dispatch.status = "running" -> "turn"
                [] dispatch.status \in {"pending", "waiting_hitl"} -> "mark"
                [] OTHER -> "error")
  /\ UNCHANGED <<durable, live, env, about, tries>>

\* The dispatch is read again before it is updated.
MarkDispatchRunning(p) ==
  MoveDispatch(p, "mark", {"pending", "waiting_hitl"}, "turn",
               DispatchTo(p, "running"), "error")

\* Bound: a number is left for every question being asked.
CanAsk == Cardinality({h \in Requests : hitl[h] = "none"})
            > Cardinality({p \in Executors : pc[p] = "ask"})

\* The agent's turn ends with a result, a question or an error.
AgentTurn(p) ==
  /\ At(p, "turn")
  /\ \/ Goto(p, "conclude")
     \/ CanAsk /\ Goto(p, "ask")
     \/ Goto(p, "turnFailed")
  /\ UNCHANGED <<durable, live, env, about, tries>>

CompleteDispatch(p) ==
  MoveDispatch(p, "conclude", {"running"}, "stepCompleted",
               DispatchTo(p, "completed"), "error")

(***************************************************************************)
(* record_hitl_requested: guards on the run, then on the dispatch, then    *)
(* one transaction that inserts the request and moves both rows.           *)
(***************************************************************************)
NextRequest == CHOOSE h \in Requests : hitl[h] = "none"

RecordHitlRequested(p) ==
  \/ ReadRun(p, "ask", run.status = "running" /\ WaitingModeAvailable(run), "error")
  \/ /\ seen[p].run # None
     /\ ReadDispatch(p, "ask", dispatch.status = "running", "error")
  \/ /\ At(p, "ask") /\ seen[p].run # None /\ seen[p].dispatch # None
     /\ IF RunUnmoved(p) /\ DispatchUnmoved(p)
        THEN LET h == NextRequest
             IN /\ hitl' = [hitl EXCEPT ![h] = "pending"]
                /\ run' = HitlRequested(seen[p].run, ThisStep, ThisDispatch, h)
                /\ dispatch' = DispatchTo(p, "waiting_hitl")
                /\ about' = [about EXCEPT ![p] = h]
                /\ Goto(p, "register")
        ELSE Goto(p, "error") /\ UNCHANGED <<durable, about>>
     /\ UNCHANGED <<live, env, tries>>

\* The sender is registered only now that the request is durable.
RegisterSender(p) ==
  /\ At(p, "register")
  /\ registry' = [registry EXCEPT ![about[p]] = p]
  /\ inbox' = [inbox EXCEPT ![p] = None]
  /\ Goto(p, "await")
  /\ UNCHANGED <<durable, env, about, tries>>

\* An answer continues the dispatch, a closed channel is the step's error.
WaitForHitlAnswer(p) ==
  /\ At(p, "await") /\ inbox[p] # None
  /\ Goto(p, IF inbox[p] = "answer" THEN "ensure" ELSE "error")
  /\ inbox' = [inbox EXCEPT ![p] = None]
  /\ UNCHANGED <<durable, registry, env, about, tries>>

\* Errors of fail_dispatch are ignored.
FailDispatch(p, t, next) ==
  MoveDispatch(p, t, Open, next, DispatchTo(p, "failed"), next)

AfterErrorOnceMore(p) ==    \* mutant: one retry too many
  CASE ErrorMode = "retry" /\ tries[p] <= MaxRetries -> "retry"
    [] ErrorMode = "skip" /\ p = Main -> "stepSkipped"
    [] OTHER -> "stepFailed"

\* execute_agent_step_with_error_mode; a resumed step must have an output.
AfterError(p) ==
  CASE ErrorMode = "retry" /\ tries[p] < MaxRetries -> "retry"
    [] ErrorMode = "skip" /\ p = Main -> "stepSkipped"
    [] OTHER -> "stepFailed"

PrepareDispatchRetry(p) ==
  \/ ReadDispatch(p, "retry", dispatch.status = "failed", "stepFailed")
  \/ /\ At(p, "retry") /\ seen[p].dispatch # None
     /\ IF DispatchUnmoved(p)
        THEN /\ dispatch' = [status |-> "pending",
                             attempt |-> seen[p].dispatch.attempt + 1]
             /\ tries' = [tries EXCEPT ![p] = @ + 1]
             /\ Goto(p, "ensure")
        ELSE Goto(p, "stepFailed") /\ UNCHANGED <<dispatch, tries>>
     /\ UNCHANGED <<run, hitl, live, env, about>>

\* The timeout around the dispatch covers the wait for the human too.
Dispatching ==
  {"ensure", "mark", "turn", "turnFailed", "conclude", "ask", "register", "await"}

Interrupt(p, next) ==
  /\ up /\ timeouts < MaxTimeouts
  /\ timeouts' = timeouts + 1
  /\ inbox' = [inbox EXCEPT ![p] = None]
  /\ Goto(p, next)
  /\ UNCHANGED <<durable, registry, up, crashes, about, tries>>

StepTimeout(p) == "step" \in Timers /\ pc[p] \in Dispatching /\ Interrupt(p, "error")

\* The timeout around the whole run drops its executor wherever it is.
RunTimeout == "run" \in Timers /\ pc[Main] # "done" /\ Interrupt(Main, "done")

(***************************************************************************)
(* The end of the step.  Main stops at a refused transition; an executor   *)
(* rebuilt after a restart records the failure of the resume.              *)
(***************************************************************************)
Refused(p) == IF p = Main THEN "done" ELSE "resumeFailed"

RecordStepCompleted(p) ==
  \/ ReadRun(p, "stepCompleted", CanRecordStep(run), Refused(p))
  \/ CommitRun(p, "stepCompleted", StepCompleted(seen[p].run, ThisStep, {ThisStep}),
               "runCompleted", Refused(p))

RecordStepSkipped(p) ==
  \/ ReadRun(p, "stepSkipped", CanRecordStep(run), Refused(p))
  \/ CommitRun(p, "stepSkipped", StepSkipped(seen[p].run, ThisStep),
               "runCompleted", Refused(p))

RecordRunCompleted(p) ==
  \/ ReadRun(p, "runCompleted", CanRecordStep(run), Refused(p))
  \/ CommitRun(p, "runCompleted", RunCompleted(seen[p].run), "done", Refused(p))

RecordStepFailed(p, t, next, otherwise) ==
  \/ ReadRun(p, t, CanRecordStep(run), otherwise)
  \/ CommitRun(p, t, StepFailed(seen[p].run, ThisStep), next, otherwise)

RecordRunFailed(p, t, otherwise) ==
  \/ ReadRun(p, t, IsInterruptible(run), otherwise)
  \/ CommitRun(p, t, RunFailed(seen[p].run, ThisStep), otherwise, otherwise)

\* Where a process goes once it has dealt with a failed resume.
Idle(p) == IF p \in Doing("sweep") THEN "sweep" ELSE "done"

\* record_hitl_resume_failure: nothing to do for a finished run.
RecordHitlResumeFailure(p) ==
  \/ /\ At(p, "resumeFailed")
     /\ Goto(p, IF IsTerminal(run) THEN Idle(p) ELSE "markStep")
     /\ UNCHANGED <<durable, live, env, about, tries>>
  \/ RecordStepFailed(p, "markStep", "markRun", Idle(p))
  \/ RecordRunFailed(p, "markRun", Idle(p))

Execute(p) ==
  \/ EnsureDispatchRunning(p) \/ MarkDispatchRunning(p) \/ AgentTurn(p)
  \/ CompleteDispatch(p)      \/ RecordHitlRequested(p)
  \/ RegisterSender(p)        \/ WaitForHitlAnswer(p)
  \/ FailDispatch(p, "turnFailed", "error")
  \/ FailDispatch(p, "error", AfterError(p))
  \/ PrepareDispatchRetry(p)
  \/ RecordStepCompleted(p)   \/ RecordStepSkipped(p)
  \/ RecordRunCompleted(p)
  \/ RecordStepFailed(p, "stepFailed", "runFailed", Refused(p))
  \/ RecordRunFailed(p, "runFailed", Refused(p))
  \/ RecordHitlResumeFailure(p)

--------------------------------------------------------------------------------
(***************************************************************************)
(* Deciding a request.                                                     *)
(***************************************************************************)
\* The request names its run, which is read first.
ChooseRequest(c, t) ==
  /\ At(c, t) /\ seen[c].run = None
  /\ \E h \in Requests : hitl[h] # "none" /\ about' = [about EXCEPT ![c] = h]
  /\ seen' = [seen EXCEPT ![c].run = run]
  /\ UNCHANGED <<durable, live, env, pc, tries>>

\* Guards of answer, cancel and timeout; only an answer looks at the active one.
WaitsForAnswer(c) == /\ seen[c].run.status = "waiting_hitl"
                     /\ dispatch.status = "waiting_hitl"

IsActive(c) == seen[c].run.active_hitl_request_id = about[c]

CheckDispatch(c, t, guard, otherwise) ==
  seen[c].run # None /\ ReadDispatch(c, t, guard, otherwise)

UndecidedUnchecked(c, from) == TRUE    \* mutant: the request's status is not tested

\* The request is read inside the transaction.
Undecided(c, from) == hitl[about[c]] \in from

\* One transaction over the request, the dispatch and the run.
Decide(c, t, from, decision, status, row, next, otherwise) ==
  /\ At(c, t) /\ seen[c].run # None /\ seen[c].dispatch # None
  /\ IF Undecided(c, from) /\ DispatchUnmoved(c) /\ RunUnmoved(c)
     THEN /\ hitl' = [hitl EXCEPT ![about[c]] = decision]
          /\ dispatch' = DispatchTo(c, status)
          /\ run' = row
          /\ Goto(c, next)
     ELSE Goto(c, otherwise) /\ UNCHANGED durable
  /\ UNCHANGED <<live, env, about, tries>>

\* The sender of h is registered and its receiver still waits.
Listening(h) ==
  registry[h] # None /\ pc[registry[h]] = "await" /\ about[registry[h]] = h

\* remove(h) on the registry: the receiver, if any, gets what is sent.
Wake(h, what) ==
  /\ registry' = [registry EXCEPT ![h] = None]
  /\ inbox' = IF Listening(h) THEN [inbox EXCEPT ![registry[h]] = what] ELSE inbox

Answer(c) ==
  \/ ChooseRequest(c, "answer")
  \/ CheckDispatch(c, "answer", WaitsForAnswer(c) /\ IsActive(c), "done")
  \/ Decide(c, "answer", {"pending"}, "answered", "running",
            HitlAnswered(seen[c].run, ThisDispatch), "deliver", "done")

SentUnnoticed(c) == FALSE    \* mutant: the step is rebuilt although it was woken

\* The registered receiver takes the answer.
Sent(c) == Listening(about[c])

\* Live when the answer was taken; else c rebuilds the step's executor.
DeliverAnswer(c) ==
  /\ At(c, "deliver")
  /\ Goto(c, IF Sent(c) THEN "done" ELSE "ensure")
  /\ Wake(about[c], "answer")
  /\ UNCHANGED <<durable, env, about, tries>>

CancelRequest(c) ==
  \/ ChooseRequest(c, "cancelRequest")
  \/ CheckDispatch(c, "cancelRequest", WaitsForAnswer(c), "done")
  \/ Decide(c, "cancelRequest", {"pending"}, "cancelled", "failed",
            HitlReleased(seen[c].run), "detach", "done")

\* Dropping the sender closes the channel.
Detach(c) ==
  /\ At(c, "detach")
  /\ Goto(c, "done")
  /\ Wake(about[c], "closed")
  /\ UNCHANGED <<durable, env, about, tries>>

(***************************************************************************)
(* The sweep: expire_timed_out_requests commits on its own; the run and    *)
(* the dispatch follow in another transaction; then the waiter, or the     *)
(* failure of the run when nobody waits.  An error ends this round of the  *)
(* sweep, and the next one looks only for pending requests.                *)
(***************************************************************************)
Expire(c) ==
  /\ At(c, "sweep")
  /\ \E h \in Expirable :
       /\ hitl[h] = "pending"
       /\ hitl' = [hitl EXCEPT ![h] = "timed_out"]
       /\ about' = [about EXCEPT ![c] = h]
  /\ Goto(c, "expired")
  /\ UNCHANGED <<run, dispatch, live, env, tries>>

ExpirableWhilePending == {"pending"}    \* mutant: what is expired is refused

\* persist_hitl_timeout takes a request that the sweep has already marked.
TimesOut == {"pending", "timed_out"}

TimeOutRequest(c) ==
  \/ ReadRun(c, "expired", TRUE, "sweep")
  \/ CheckDispatch(c, "expired", WaitsForAnswer(c), "sweep")
  \/ Decide(c, "expired", TimesOut, "timed_out", "failed",
            HitlReleased(seen[c].run), "wakeExpired", "sweep")

WaiterAssumed(c) == TRUE    \* mutant: nobody fails the run of a lost waiter

\* A sender in the registry counts, whether or not its receiver still waits.
HadWaiter(c) == registry[about[c]] # None

DetachExpired(c) ==
  /\ At(c, "wakeExpired")
  /\ Goto(c, IF HadWaiter(c) THEN "sweep" ELSE "resumeFailed")
  /\ Wake(about[c], "closed")
  /\ UNCHANGED <<durable, env, about, tries>>

Sweep(c) == \/ Expire(c) \/ TimeOutRequest(c) \/ DetachExpired(c)
            \/ RecordHitlResumeFailure(c)

--------------------------------------------------------------------------------
(***************************************************************************)
(* Cancelling the dispatch, the operator, crash and recovery.              *)
(***************************************************************************)
(***************************************************************************)
(* cancel_dispatch_control_plane reads the dispatch, then the requests     *)
(* that are pending, then the run if the dispatch waited.  Label "listed"  *)
(* follows the second read.                                                *)
(***************************************************************************)
Pending == {h \in Requests : hitl[h] = "pending"}

ListPending(c) ==
  /\ At(c, "cancelDispatch") /\ seen[c].dispatch # None
  /\ seen' = [seen EXCEPT ![c].requests = Pending]
  /\ pc' = [pc EXCEPT ![c] = "listed"]
  /\ UNCHANGED <<durable, live, env, about, tries>>

PersistDispatchCancel(c) ==
  /\ At(c, "listed")
  /\ seen[c].dispatch.status = "waiting_hitl" => seen[c].run # None
  /\ LET releases == seen[c].run # None /\ seen[c].run.status = "waiting_hitl"
     IN IF /\ seen[c].requests \subseteq Pending
           /\ DispatchUnmoved(c) /\ (releases => RunUnmoved(c))
        THEN /\ hitl' = [h \in Requests |-> IF h \in seen[c].requests
                                            THEN "cancelled" ELSE hitl[h]]
             /\ dispatch' = DispatchTo(c, "cancelled")
             /\ run' = IF releases THEN HitlReleased(seen[c].run) ELSE run
             /\ IF seen[c].requests = {}
                THEN Goto(c, "done") /\ UNCHANGED about
                ELSE \E h \in seen[c].requests :
                       Goto(c, "detach") /\ about' = [about EXCEPT ![c] = h]
        ELSE Goto(c, "done") /\ UNCHANGED <<durable, about>>
  /\ UNCHANGED <<live, env, tries>>

CancelDispatch(c) ==
  \/ ReadDispatch(c, "cancelDispatch", dispatch.status \in Open, "done")
  \/ ListPending(c)
  \/ /\ seen[c].dispatch # None /\ seen[c].dispatch.status = "waiting_hitl"
     /\ ReadRun(c, "listed", TRUE, "done")
  \/ PersistDispatchCancel(c)

CancelRun(c) ==
  \/ ReadRun(c, "cancelRun", ~IsTerminal(run), "done")
  \/ CommitRun(c, "cancelRun", RunCancelled(seen[c].run), "done", "done")

PauseRun(c) ==
  \/ ReadRun(c, "pauseRun", IsInterruptible(run), "done")
  \/ CommitRun(c, "pauseRun", RunPaused(seen[c].run), "done", "done")

Request(c) == \/ Answer(c) \/ DeliverAnswer(c) \/ CancelRequest(c) \/ Detach(c)
              \/ CancelDispatch(c) \/ CancelRun(c) \/ PauseRun(c)

\* Requests not made yet are made after the restart; the sweep starts again.
AfterRestart(p) ==
  IF \/ p \in Doing("sweep")
     \/ p # Main /\ pc[p] = ActionOf[p] /\ seen[p] = Blank
  THEN ActionOf[p] ELSE "done"

Crash ==
  /\ up /\ crashes < MaxCrashes
  /\ crashes' = crashes + 1 /\ up' = FALSE
  /\ pc' = [p \in Procs |-> AfterRestart(p)]
  /\ seen' = [p \in Procs |-> Blank]
  /\ registry' = [h \in Requests |-> None]
  /\ inbox' = [p \in Executors |-> None]
  /\ UNCHANGED <<durable, about, tries, timeouts>>

Recover ==
  /\ ~up /\ up' = TRUE
  /\ run' = RunRecovered(run)
  /\ UNCHANGED <<dispatch, hitl, live, pc, about, seen, tries, timeouts, crashes>>

\* Nothing moves while a question is open that nobody decides, or all is done.
Stuck == /\ up
         /\ \A p \in Procs : pc[p] \in {"done", "await", "sweep", "answer", "cancelRequest"}
         /\ UNCHANGED vars

Next ==
  \/ \E p \in Executors : Execute(p) \/ StepTimeout(p)
  \/ \E c \in Clients : Request(c) \/ Sweep(c)
  \/ RunTimeout \/ Crash \/ Recover \/ Stuck

\* Tasks run on; the sweep is called again and again; the daemon is restarted.
\* Nobody has to answer, to cancel or to pause.
Fairness == /\ \A p \in Executors : WF_vars(Execute(p))
            /\ \A c \in Clients : WF_vars(DeliverAnswer(c) \/ Detach(c) \/ Sweep(c))
            /\ WF_vars(Recover)

Spec == Init /\ [][Next]_vars

FairSpec == Spec /\ Fairness
--------------------------------------------------------------------------------
(***************************************************************************)
(* Properties.                                                             *)
(***************************************************************************)
RunRow == Row({ThisStep}, Requests, {ThisDispatch}, Requests)

DispatchRow == [status : Open \cup {"completed", "failed", "cancelled"},
                attempt : Nat \ {0}]

Decided == {"answered", "cancelled", "timed_out"}

Labels == {"ensure", "mark", "turn", "conclude", "ask", "register", "await",
           "turnFailed", "error", "retry", "stepCompleted", "stepSkipped",
           "stepFailed", "runFailed", "runCompleted", "resumeFailed", "markStep",
           "markRun", "deliver", "detach", "expired", "wakeExpired", "listed", "done"}
          \cup Actions

\* Type invariant of the machine.
TypeOK ==
  /\ run \in RunRow
  /\ dispatch \in DispatchRow
  /\ hitl \in [Requests -> Decided \cup {"none", "pending"}]
  /\ registry \in [Requests -> Executors \cup {None}]
  /\ inbox \in [Executors -> {None, "answer", "closed"}]
  /\ up \in BOOLEAN
  /\ pc \in [Procs -> Labels]
  /\ about \in [Procs -> Requests \cup {None}]
  /\ seen \in [Procs -> [run : RunRow \cup {None},
                         dispatch : DispatchRow \cup {None},
                         requests : SUBSET Requests]]
  /\ tries \in [Executors -> 0 .. MaxRetries]
  /\ timeouts \in 0 .. MaxTimeouts /\ crashes \in 0 .. MaxCrashes

\* A run waits for a human exactly when its row names the question as the one
\* it waits for and as the active one, with the dispatch that asked it.
OneWaitingMode ==
  IF run.status = "waiting_hitl"
  THEN /\ run.waiting_kind = "hitl"
       /\ run.waiting_ref = run.active_hitl_request_id
       /\ run.active_hitl_request_id # None
       /\ run.active_dispatch_id = ThisDispatch
  ELSE run.waiting_kind = None /\ run.waiting_ref = None

\* A run that waits for a human can be answered: its dispatch waits with it, and
\* its question is pending, or the sweep that expired it is about to release it.
WaitingIsAnswerable ==
  run.status = "waiting_hitl" =>
    LET h == run.active_hitl_request_id
    IN /\ dispatch.status = "waiting_hitl"
       /\ \/ hitl[h] = "pending"
          \/ hitl[h] = "timed_out" /\ \E c \in Doing("sweep") :
                                         pc[c] = "expired" /\ about[c] = h

\* The agent is asked to continue by one executor at a time: an answer is either
\* taken by the executor that waits or rebuilds one, never both.
AtMostOneTurn ==
  \A p, q \in Executors : pc[p] = "turn" /\ pc[q] = "turn" => p = q

Working == Labels \ (Actions \cup {"await", "listed", "expired", "done"})

\* While the daemon is up, a running run has somebody who will move it: an executor
\* at work or just woken, or whoever decided its question and must still wake one.
NoStrandedRun ==
  up /\ run.status = "running" =>
    \E p \in Procs : pc[p] \in Working \/ (pc[p] = "await" /\ inbox[p] # None)

\* A question is decided once: an answer, a cancellation and an expiry that race
\* are told apart inside their transactions (ensure_pending_transition).
DecisionIsFinal ==
  [][\A h \in Requests : hitl[h] \in Decided => hitl'[h] = hitl[h]]_hitl

\* An answer is accepted only for the question the run waits on at the moment of
\* the commit, although run and dispatch were read before the transaction.
AnswersTheActiveQuestion ==
  [][\A h \in Requests : hitl[h] = "pending" /\ hitl'[h] = "answered"
       => run.active_hitl_request_id = h /\ run.status = "waiting_hitl"]_hitl

LegalMoves ==
  {<<"pending", "running">>, <<"pending", "failed">>, <<"pending", "cancelled">>,
   <<"running", "waiting_hitl">>, <<"running", "completed">>,
   <<"running", "failed">>, <<"running", "cancelled">>,
   <<"waiting_hitl", "running">>, <<"waiting_hitl", "failed">>,
   <<"waiting_hitl", "cancelled">>,
   <<"failed", "pending">>, <<"cancelled", "pending">>}

\* What reaches the dispatch row is a legal transition with the attempt it must
\* have, also where no transition check is made (update_dispatch_row inside the
\* HITL transactions) and where the row was read before another attempt began.
DispatchIsLegal ==
  [][/\ <<dispatch.status, dispatch'.status>> \in LegalMoves
     /\ dispatch'.attempt =
          IF dispatch'.status = "pending" THEN dispatch.attempt + 1
                                          ELSE dispatch.attempt]_dispatch

\* The statuses and what they wait for, as RunLifecycle has them.
Lifecycle == INSTANCE RunLifecycle
               WITH status <- run.status, awaited <- run.waiting_ref,
                    Awaitable <- Requests

\* Every write of the row, from whichever stale copy, is a step of the lifecycle:
\* a run finished or paused meanwhile is never revived by an answer or a sweep.
FollowsLifecycle == [][Lifecycle!Next]_<<run.status, run.waiting_ref>>

\* A question that timed out does not keep its run waiting.
ExpiryReleases ==
  \A h \in Requests :
    hitl[h] = "timed_out"
      ~> ~(run.status = "waiting_hitl" /\ run.active_hitl_request_id = h)

\* The step comes to an end: in the end the run waits for a human or is finished.
RunSettles == <>[](run.status # "running")
================================================================================
