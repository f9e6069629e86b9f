------------------------------- MODULE Looper -------------------------------
(* The durable task runner of crates/openfang-kernel/src/looper.rs, the store  *)
(* of crates/openfang-memory/src/looper.rs and the control plane of kernel.rs  *)
(* that starts, pauses, resumes, cancels and recovers a looper run.            *)
(*                                                                             *)
(* One looper run over the subtasks 1..N of one task, in position order.  The  *)
(* durable state is the run row, one execution-view row per subtask, the       *)
(* subtask rows and the dispatch rows; a runtime (a tokio task) keeps a copy   *)
(* of the view in memory.  Each write of the code that a crash or another      *)
(* actor can come before is a step of its own.                                 *)
EXTENDS LooperTask, Sequences, FiniteSets, FiniteSetsExt

None     == 0
Terminal == {"completed", "failed", "cancelled"}

VARIABLES
  status,    \* looper_run.status
  shown,     \* looper_run.current_subtask_id and progress
  view,      \* looper_subtask rows: status, or "absent"
  link,      \* looper_subtask.dispatch_id
  subtask,   \* subtask.status
  dispatch,  \* agent_dispatch rows created for the run, in order
  exec,      \* the spawned executor of each dispatch
  pc, mem, seen, inflight, cursor,  \* a runtime: step, execution_view,
             \* looper_run.status last read, in_flight, the subtask at hand
  token,     \* the entry of looper_runtime_tokens for the run
  stopped,   \* runtimes whose cancellation token is cancelled
  call, callSeen,  \* a control request: step, status it read
  daemon,    \* "up", "stopping" (shutdown called) or "down"
  wanted,    \* the scope the run was requested with
  crashes, controls,  \* counters for the bounds
  turns,     \* history: agent turns each subtask was given
  late,      \* history: dispatches created while the run was cancelled
  filled     \* rows of the scope the request has written

durable == <<status, shown, view, link, subtask, dispatch>>
local   == <<pc, mem, seen, inflight, cursor>>
control == <<token, stopped, call, callSeen, daemon, crashes, controls>>
history == <<turns, late, wanted, filled>>
vars    == <<durable, exec, local, control, history>>

-----------------------------------------------------------------------------
(* What the runtime computes from a view                                     *)

InitialRowVerbatim(st) == st    \* mutant: the subtask's status is copied

InitialRow(st) ==
  IF st \in Terminal THEN st ELSE "pending"

Settled(v, st) == {s \in Subtasks : v[s] = st}

Projection(v) ==
  [current   |-> IF Settled(v, "running") = {} THEN None ELSE Min(Settled(v, "running")),
   completed |-> Cardinality(Settled(v, "completed")),
   failed    |-> Cardinality(Settled(v, "failed"))]

ReadyOnceSettled(v, s) ==    \* mutant: any settled dependency will do
  /\ v[s] = "pending"
  /\ \A t \in DependsOn[s] : v[t] \in Terminal

ReadyWithoutRow(v, s) ==    \* mutant: a subtask without a row counts as pending
  /\ v[s] \in {"pending", "absent"}
  /\ \A t \in DependsOn[s] : v[t] = "completed"

Ready(v, s) ==
  /\ v[s] = "pending"
  /\ \A t \in DependsOn[s] : v[t] = "completed"

InFlight(r) == {s \in Subtasks : inflight[r][s] # None}

SelectedUnbounded(r) ==    \* mutant: the policy's limit is not consulted
  LET ready == {s \in Subtasks \ InFlight(r) : Ready(mem[r], s)}
  IN  IF ready = {} THEN None ELSE Min(ready)

\* select_next_subtask: the first ready subtask in position order, and nothing
\* when it may not share the run with the subtasks in flight.
Selected(r) ==
  LET ready == {s \in Subtasks \ InFlight(r) : Ready(mem[r], s)}
  IN  IF \/ Cardinality(InFlight(r)) >= MaxParallel
         \/ ~ (InFlight(r) \subseteq Parallelizable)
         \/ ready = {}
      THEN None
      ELSE LET s == Min(ready)
           IN  IF s \in Parallelizable \/ InFlight(r) = {} THEN s ELSE None

-----------------------------------------------------------------------------
Absent == [s \in Subtasks |-> "absent"]
Idle   == [s \in Subtasks |-> None]

\* A scope names planned subtasks, whose dependencies it has or are completed.
ScopeAccepted(scope, plan) ==
  \A s \in scope : /\ plan[s] = "planned"
                   /\ \A t \in DependsOn[s] \ scope : plan[t] = "completed"

Init ==
  /\ status = "absent"
  /\ shown = Projection(Absent)
  /\ subtask = [s \in Subtasks |-> "planned"]
  /\ view = Absent
  /\ link = Idle
  /\ dispatch = <<>>
  /\ exec = <<>>
  /\ pc = [r \in Runtimes |-> "off"]
  /\ mem = [r \in Runtimes |-> Absent]
  /\ seen = [r \in Runtimes |-> "pending"]
  /\ inflight = [r \in Runtimes |-> Idle]
  /\ cursor = [r \in Runtimes |-> None]
  /\ token = None
  /\ stopped = {}
  /\ call = [c \in Callers |-> "free"]
  /\ callSeen = [c \in Callers |-> "pending"]
  /\ daemon = "up"
  /\ crashes = 0 /\ controls = 0
  /\ turns = [s \in Subtasks |-> 0]
  /\ late = 0
  /\ wanted = {} /\ filled = {}

Goto(r, l)   == pc' = [pc EXCEPT ![r] = l]
Sync(v)      == shown' = Projection(v)
SetRow(s, st) == view' = [view EXCEPT ![s] = st]

-----------------------------------------------------------------------------
(* The runtime: LooperRuntime::run                                           *)

\* ensure_execution_view: rows are created when there are none at all.
Load(r) ==
  /\ pc[r] = "load"
  /\ LET fresh == view = Absent
     IN  /\ mem' = [mem EXCEPT ![r] =
                      [s \in Subtasks |-> IF fresh THEN InitialRow(subtask[s]) ELSE view[s]]]
         /\ Goto(r, IF fresh THEN "create" ELSE "repair")
  /\ UNCHANGED <<durable, exec, seen, inflight, cursor, control, history>>

Prepared(r) ==
  /\ mem' = [mem EXCEPT ![r] = view]
  /\ Sync(view)
  /\ Goto(r, "top")
  /\ UNCHANGED <<view, link, dispatch>>

\* Each subtask gets a row; one that another writer has added (the pair of run
\* and subtask is unique) is an error, which fails the run.
CreateRow(r) ==
  /\ pc[r] = "create"
  /\ LET s == cursor[r] + 1
     IN  IF cursor[r] = N
         THEN /\ Prepared(r)
              /\ cursor' = [cursor EXCEPT ![r] = None]
              /\ UNCHANGED status
         ELSE IF view[s] = "absent"
         THEN /\ SetRow(s, mem[r][s])
              /\ cursor' = [cursor EXCEPT ![r] = s]
              /\ UNCHANGED <<status, shown, link, dispatch, pc, mem>>
         ELSE /\ status' = "failed"
              /\ shown' = [shown EXCEPT !.current = None]
              /\ cursor' = [cursor EXCEPT ![r] = None]
              /\ Goto(r, "leave")
              /\ UNCHANGED <<view, link, dispatch, mem>>
  /\ UNCHANGED <<subtask, exec, seen, inflight, control, history>>

Open(d) == dispatch[d].status \in {"pending", "running"}

\* ensure_execution_view, mark_interrupted_dispatch_failed.  A crash between its
\* writes leaves a row that the next repair treats in the same way.
RepairRow(r) ==
  /\ pc[r] = "repair"
  /\ LET broken == {s \in Subtasks : mem[r][s] = "running"}
     IN  IF broken = {} THEN Prepared(r)
         ELSE LET s == Min(broken)
              IN  /\ SetRow(s, "pending")
                  /\ link' = [link EXCEPT ![s] = None]
                  /\ dispatch' = IF link[s] # None /\ Open(link[s])
                                 THEN [dispatch EXCEPT ![link[s]].status = "failed"]
                                 ELSE dispatch
                  /\ mem' = [mem EXCEPT ![r][s] = "pending"]
                  /\ UNCHANGED <<shown, pc>>
  /\ UNCHANGED <<status, subtask, exec, seen, inflight, cursor, control, history>>

WaitOrStop(r) == IF InFlight(r) = {} THEN "idle" ELSE "join"

\* The head of the loop reads the status, and the cancellation token after it.
Top(r) ==
  /\ pc[r] = "top"
  /\ seen' = [seen EXCEPT ![r] = status]
  /\ Sync(mem[r])
  /\ Goto(r, "decide")
  /\ UNCHANGED <<status, view, link, subtask, dispatch, exec, mem, inflight, cursor, control, history>>

MayDispatchUnlessFailed(r) ==    \* mutant: neither status nor token is consulted
  Settled(mem[r], "failed") = {}

MayDispatch(r) ==
  /\ seen[r] = "running"
  /\ r \notin stopped
  /\ Settled(mem[r], "failed") = {}

Decide(r) ==
  /\ pc[r] = "decide"
  /\ Goto(r, IF MayDispatch(r) THEN "select" ELSE WaitOrStop(r))
  /\ UNCHANGED <<durable, exec, mem, seen, inflight, cursor, control, history>>

\* create_pending_dispatch
Select(r) ==
  /\ pc[r] = "select"
  /\ LET s == Selected(r)
     IN  IF s = None
         THEN /\ Goto(r, WaitOrStop(r))
              /\ UNCHANGED <<dispatch, exec, inflight, cursor, late>>
         ELSE /\ Len(dispatch) < MaxDispatches
              /\ dispatch' = Append(dispatch, [of |-> s, status |-> "pending"])
              /\ exec' = Append(exec, "none")
              /\ inflight' = [inflight EXCEPT ![r][s] = Len(dispatch')]
              /\ cursor' = [cursor EXCEPT ![r] = s]
              /\ late' = late + (IF status = "cancelled" THEN 1 ELSE 0)
              /\ Goto(r, "mark")
  /\ UNCHANGED <<status, shown, view, link, subtask, mem, seen, control, turns, wanted, filled>>

\* The dispatch of the subtask at hand.
AtHand(r) == inflight[r][cursor[r]]

MarkRunning(r) ==
  /\ pc[r] = "mark"
  /\ SetRow(cursor[r], "running")
  /\ mem' = [mem EXCEPT ![r][cursor[r]] = "running"]
  /\ Goto(r, "link")
  /\ UNCHANGED <<status, shown, link, subtask, dispatch, exec, seen, inflight, cursor, control, history>>

SetDispatch(r) ==
  /\ pc[r] = "link"
  /\ link' = [link EXCEPT ![cursor[r]] = AtHand(r)]
  /\ Goto(r, "begin")
  /\ UNCHANGED <<status, shown, view, subtask, dispatch, exec, mem, seen, inflight, cursor, control, history>>

Begin(r) ==
  /\ pc[r] = "begin"
  /\ subtask' = [subtask EXCEPT ![cursor[r]] = "in_progress"]
  /\ exec' = [exec EXCEPT ![AtHand(r)] = "start"]
  /\ Sync(mem[r])
  /\ Goto(r, "select")
  /\ cursor' = [cursor EXCEPT ![r] = None]
  /\ UNCHANGED <<status, view, link, dispatch, mem, seen, inflight, control, history>>

OutcomeOptimistic(r) ==    \* mutant: a run with no subtask left always completes
  IF seen[r] \in {"paused", "cancelled"} THEN status
  ELSE IF seen[r] \in {"completed", "failed"} THEN seen[r]
  ELSE IF Settled(mem[r], "pending") = {} THEN "completed" ELSE "failed"

OutcomeUnwritten(r) ==    \* mutant: completion is not written to the run
  IF seen[r] \in {"completed", "failed"} THEN seen[r]
  ELSE IF Settled(mem[r], "pending") = {} THEN status ELSE "failed"

\* determine_idle_outcome: the status is the one read at the top of the loop,
\* and the outcome is written without looking at the row again.
Outcome(r) ==
  IF seen[r] \in {"paused", "cancelled"} THEN status
  ELSE IF seen[r] \in {"completed", "failed"} THEN seen[r]
  ELSE IF Settled(mem[r], "pending") = {} /\ Settled(mem[r], "failed") = {}
  THEN "completed" ELSE "failed"

Finish(r) ==
  /\ pc[r] = "idle"
  /\ status' = Outcome(r)
  /\ shown' = [shown EXCEPT !.current = None]
  /\ Goto(r, "leave")
  /\ UNCHANGED <<view, link, subtask, dispatch, exec, mem, seen, inflight, cursor, control, history>>

Leave(r) ==
  /\ pc[r] = "leave"
  /\ token' = None
  /\ Goto(r, "off")
  /\ stopped' = stopped \ {r}
  /\ mem' = [mem EXCEPT ![r] = Absent]
  /\ seen' = [seen EXCEPT ![r] = "pending"]
  /\ UNCHANGED <<durable, exec, inflight, cursor,
                 call, callSeen, daemon, crashes, controls, history>>

Join(r) ==
  /\ pc[r] = "join"
  /\ \E s \in InFlight(r) :
       /\ exec[inflight[r][s]] \in {"ok", "err"}
       /\ cursor' = [cursor EXCEPT ![r] = s]
  /\ Goto(r, "settle")
  /\ UNCHANGED <<durable, exec, mem, seen, inflight, control, history>>

Succeeded(r) == exec[AtHand(r)] = "ok"

SettleDispatchSuccessOnly(r) ==    \* mutant: a failed attempt leaves its dispatch alone
  /\ pc[r] = "settle"
  /\ Goto(r, "settleRow")
  /\ UNCHANGED <<durable, exec, mem, seen, inflight, cursor, control, history>>

\* settle_dispatch_success_if_needed, settle_dispatch_failure_if_needed
SettleDispatch(r) ==
  /\ pc[r] = "settle"
  /\ LET d == AtHand(r)
     IN  dispatch' = IF ~Succeeded(r) /\ Open(d)
                     THEN [dispatch EXCEPT ![d].status = "failed"] ELSE dispatch
  /\ Goto(r, "settleRow")
  /\ UNCHANGED <<status, shown, view, link, subtask, exec, mem, seen, inflight, cursor, control, history>>

Result(r) == IF Succeeded(r) THEN "completed" ELSE "failed"

SettleRow(r) ==
  /\ pc[r] = "settleRow"
  /\ SetRow(cursor[r], Result(r))
  /\ Goto(r, "settleSubtask")
  /\ UNCHANGED <<status, shown, link, subtask, dispatch, exec, mem, seen, inflight, cursor, control, history>>

SettleSubtask(r) ==
  /\ pc[r] = "settleSubtask"
  /\ subtask' = [subtask EXCEPT ![cursor[r]] = Result(r)]
  /\ inflight' = [inflight EXCEPT ![r][cursor[r]] = None]
  /\ mem' = [mem EXCEPT ![r] = view]
  /\ cursor' = [cursor EXCEPT ![r] = None]
  /\ Goto(r, "top")
  /\ UNCHANGED <<status, shown, view, link, dispatch, exec, seen, control, history>>

Runtime(r) ==
  \/ Load(r)   \/ CreateRow(r)   \/ RepairRow(r)   \/ Top(r) \/ Decide(r)
  \/ Select(r) \/ MarkRunning(r) \/ SetDispatch(r) \/ Begin(r)
  \/ Finish(r) \/ Leave(r)       \/ Join(r)
  \/ SettleDispatch(r) \/ SettleRow(r) \/ SettleSubtask(r)

-----------------------------------------------------------------------------
(* The executor of one dispatch: execute_looper_subtask_dispatch             *)

ExecTo(d, l) == exec' = [exec EXCEPT ![d] = l]
DispatchTo(d, st) == dispatch' = [dispatch EXCEPT ![d].status = st]

\* Resolving the assignee may fail; then ensure_dispatch_running.
StartTurn(d) ==
  /\ exec[d] = "start"
  /\ \/ ExecTo(d, "err") /\ UNCHANGED <<dispatch, turns>>
     \/ /\ Open(d)
        /\ DispatchTo(d, "running")
        /\ ExecTo(d, "turn")
        /\ turns' = [turns EXCEPT ![dispatch[d].of] = @ + 1]
  /\ UNCHANGED <<status, shown, view, link, subtask, local, control, late, wanted, filled>>

\* The turn ends with a result, or with an error or a question (fail_dispatch).
EndTurn(d) ==
  /\ exec[d] = "turn"
  /\ \/ ExecTo(d, "finish") /\ UNCHANGED dispatch
     \/ /\ ExecTo(d, "err")
        /\ IF Open(d) THEN DispatchTo(d, "failed") ELSE UNCHANGED dispatch
  /\ UNCHANGED <<status, shown, view, link, subtask, local, control, history>>

FinalizeWhenRunning(d) ==    \* mutant: a dispatch cancelled meanwhile is never answered
  /\ exec[d] = "finish"
  /\ dispatch[d].status = "running"
  /\ DispatchTo(d, "completed") /\ ExecTo(d, "ok")
  /\ UNCHANGED <<status, shown, view, link, subtask, local, control, history>>

\* finalize_completed_workflow_dispatch_call
Finalize(d) ==
  /\ exec[d] = "finish"
  /\ IF dispatch[d].status = "running"
     THEN DispatchTo(d, "completed") /\ ExecTo(d, "ok")
     ELSE ExecTo(d, "err") /\ UNCHANGED dispatch
  /\ UNCHANGED <<status, shown, view, link, subtask, local, control, history>>

Executor(d) == StartTurn(d) \/ EndTurn(d) \/ Finalize(d)

-----------------------------------------------------------------------------
(* The control plane                                                         *)

CallTo(c, l) == call' = [call EXCEPT ![c] = l]

\* create_looper_run: the row is written before the scope is looked at.  The
\* task may have been worked on before.
Create(c) ==
  /\ call[c] = "free" /\ daemon = "up"
  /\ status = "absent"
  /\ status' = "pending"
  /\ subtask' \in Plans
  /\ wanted' \in Scopes
  /\ CallTo(c, IF wanted' = {} THEN "check" ELSE "seed")
  /\ UNCHANGED <<shown, view, link, dispatch, exec, local, token, stopped, callSeen,
                 daemon, crashes, controls, turns, late, filled>>

\* seed_looper_subtask_scope: a scope that is refused leaves its run pending.
Seed(c) ==
  /\ call[c] = "seed"
  /\ CallTo(c, IF ScopeAccepted(wanted, subtask) THEN "fill" ELSE "free")
  /\ UNCHANGED <<durable, exec, local, token, stopped, callSeen, daemon, crashes, controls, history>>

\* Then its rows are written one by one; one that is there already (a resume
\* has started the run meanwhile) ends the request with an error.
Fill(c) ==
  /\ call[c] = "fill"
  /\ LET s == Min(wanted \ filled)
     IN  IF view[s] = "absent"
         THEN /\ SetRow(s, "pending")
              /\ filled' = filled \union {s}
              /\ IF filled' = wanted THEN CallTo(c, "check") ELSE UNCHANGED call
         ELSE CallTo(c, "free") /\ UNCHANGED <<view, filled>>
  /\ UNCHANGED <<status, shown, link, subtask, dispatch, exec, local, token, stopped, callSeen,
                 daemon, crashes, controls, turns, late, wanted>>

Request(c) ==
  /\ call[c] = "free"
  /\ daemon = "up"
  /\ controls < MaxControls
  /\ controls' = controls + 1

ClearCurrent ==
  shown' = IF token = None THEN [shown EXCEPT !.current = None] ELSE shown

Pause(c) ==
  /\ Request(c)
  /\ status \in {"pending", "running"}
  /\ status' = "paused"
  /\ ClearCurrent
  /\ UNCHANGED <<view, link, subtask, dispatch, exec, local,
                 token, stopped, call, callSeen, daemon, crashes, history>>

Resume(c) ==
  /\ Request(c)
  /\ status = "paused"
  /\ status' = "running"
  /\ CallTo(c, "check")
  /\ UNCHANGED <<shown, view, link, subtask, dispatch, exec, local,
                 token, stopped, callSeen, daemon, crashes, history>>

Cancel(c) ==
  /\ Request(c)
  /\ status \notin Terminal \union {"absent"}
  /\ status' = "cancelled"
  /\ ClearCurrent
  /\ stopped' = stopped \union ({token} \ {None})
  /\ UNCHANGED <<view, link, subtask, dispatch, exec, local,
                 token, call, callSeen, daemon, crashes, history>>

\* cancel_dispatch_control_plane
CancelDispatch(c, d) ==
  /\ Request(c)
  /\ Open(d)
  /\ DispatchTo(d, "cancelled")
  /\ UNCHANGED <<status, shown, view, link, subtask, exec, local,
                 token, stopped, call, callSeen, daemon, crashes, history>>

CheckStartStatusOnly(c) ==    \* mutant: a runtime at work is not noticed
  /\ call[c] = "check"
  /\ LET refused == status \in Terminal \union {"paused"}
     IN  /\ CallTo(c, IF refused THEN "free" ELSE "launch")
         /\ callSeen' = [callSeen EXCEPT ![c] = IF refused THEN @ ELSE status]
  /\ UNCHANGED <<durable, exec, local, token, stopped, daemon, crashes, controls, history>>

\* start_looper_runtime_with_executor: the token is looked for, the row read ...
CheckStart(c) ==
  /\ call[c] = "check"
  /\ LET refused == token # None \/ status \in Terminal \union {"paused"}
     IN  /\ CallTo(c, IF refused THEN "free" ELSE "launch")
         /\ callSeen' = [callSeen EXCEPT ![c] = IF refused THEN @ ELSE status]
  /\ UNCHANGED <<durable, exec, local, token, stopped, daemon, crashes, controls, history>>

Unused == {r \in Runtimes : pc[r] = "off"}

Spawn ==
  /\ Unused # {}
  /\ LET r == Min(Unused)
     IN  /\ token' = r
         /\ Goto(r, "load")
         /\ stopped' = IF daemon = "stopping" THEN stopped \union {r} ELSE stopped

\* ... and, some steps later, a pending run is marked running and the token
\* inserted, whatever happened in between.
Launch(c) ==
  /\ call[c] = "launch"
  /\ status' = IF callSeen[c] = "pending" THEN "running" ELSE status
  /\ Spawn
  /\ CallTo(c, "free")
  /\ callSeen' = [callSeen EXCEPT ![c] = "pending"]
  /\ UNCHANGED <<shown, view, link, subtask, dispatch, exec, mem, seen, inflight, cursor,
                 daemon, crashes, controls, history>>

-----------------------------------------------------------------------------
(* Shutdown, crash and boot                                                  *)

\* OpenFangKernel::shutdown: the tokens are cancelled, the tasks go on until the
\* process exits.
Shutdown ==
  /\ daemon = "up" /\ status # "absent"
  /\ crashes < MaxCrashes
  /\ daemon' = "stopping"
  /\ stopped' = stopped \union {r \in Runtimes : pc[r] # "off"}
  /\ UNCHANGED <<durable, exec, local, token, call, callSeen, crashes, controls, history>>

\* The process exits, after a shutdown or without one: its tasks are gone.
Exit ==
  /\ daemon \in {"up", "stopping"} /\ status # "absent"
  /\ crashes < MaxCrashes
  /\ crashes' = crashes + 1
  /\ daemon' = "down"
  /\ exec' = [d \in DOMAIN exec |-> "none"]
  /\ pc' = [r \in Runtimes |-> "off"]
  /\ mem' = [r \in Runtimes |-> Absent]
  /\ seen' = [r \in Runtimes |-> "pending"]
  /\ inflight' = [r \in Runtimes |-> Idle]
  /\ cursor' = [r \in Runtimes |-> None]
  /\ token' = None
  /\ stopped' = {}
  /\ call' = [c \in Callers |-> "free"]
  /\ callSeen' = [c \in Callers |-> "pending"]
  /\ UNCHANGED <<durable, controls, history>>

\* recover_looper_runs_on_startup: running runs only, before requests are served.
Boot ==
  /\ daemon = "down"
  /\ daemon' = "up"
  /\ IF status = "running"
     THEN Spawn
     ELSE UNCHANGED <<pc, token, stopped>>
  /\ UNCHANGED <<durable, exec, mem, seen, inflight, cursor,
                 call, callSeen, crashes, controls, history>>

-----------------------------------------------------------------------------
Quiet == daemon = "up" /\ (\A r \in Runtimes : pc[r] = "off") /\ (\A c \in Callers : call[c] = "free")

\* Nothing left to do: the run is at rest and the operators are done with it.
Rest ==
  /\ Quiet
  /\ UNCHANGED vars

Next ==
  \/ \E r \in Runtimes : Runtime(r)
  \/ \E d \in DOMAIN exec : Executor(d)
  \/ \E c \in Callers :
       \/ Create(c) \/ Seed(c) \/ Fill(c) \/ Pause(c) \/ Resume(c) \/ Cancel(c) \/ CheckStart(c) \/ Launch(c)
       \/ \E d \in DOMAIN dispatch : CancelDispatch(c, d)
  \/ Shutdown \/ Exit \/ Boot
  \/ Rest

\* tokio polls every task that can make a step; an agent turn ends (the agent
\* loop has its own timeouts), and since an executor makes a few steps only, it
\* is enough that one of them goes on.  Requests need not be carried through,
\* and a process that stops need not be started again.
Fairness ==
  /\ \A r \in Runtimes : WF_vars(Runtime(r))
  /\ WF_vars(\E d \in DOMAIN exec : Executor(d))

Spec == Init /\ [][Next]_vars /\ Fairness

-----------------------------------------------------------------------------
RunStatus == Terminal \union {"absent", "pending", "running", "paused"}
RowStatus == Terminal \union {"pending", "running", "absent"}

\* Type correctness of the durable rows and of the runtimes' memory.
TypeOK ==
  /\ status \in RunStatus
  /\ shown \in [current : 0..N, completed : 0..N, failed : 0..N]
  /\ view \in [Subtasks -> RowStatus]
  /\ link \in [Subtasks -> 0..Len(dispatch)]
  /\ subtask \in [Subtasks -> Terminal \union {"planned", "in_progress"}]
  /\ Len(dispatch) = Len(exec) /\ Len(exec) <= MaxDispatches
  /\ mem \in [Runtimes -> [Subtasks -> RowStatus]]
  /\ inflight \in [Runtimes -> [Subtasks -> 0..Len(dispatch)]]
  /\ token \in Runtimes \union {None}

Working == {d \in DOMAIN exec : exec[d] \in {"start", "turn", "finish"}}
WorkingOn == {dispatch[d].of : d \in Working}

\* At no time does the run give agents more subtasks than its policy allows, a
\* subtask that may not share the run has it to itself, and no subtask is given
\* out while another dispatch of it is at work: through pauses, resumes that
\* meet the old runtime, cancelled dispatches and restarts.
WithinPolicy ==
  /\ Cardinality(Working) <= MaxParallel
  /\ Cardinality(WorkingOn) = Cardinality(Working)
  /\ Working # {} => WorkingOn \subseteq Parallelizable \/ Cardinality(Working) = 1

\* A subtask is given out, and counts as completed, only after the subtasks it
\* depends on completed in this run (or before it, when the run has no scope).
DependenciesFirst ==
  \A s \in Subtasks :
    view[s] \in {"running", "completed"} /\ (s \in WorkingOn \/ turns[s] > 0)
      => \A t \in DependsOn[s] : view[t] = "completed"

\* A subtask is given to an agent again only because the process died under it:
\* no pause, resume, cancelled dispatch or late settlement repeats work.
RepeatedOnlyByCrash ==
  \A s \in Subtasks : turns[s] <= 1 + crashes

\* A run that completed or failed by its runtime left nothing behind: no row
\* running, at most one dispatch open and at most one subtask still in progress
\* for each crash (the ones a crash caught between two writes).
NothingLeftBehind ==
  Quiet /\ status \in {"completed", "failed"} =>
    /\ Settled(view, "running") = {}
    /\ Cardinality({d \in DOMAIN dispatch : Open(d)}) <= crashes
    /\ Cardinality({s \in Subtasks : view[s] \in Terminal /\ subtask[s] = "in_progress"})
         <= crashes

\* A run requested for some subtasks gives out no other, whatever crash or resume
\* rebuilds its view; unless the request was refused, or the process died, before
\* one row of the scope was written, and the run it left was then resumed.
WithinScope ==
  filled # {} => \A s \in Subtasks : turns[s] > 0 => s \in wanted

\* After a cancel is committed the runtime may still fill the slots it had
\* decided to fill, and creates no other dispatch.
CancelStopsSelection == late <= MaxParallel

\* The runtime writes an outcome without looking: it completes a run only when
\* no row is pending or failed, and fails one only for a failed row, for a stop
\* it was told of, or for a subtask whose dependency was cancelled or is outside
\* the scope.
OutcomeJustified ==
  [][\A r \in Runtimes : pc[r] = "idle" /\ pc'[r] = "leave" =>
       /\ status' = "completed" /\ status # "completed" =>
            Settled(view, "pending") \union Settled(view, "failed") = {}
       /\ status' = "failed" /\ status # "failed" =>
            \/ Settled(view, "failed") # {}
            \/ r \in stopped
            \/ \E s \in Settled(view, "pending") : \E t \in DependsOn[s] : view[t] \in {"absent", "cancelled"}]_vars

\* A runtime walks away from a running run only if the run was paused when it
\* last looked (and was resumed since); in every other case the running run
\* keeps its runtime.
LeavesOnlyWhenPaused ==
  [][\A r \in Runtimes : pc[r] = "leave" /\ pc'[r] = "off" /\ daemon' = "up"
       => status # "running" \/ seen[r] = "paused"]_vars

\* Every runtime ends: none waits for a completion that will not come, and the
\* process does not come up with a runtime that has nothing to do and stays.
RuntimesLeave == (\E r \in Runtimes : pc[r] # "off") ~> (\A r \in Runtimes : pc[r] = "off")
=============================================================================
