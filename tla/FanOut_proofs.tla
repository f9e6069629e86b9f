----------------------------- MODULE FanOut_proofs -----------------------------
(***************************************************************************)
(* Proofs about FanOut, for any number of steps with any error modes, any  *)
(* number of retries and operators, and any number of questions, timeouts  *)
(* and cancelled dispatches.                                               *)
(*                                                                         *)
(* The steps of the group and the operators write the row from copies; the *)
(* executor writes it from its own memory.  They never undo each other:    *)
(* while the steps write, no output is saved yet, and once the executor    *)
(* writes, a row that runs is written by nobody else.                      *)
(***************************************************************************)
EXTENDS FanOut, WellFoundedInduction, TLAPS

\* A group has a step, and operators are not steps.
FanOutAssumption ==
  /\ K \in Nat \ {0}
  /\ Mode \in [Steps -> {"fail", "skip", "retry"}]
  /\ MaxRetries \in Nat
  /\ Operators \cap (Steps \cup {Main}) = {}

Rows == Row(Steps, Steps, Steps, Steps)

Joined == ~At(Main, "join")

\* The places of the steps, of the executor and of the operators.
Places ==
  {"new", "start", "started", "begin", "turn", "ask", "asking", "refused", "await", "failed",
   "ok", "none", "err",
   "join", "record", "result", "fail", "failRun", "end", "complete", "gone",
   "ready", "pausing", "cancelling"}

Types ==
  /\ TypeOK
  /\ pc \in [Procs -> Places]
  /\ seen \in [Procs -> Rows]
  /\ started \subseteq Steps
  /\ questions \in Nat

\* Where a step is (l) says what its dispatch (d) may be.
StepFits(s, l, d) ==
  /\ l \in {"new", "start", "started", "begin", "turn", "ask", "asking", "refused", "await",
            "failed"} \cup Ended
  /\ l = "new"                               => d = "none"
  /\ l \in {"start", "started", "begin"}     => d \in {"pending", "cancelled"}
  /\ l \in {"turn", "ask", "asking", "refused"} => d \in {"running", "cancelled"}
  /\ l = "await"                             => d = "waiting_hitl"
  /\ l \in {"failed", "none"}                => d \in {"failed", "cancelled"}
  /\ l = "ok"                                => d = "completed"
  /\ l = "err"                               => d \in {"pending", "failed", "cancelled"}
  /\ l = "none"                              => Mode[s] = "skip"
  /\ l \in {"new", "start", "started"}       => s \notin started
  /\ l = "err" /\ Mode[s] = "skip" =>
       /\ s \notin started
       /\ questions > 0 \/ run.status \in {"paused", "cancelled"}

StepInv == \A s \in Steps : StepFits(s, pc[s], dispatch[s])

\* Where the executor is says what it has recorded.
ExecutorInv ==
  /\ pc[Main] \in {"join", "record", "result", "fail", "failRun", "end", "complete", "gone"}
  /\ Joined => \A s \in Steps : pc[s] \in Ended
  /\ ~Joined => recorded = {} /\ saved = {}
  /\ saved = {s \in recorded : pc[s] = "ok"}
  /\ \A s \in recorded : pc[s] \in {"ok", "none"}
  /\ pc[Main] \in {"record", "result", "fail", "failRun"} => recorded # Steps
  /\ pc[Main] \in {"end", "complete"} => recorded = Steps
  /\ pc[Main] \in {"fail", "failRun"} => pc[Current] = "err"

\* The row, as long as it runs, holds what the executor has saved; when it has
\* ended, it says how.
RowInv ==
  /\ run.status \in Terminal \cup {"running", "waiting_hitl", "paused"}
  /\ run.status \notin {"paused", "cancelled"} => run.vars_json = saved
  /\ ~Joined => run.status \notin {"completed", "failed"}
  /\ run.status = "waiting_hitl" => questions > 0
  /\ run.status = "running" /\ questions = 0 => NoActiveHitl(run)
  /\ run.status = "completed" => pc[Main] = "gone" /\ recorded = Steps
  /\ run.status = "failed" =>
       /\ pc[Main] = "gone" /\ recorded # Steps
       /\ pc[Current] = "err" /\ run.current_step_id = Current

\* What a step tested on the copy (r) it holds; and that it asked when it waits.
StepCopyFits(l, r) ==
  /\ l \in {"started", "asking"} => r.status = "running" /\ r.vars_json = {}
  /\ l = "started" => NoActiveHitl(r)
  /\ l \in {"ask", "asking", "await"} => questions > 0

\* What the holders of copies tested, and that the executor's copy is the row.
CopyInv ==
  /\ \A s \in Steps : StepCopyFits(pc[s], seen[s])
  /\ \A o \in Operators :
       /\ pc[o] \in {"ready", "pausing", "cancelling", "gone"}
       /\ pc[o] = "pausing" => seen[o].status = "running"
       /\ pc[o] = "cancelling" => ~IsTerminal(seen[o])
  /\ pc[Main] \in {"result", "failRun", "complete"} =>
       /\ seen[Main].status = "running"
       /\ run.status = "running" => seen[Main] = run

IInv == Types /\ StepInv /\ ExecutorInv /\ RowInv /\ CopyInv

-----------------------------------------------------------------------------
(* Rows                                                                      *)

\* Every row that is written is a row.
LEMMA RowsFit ==
  ASSUME NEW r \in Rows, NEW s \in Steps, NEW v \in SUBSET Steps
  PROVE  /\ StepStarted(r, s, s) \in Rows
         /\ StepSkipped(r, s) \in Rows
         /\ StepFailed(r, s) \in Rows
         /\ StepCompleted(r, s, v) \in Rows
         /\ HitlRequested(r, s, s, s) \in Rows
         /\ HitlAnswered(r, s) \in Rows
         /\ HitlReleased(r) \in Rows
         /\ RunCompleted(r) \in Rows
         /\ RunFailed(r, s) \in Rows
         /\ RunPaused(r) \in Rows
         /\ RunCancelled(r) \in Rows
         /\ RunStarted(r, s) \in Rows
<1>. USE DEF Rows, Row, Statuses, Terminal
<1>1. StepStarted(r, s, s) \in Rows /\ StepSkipped(r, s) \in Rows /\ StepFailed(r, s) \in Rows
  BY DEF StepStarted, StepSkipped, StepFailed
<1>2. StepCompleted(r, s, v) \in Rows
  BY DEF StepStarted, StepCompleted
<1>3. HitlRequested(r, s, s, s) \in Rows /\ RunCancelled(r) \in Rows
  BY DEF HitlRequested, RunCancelled
<1>4. HitlAnswered(r, s) \in Rows /\ HitlReleased(r) \in Rows
  BY DEF HitlAnswered, HitlReleased, Detached
<1>5. RunPaused(r) \in Rows /\ RunCompleted(r) \in Rows
  BY DEF RunPaused, RunCompleted, Detached
<1>6. RunFailed(r, s) \in Rows /\ RunStarted(r, s) \in Rows
  BY DEF RunFailed, RunStarted, Detached
<1>. QED BY <1>1, <1>2, <1>3, <1>4, <1>5, <1>6

\* The row of a run that was just created, which stands for no copy.
LEMMA CreatedFits == CreatedRow \in Rows
  BY DEF CreatedRow, Rows, Row, Statuses, Terminal

\* The columns of the rows that are written.
LEMMA RowColumns ==
  ASSUME NEW r \in Rows, NEW s \in Steps, NEW v \in SUBSET Steps
  PROVE  /\ LET w == StepStarted(r, s, s)
            IN  w.status = r.status /\ w.vars_json = r.vars_json /\ NoActiveHitl(w)
         /\ LET w == StepSkipped(r, s)
            IN  w.status = r.status /\ w.vars_json = r.vars_json /\ NoActiveHitl(w)
         /\ LET w == StepFailed(r, s)
            IN  w.status = r.status /\ w.vars_json = r.vars_json /\ NoActiveHitl(w)
         /\ LET w == StepCompleted(r, s, v)
            IN  w.status = r.status /\ w.vars_json = v /\ NoActiveHitl(w)
         /\ LET w == HitlRequested(r, s, s, s)
            IN  w.status = "waiting_hitl" /\ w.vars_json = r.vars_json
         /\ LET w == HitlAnswered(r, s)
            IN  w.status = "running" /\ w.vars_json = r.vars_json
         /\ LET w == HitlReleased(r)
            IN  w.status = "running" /\ w.vars_json = r.vars_json
         /\ LET w == RunCompleted(r)
            IN  w.status = "completed" /\ w.vars_json = r.vars_json
         /\ LET w == RunFailed(r, s)
            IN  w.status = "failed" /\ w.vars_json = r.vars_json /\ w.current_step_id = s
         /\ RunPaused(r).status = "paused"
         /\ RunCancelled(r).status = "cancelled"
<1>1. s # 0
  BY DEF Steps
<1>. QED
  BY <1>1 DEF Rows, Row, StepStarted, StepSkipped, StepFailed, StepCompleted, NoActiveHitl,
         HitlRequested, HitlAnswered, HitlReleased, RunCompleted, RunFailed, RunPaused,
         RunCancelled, Detached

\* Nobody is two processes.
LEMMA Distinct ==
  ASSUME FanOutAssumption
  PROVE  /\ Main \notin Steps /\ Main \notin Operators /\ Steps \cap Operators = {}
         /\ Procs = Steps \cup {Main} \cup Operators
  BY DEF FanOutAssumption, Main, Steps, Procs

-----------------------------------------------------------------------------
(* The steps of the group                                                    *)

Dispatched == {"none", "pending", "running", "waiting_hitl"} \cup Terminal

\* One step moves: its place, its copy and its dispatch, and nobody else's.
Placed(s) ==
  /\ pc' = [pc EXCEPT ![s] = pc'[s]] /\ pc'[s] \in Places
  /\ seen' = [seen EXCEPT ![s] = seen'[s]] /\ seen'[s] \in Rows

Carried(s) ==
  dispatch' = [dispatch EXCEPT ![s] = dispatch'[s]] /\ dispatch'[s] \in Dispatched

OnlyMoves(s) == Placed(s) /\ Carried(s)

\* While a step works the executor waits and nothing is saved; so the rest stays
\* as it was if the row, where the step writes it, goes on.
LEMMA Moves ==
  ASSUME FanOutAssumption, IInv, NEW s \in Steps, pc[s] \notin Ended, OnlyMoves(s),
         StepFits(s, pc[s], dispatch[s])', StepCopyFits(pc[s], seen[s])',
         UNCHANGED <<saved, recorded>>,
         started' \subseteq started \cup {s},
         tries' \in [Steps -> 0 .. MaxRetries],
         questions' \in Nat, questions' >= questions,
         run' = run \/ /\ run' \in Rows
                       /\ run.status \in {"running", "waiting_hitl"}
                       /\ run'.status \in {"running", "waiting_hitl"}
                       /\ run'.vars_json = {}
                       /\ run'.status = "waiting_hitl" => questions' > 0
                       /\ run'.status = "running" /\ questions' = 0 => NoActiveHitl(run')
  PROVE  IInv'
<1>1. Main \in Procs /\ s \in Procs /\ s # Main /\ Steps \subseteq Procs
      /\ Operators \subseteq Procs /\ s \notin Operators
  BY Distinct
<1>2. /\ pc' \in [Procs -> Places] /\ seen' \in [Procs -> Rows]
      /\ \A q \in Procs : q # s => pc'[q] = pc[q] /\ seen'[q] = seen[q]
  BY <1>1 DEF IInv, Types, OnlyMoves, Placed
<1>3. /\ dispatch' \in [Steps -> Dispatched]
      /\ \A t \in Steps : t # s => dispatch'[t] = dispatch[t]
  BY DEF IInv, Types, TypeOK, OnlyMoves, Carried, Dispatched
<1>4. /\ pc[Main] = "join" /\ pc'[Main] = "join" /\ saved = {} /\ recorded = {}
      /\ questions \in Nat
  BY <1>1, <1>2 DEF IInv, ExecutorInv, Joined, At, Types
<1>5. Types'
  BY <1>2, <1>3 DEF IInv, Types, TypeOK, Rows, Dispatched
<1>6. StepInv'
  <2>. SUFFICES ASSUME NEW t \in Steps, t # s
                PROVE  StepFits(t, pc[t], dispatch[t])'
    BY DEF StepInv
  <2>1. pc'[t] = pc[t] /\ dispatch'[t] = dispatch[t] /\ (t \in started' => t \in started)
    BY <1>1, <1>2, <1>3
  <2>2. run.status \in {"paused", "cancelled"} => run' = run
    OBVIOUS
  <2>3. questions > 0 => questions' > 0
    BY <1>4
  <2>. QED BY <2>1, <2>2, <2>3 DEF IInv, StepInv, StepFits
<1>7. ExecutorInv'
  BY <1>4 DEF ExecutorInv, Joined, At
<1>8. RowInv'
  BY <1>4 DEF IInv, RowInv, Joined, At, NoActiveHitl
<1>9. CopyInv'
  <2>1. \A t \in Steps : StepCopyFits(pc[t], seen[t])'
    <3>. SUFFICES ASSUME NEW t \in Steps, t # s
                  PROVE  StepCopyFits(pc[t], seen[t])'
      OBVIOUS
    <3>. QED BY <1>1, <1>2, <1>4 DEF IInv, CopyInv, StepCopyFits
  <2>2. \A o \in Operators : pc'[o] = pc[o] /\ seen'[o] = seen[o]
    BY <1>1, <1>2
  <2>. QED BY <2>1, <2>2, <1>4 DEF IInv, CopyInv
<1>. QED BY <1>5, <1>6, <1>7, <1>8, <1>9 DEF IInv

\* What the invariant says of one step.
LEMMA StepAt ==
  ASSUME IInv, NEW s \in Steps
  PROVE  /\ s \in Procs
         /\ StepFits(s, pc[s], dispatch[s]) /\ StepCopyFits(pc[s], seen[s])
         /\ tries \in [Steps -> 0 .. MaxRetries] /\ questions \in Nat
         /\ run \in Rows /\ seen[s] \in Rows
         /\ run.vars_json = {} \/ pc[s] \in Ended \/ run.status \in {"paused", "cancelled"}
         /\ pc[Main] = "join" \/ pc[s] \in Ended
<1>1. s \in Procs /\ Main \in Procs
  BY DEF Procs
<1>2. pc[s] \in Ended \/ (saved = {} /\ pc[Main] = "join")
  BY <1>1 DEF IInv, ExecutorInv, Joined, At
<1>. QED
  BY <1>1, <1>2 DEF IInv, Types, TypeOK, Rows, StepInv, CopyInv, RowInv

\* A process goes somewhere, without a copy,
LEMMA Went ==
  ASSUME IInv, NEW s \in Procs, NEW l \in Places, Goto(s, l)
  PROVE  Placed(s) /\ pc'[s] = l
<1>1. pc' = [pc EXCEPT ![s] = l] /\ seen' = [seen EXCEPT ![s] = CreatedRow]
  BY DEF Goto
<1>. QED BY <1>1, CreatedFits DEF IInv, Types, Placed

\* or with one, of the row as it is.
LEMMA Took ==
  ASSUME IInv, NEW s \in Procs, NEW l \in Places,
         pc' = [pc EXCEPT ![s] = l], seen' = [seen EXCEPT ![s] = run]
  PROVE  Placed(s) /\ pc'[s] = l /\ seen'[s] = run
<1>1. run \in Rows
  BY DEF IInv, Types, TypeOK, Rows
<1>. QED BY <1>1 DEF IInv, Types, Placed

\* The dispatch of a step gets a status,
LEMMA DispatchSet ==
  ASSUME IInv, NEW s \in Steps, NEW d \in Dispatched, DispatchTo(s, d)
  PROVE  Carried(s) /\ dispatch'[s] = d
  BY DEF IInv, Types, TypeOK, DispatchTo, Carried

\* keeps the one it has,
LEMMA DispatchLeft ==
  ASSUME IInv, NEW s \in Steps, UNCHANGED dispatch
  PROVE  Carried(s) /\ dispatch'[s] = dispatch[s]
  BY DEF IInv, Types, TypeOK, Dispatched, Carried

\* or fails, unless it had ended.
LEMMA DispatchFailed ==
  ASSUME IInv, NEW s \in Steps, FailDispatch(s)
  PROVE  Carried(s) /\ dispatch'[s] = (IF Open(s) THEN "failed" ELSE dispatch[s])
<1>1. "failed" \in Dispatched
  BY DEF Dispatched, Terminal
<1>. QED BY <1>1, DispatchSet, DispatchLeft DEF FailDispatch

\* The dispatch is created.
LEMMA CreateDispatchKeeps ==
  ASSUME FanOutAssumption, IInv, NEW s \in Steps, CreateDispatch(s)
  PROVE  IInv'
<1>1. OnlyMoves(s) /\ pc'[s] = "start" /\ dispatch'[s] = "pending"
  BY StepAt, Went, DispatchSet DEF CreateDispatch, OnlyMoves, Dispatched, Places
<1>2. StepFits(s, pc[s], dispatch[s])' /\ StepCopyFits(pc[s], seen[s])'
  BY <1>1, StepAt DEF CreateDispatch, At, env, StepFits, StepCopyFits, Ended
<1>. QED
  BY <1>1, <1>2, StepAt, Moves DEF CreateDispatch, At, env, Ended

\* step_started: loaded, committed, or refused, which ends the step with an error.
LEMMA RecordStartedKeeps ==
  ASSUME FanOutAssumption, IInv, NEW s \in Steps, RecordStarted(s)
  PROVE  IInv'
<1>. USE StepAt
<1>1. CASE Load(s, "start", CanRecordStep(run), "started", "err")
  <2>. USE <1>1 DEF Load, At, env
  <2>1. Carried(s) /\ dispatch'[s] = dispatch[s]
    BY DispatchLeft
  <2>2. CASE CanRecordStep(run)
    <3>1. OnlyMoves(s) /\ pc'[s] = "started" /\ seen'[s] = run
      BY <2>1, <2>2, Took DEF OnlyMoves, Places
    <3>2. StepFits(s, pc[s], dispatch[s])' /\ StepCopyFits(pc[s], seen[s])'
      BY <2>1, <2>2, <3>1 DEF StepFits, StepCopyFits, CanRecordStep, NoActiveHitl, Ended
    <3>. QED BY <3>1, <3>2, Moves DEF Ended
  <2>3. CASE ~CanRecordStep(run)
    <3>1. OnlyMoves(s) /\ pc'[s] = "err"
      BY <2>1, <2>3, Went DEF OnlyMoves, Places
    <3>2. questions > 0 \/ run.status \in {"paused", "cancelled"}
      BY <2>3 DEF IInv, RowInv, Joined, CanRecordStep, Terminal, Ended
    <3>3. StepFits(s, pc[s], dispatch[s])' /\ StepCopyFits(pc[s], seen[s])'
      BY <2>1, <3>1, <3>2 DEF StepFits, StepCopyFits, Ended
    <3>. QED BY <3>1, <3>3, Moves DEF Ended
  <2>. QED BY <2>2, <2>3
<1>2. CASE /\ Commits(s, "started")
           /\ run' = StepStarted(seen[s], s, s)
           /\ Goto(s, "begin")
           /\ started' = started \cup {s}
           /\ UNCHANGED <<dispatch, saved, recorded, tries, questions, timeouts, cancels>>
  <2>. USE <1>2 DEF Commits, At
  <2>1. OnlyMoves(s) /\ pc'[s] = "begin" /\ dispatch'[s] = dispatch[s]
    BY Went, DispatchLeft DEF OnlyMoves, Places
  <2>2. /\ run.status = "running" /\ seen[s].vars_json = {} /\ run' \in Rows
        /\ run'.status = "running" /\ run'.vars_json = {} /\ NoActiveHitl(run')
    BY RowsFit, RowColumns DEF StepCopyFits
  <2>3. StepFits(s, pc[s], dispatch[s])' /\ StepCopyFits(pc[s], seen[s])'
    BY <2>1 DEF StepFits, StepCopyFits, Ended
  <2>. QED BY <2>1, <2>2, <2>3, Moves DEF Ended
<1>3. CASE /\ Refused(s, "started")
           /\ Goto(s, "err")
           /\ UNCHANGED <<run, dispatch, saved, recorded, tries, env>>
  <2>. USE <1>3 DEF Refused, At, env
  <2>1. OnlyMoves(s) /\ pc'[s] = "err" /\ dispatch'[s] = dispatch[s]
    BY Went, DispatchLeft DEF OnlyMoves, Places
  <2>2. questions > 0 \/ run.status \in {"paused", "cancelled"}
    BY DEF IInv, RowInv, Joined, Terminal, Ended, StepCopyFits
  <2>3. StepFits(s, pc[s], dispatch[s])' /\ StepCopyFits(pc[s], seen[s])'
    BY <2>1, <2>2 DEF StepFits, StepCopyFits, Ended
  <2>. QED BY <2>1, <2>3, Moves DEF Ended
<1>. QED BY <1>1, <1>2, <1>3 DEF RecordStarted

\* A step that fails, its dispatch with it unless that was cancelled.
LEMMA FailingKeeps ==
  ASSUME FanOutAssumption, IInv, NEW s \in Steps,
         pc[s] \in {"begin", "turn", "ask", "asking", "await", "refused"},
         FailDispatch(s), Goto(s, "failed"),
         UNCHANGED <<run, saved, recorded, tries, questions, started>>
  PROVE  IInv'
<1>1. OnlyMoves(s) /\ pc'[s] = "failed"
      /\ dispatch'[s] = (IF Open(s) THEN "failed" ELSE dispatch[s])
  BY StepAt, Went, DispatchFailed DEF OnlyMoves, Places
<1>2. StepFits(s, pc[s], dispatch[s])' /\ StepCopyFits(pc[s], seen[s])'
  BY <1>1, StepAt DEF StepFits, StepCopyFits, Ended, Open
<1>. QED BY <1>1, <1>2, StepAt, Moves DEF Ended

\* The turn begins, or its agent cannot be resolved.
LEMMA BeginTurnKeeps ==
  ASSUME FanOutAssumption, IInv, NEW s \in Steps, BeginTurn(s)
  PROVE  IInv'
<1>. USE StepAt DEF BeginTurn, At, env
<1>1. CASE Open(s) /\ DispatchTo(s, "running") /\ Goto(s, "turn")
  <2>1. OnlyMoves(s) /\ pc'[s] = "turn" /\ dispatch'[s] = "running"
    BY <1>1, Went, DispatchSet DEF OnlyMoves, Dispatched, Places
  <2>2. StepFits(s, pc[s], dispatch[s])' /\ StepCopyFits(pc[s], seen[s])'
    BY <2>1 DEF StepFits, StepCopyFits, Ended
  <2>. QED BY <1>1, <2>1, <2>2, Moves DEF Ended
<1>2. CASE FailDispatch(s) /\ Goto(s, "failed")
  BY <1>2, FailingKeeps
<1>. QED BY <1>1, <1>2

\* The turn ends, and completes its dispatch if that was not cancelled.
LEMMA ConcludeKeeps ==
  ASSUME FanOutAssumption, IInv, NEW s \in Steps, Conclude(s)
  PROVE  IInv'
<1>. USE StepAt DEF Conclude, At, env
<1>1. CASE dispatch[s] = "running"
  <2>1. OnlyMoves(s) /\ pc'[s] = "ok" /\ dispatch'[s] = "completed"
    BY <1>1, Went, DispatchSet DEF OnlyMoves, Dispatched, Terminal, Places
  <2>2. StepFits(s, pc[s], dispatch[s])' /\ StepCopyFits(pc[s], seen[s])'
    BY <2>1 DEF StepFits, StepCopyFits, Ended
  <2>. QED BY <2>1, <2>2, Moves DEF Ended
<1>2. CASE dispatch[s] # "running"
  <2>1. OnlyMoves(s) /\ pc'[s] = "failed" /\ dispatch'[s] = dispatch[s]
    BY <1>2, Went, DispatchLeft DEF OnlyMoves, Places
  <2>2. StepFits(s, pc[s], dispatch[s])' /\ StepCopyFits(pc[s], seen[s])'
    BY <1>2, <2>1 DEF StepFits, StepCopyFits, Ended
  <2>. QED BY <2>1, <2>2, Moves DEF Ended
<1>. QED BY <1>1, <1>2

\* A step asks a human, which parks the whole run, or is refused.
LEMMA AskKeeps ==
  ASSUME FanOutAssumption, IInv, NEW s \in Steps, Ask(s)
  PROVE  IInv'
<1>. USE StepAt
<1>1. CASE /\ At(s, "turn")
           /\ questions' = questions + 1
           /\ Goto(s, "ask")
           /\ UNCHANGED <<run, dispatch, saved, recorded, tries, timeouts, cancels, started>>
  <2>. USE <1>1 DEF At
  <2>1. OnlyMoves(s) /\ pc'[s] = "ask" /\ dispatch'[s] = dispatch[s]
    BY Went, DispatchLeft DEF OnlyMoves, Places
  <2>2. StepFits(s, pc[s], dispatch[s])' /\ StepCopyFits(pc[s], seen[s])'
    BY <2>1 DEF StepFits, StepCopyFits, Ended
  <2>. QED BY <2>1, <2>2, Moves DEF Ended
<1>2. CASE Load(s, "ask", CanPark(run) /\ dispatch[s] = "running", "asking", "refused")
  <2>. USE <1>2 DEF Load, At, env
  <2>1. Carried(s) /\ dispatch'[s] = dispatch[s]
    BY DispatchLeft
  <2>2. CASE CanPark(run) /\ dispatch[s] = "running"
    <3>1. OnlyMoves(s) /\ pc'[s] = "asking" /\ seen'[s] = run
      BY <2>1, <2>2, Took DEF OnlyMoves, Places
    <3>2. StepFits(s, pc[s], dispatch[s])' /\ StepCopyFits(pc[s], seen[s])'
      BY <2>1, <2>2, <3>1 DEF StepFits, StepCopyFits, CanPark, Ended
    <3>. QED BY <3>1, <3>2, Moves DEF Ended
  <2>3. CASE ~(CanPark(run) /\ dispatch[s] = "running")
    <3>1. OnlyMoves(s) /\ pc'[s] = "refused"
      BY <2>1, <2>3, Went DEF OnlyMoves, Places
    <3>2. StepFits(s, pc[s], dispatch[s])' /\ StepCopyFits(pc[s], seen[s])'
      BY <2>1, <3>1 DEF StepFits, StepCopyFits, Ended
    <3>. QED BY <3>1, <3>2, Moves DEF Ended
  <2>. QED BY <2>2, <2>3
<1>3. CASE /\ Commits(s, "asking") /\ dispatch[s] = "running"
           /\ run' = HitlRequested(seen[s], s, s, s)
           /\ DispatchTo(s, "waiting_hitl")
           /\ Goto(s, "await")
           /\ UNCHANGED <<saved, recorded, tries, env>>
  <2>. USE <1>3 DEF Commits, At, env
  <2>1. OnlyMoves(s) /\ pc'[s] = "await" /\ dispatch'[s] = "waiting_hitl"
    BY Went, DispatchSet DEF OnlyMoves, Dispatched, Places
  <2>2. /\ run.status = "running" /\ run' \in Rows /\ questions > 0
        /\ run'.status = "waiting_hitl" /\ run'.vars_json = {}
    <3>1. seen[s] \in Rows /\ seen[s].vars_json = {} /\ seen[s].status = "running"
          /\ questions > 0
      BY DEF StepCopyFits
    <3>. QED BY <3>1, RowsFit, RowColumns
  <2>3. StepFits(s, pc[s], dispatch[s])' /\ StepCopyFits(pc[s], seen[s])'
    BY <2>1, <2>2 DEF StepFits, StepCopyFits, Ended
  <2>. QED BY <2>1, <2>2, <2>3, Moves DEF Ended
<1>4. CASE /\ At(s, "asking")
           /\ Goto(s, "refused")
           /\ UNCHANGED <<run, dispatch, saved, recorded, tries, env>>
  <2>. USE <1>4 DEF At, env
  <2>1. OnlyMoves(s) /\ pc'[s] = "refused" /\ dispatch'[s] = dispatch[s]
    BY Went, DispatchLeft DEF OnlyMoves, Places
  <2>2. StepFits(s, pc[s], dispatch[s])' /\ StepCopyFits(pc[s], seen[s])'
    BY <2>1 DEF StepFits, StepCopyFits, Ended
  <2>. QED BY <2>1, <2>2, Moves DEF Ended
<1>5. CASE /\ At(s, "refused")
           /\ FailDispatch(s)
           /\ Goto(s, "failed")
           /\ UNCHANGED <<run, saved, recorded, tries, env>>
  BY <1>5, FailingKeeps DEF At, env
<1>. QED BY <1>1, <1>2, <1>3, <1>4, <1>5 DEF Ask

\* The human answers and the same dispatch goes on.
LEMMA AnswerKeeps ==
  ASSUME FanOutAssumption, IInv, NEW s \in Steps, Answer(s)
  PROVE  IInv'
<1>. USE StepAt DEF Answer, At, env
<1>1. OnlyMoves(s) /\ pc'[s] = "turn" /\ dispatch'[s] = "running"
  BY Went, DispatchSet DEF OnlyMoves, Dispatched, Places
<1>2. /\ run' \in Rows /\ questions > 0
      /\ run'.status = "running" /\ run'.vars_json = {}
  BY RowsFit, RowColumns DEF StepCopyFits, Ended
<1>3. StepFits(s, pc[s], dispatch[s])' /\ StepCopyFits(pc[s], seen[s])'
  BY <1>1 DEF StepFits, StepCopyFits, Ended
<1>. QED BY <1>1, <1>2, <1>3, Moves DEF Ended

\* After a failure: another attempt, a step left out, or an error.
LEMMA AfterFailureKeeps ==
  ASSUME FanOutAssumption, IInv, NEW s \in Steps, AfterFailure(s)
  PROVE  IInv'
<1>. USE StepAt DEF AfterFailure, At, env
<1>1. CASE Mode[s] = "retry" /\ tries[s] < MaxRetries /\ dispatch[s] = "failed"
  <2>1. OnlyMoves(s) /\ pc'[s] = "begin" /\ dispatch'[s] = "pending"
    BY <1>1, Went, DispatchSet DEF OnlyMoves, Dispatched, Places
  <2>2. tries' \in [Steps -> 0 .. MaxRetries]
    BY <1>1 DEF FanOutAssumption
  <2>3. StepFits(s, pc[s], dispatch[s])' /\ StepCopyFits(pc[s], seen[s])'
    BY <1>1, <2>1 DEF StepFits, StepCopyFits, Ended
  <2>. QED BY <1>1, <2>1, <2>2, <2>3, Moves DEF Ended
<1>2. CASE ~(Mode[s] = "retry" /\ tries[s] < MaxRetries /\ dispatch[s] = "failed")
  <2>1. OnlyMoves(s) /\ dispatch'[s] = dispatch[s]
        /\ pc'[s] = IF Mode[s] = "skip" THEN "none" ELSE "err"
    BY <1>2, Went, DispatchLeft DEF OnlyMoves, Places
  <2>2. StepFits(s, pc[s], dispatch[s])' /\ StepCopyFits(pc[s], seen[s])'
    BY <1>2, <2>1 DEF StepFits, StepCopyFits, Ended
  <2>. QED BY <1>2, <2>1, <2>2, Moves DEF Ended
<1>. QED BY <1>1, <1>2

\* What a step does by itself keeps the invariant.
LEMMA StepsKeep ==
  ASSUME FanOutAssumption, IInv, NEW s \in Steps, Step(s)
  PROVE  IInv'
<1>1. CASE TurnFails(s) \/ StepTimeout(s)
  BY <1>1, FailingKeeps DEF TurnFails, StepTimeout, At, env
<1>. QED
  BY <1>1, CreateDispatchKeeps, RecordStartedKeeps, BeginTurnKeeps, ConcludeKeeps, AskKeeps,
     AnswerKeeps, AfterFailureKeeps DEF Step

-----------------------------------------------------------------------------
(* The executor                                                              *)

\* The result to record next is the first that is left.
LEMMA CurrentIsFirst ==
  ASSUME FanOutAssumption, recorded \subseteq Steps, recorded # Steps
  PROVE  /\ Current \in Steps \ recorded
         /\ \A t \in Steps \ recorded : Current =< t
<1>. DEFINE R == OpToRel(LAMBDA x, y : x < y, Nat)
            T == Steps \ recorded
<1>1. T \subseteq Nat /\ T # {}
  <2>1. T # {}
    OBVIOUS
  <2>2. Steps \subseteq Nat
    BY DEF Steps, FanOutAssumption
  <2>. QED BY <2>1, <2>2
<1>2. PICK x \in T : \A y \in T : <<y, x>> \notin R
  BY <1>1, NatLessThanWellFounded, WFMin, Zenon
<1>3. \A y \in T : x =< y
  <2>. SUFFICES ASSUME NEW y \in T PROVE x =< y
    OBVIOUS
  <2>1. ~(y < x)
    BY <1>1, <1>2 DEF OpToRel
  <2>. QED BY <1>1, <2>1
<1>. QED BY <1>3, Zenon DEF Current, Min

\* The executor moves, and the row it writes goes on from one that runs.
LEMMA ExecutorMoves ==
  ASSUME FanOutAssumption, IInv, Placed(Main),
         \A t \in Steps : pc[t] \in Ended,
         UNCHANGED <<dispatch, tries, questions, started>>,
         run' = run \/ (run' \in Rows /\ run.status = "running"),
         saved' \subseteq recorded', recorded' \subseteq Steps,
         ExecutorInv', RowInv',
         pc'[Main] \in {"result", "failRun", "complete"} =>
           run' = run /\ seen'[Main] = run /\ run.status = "running"
  PROVE  IInv'
<1>1. Main \in Procs /\ Steps \subseteq Procs /\ Operators \subseteq Procs
      /\ Main \notin Steps /\ Main \notin Operators
  BY Distinct
<1>2. /\ pc' \in [Procs -> Places] /\ seen' \in [Procs -> Rows]
      /\ \A q \in Procs : q # Main => pc'[q] = pc[q] /\ seen'[q] = seen[q]
  BY <1>1 DEF IInv, Types, Placed
<1>3. Types'
  BY <1>2 DEF IInv, Types, TypeOK, Rows
<1>4. \A t \in Steps : pc'[t] = pc[t] /\ seen'[t] = seen[t]
  BY <1>1, <1>2
<1>5. StepInv'
  <2>1. run.status = "running" => run.status \notin {"paused", "cancelled"}
    OBVIOUS
  <2>. QED BY <1>4, <2>1 DEF IInv, StepInv, StepFits
<1>6. CopyInv'
  <2>1. \A o \in Operators : pc'[o] = pc[o] /\ seen'[o] = seen[o]
    BY <1>1, <1>2
  <2>. QED BY <1>4, <2>1 DEF IInv, CopyInv, StepCopyFits
<1>. QED BY <1>3, <1>5, <1>6 DEF IInv

\* What the invariant says of the executor.
LEMMA ExecutorAt ==
  ASSUME FanOutAssumption, IInv
  PROVE  /\ Main \in Procs /\ run \in Rows /\ seen[Main] \in Rows
         /\ recorded \subseteq Steps /\ saved \subseteq recorded
         /\ pc[Main] # "join" => \A t \in Steps : pc[t] \in Ended
  BY Distinct DEF IInv, Types, TypeOK, Rows, ExecutorInv, Joined, At

\* The executor goes on without a change of the row, of its own memory or of a step.
LEMMA ExecutorGoes ==
  ASSUME FanOutAssumption, IInv, Placed(Main),
         \A t \in Steps : pc[t] \in Ended,
         UNCHANGED <<run, dispatch, saved, recorded, tries, questions, started>>,
         pc[Main] # "gone",
         \/ pc[Main] = "join" /\ pc'[Main] = "record"
         \/ pc[Main] = "record" /\ pc'[Main] = "result"
         \/ pc[Main] = "fail" /\ pc'[Main] = "failRun"
         \/ pc[Main] = "end" /\ pc'[Main] = "complete"
         \/ pc[Main] # "join" /\ pc'[Main] = "gone",
         pc'[Main] \in {"result", "failRun", "complete"} =>
           seen'[Main] = run /\ run.status = "running"
  PROVE  IInv'
<1>1. \A t \in Steps : pc'[t] = pc[t]
  BY Distinct DEF IInv, Types, Placed
<1>2. 1 \in Steps
  BY DEF FanOutAssumption, Steps
<1>3. /\ pc'[Main] \in {"record", "result"} => recorded # Steps
      /\ pc'[Main] = "complete" => recorded = Steps
      /\ pc'[Main] = "failRun" => recorded # Steps /\ pc[Current] = "err"
  BY <1>2 DEF IInv, ExecutorInv, Joined, At
<1>4. recorded # Steps => Current \in Steps
  BY CurrentIsFirst, ExecutorAt
<1>5. Current' = Current
  BY DEF Current
<1>6. saved = {t \in recorded : pc[t] = "ok"} /\ recorded \subseteq Steps
  BY ExecutorAt DEF IInv, ExecutorInv
<1>7. ExecutorInv'
  <2>1. saved' = {t \in recorded' : pc'[t] = "ok"}
    BY <1>1, <1>6
  <2>2. \A t \in recorded' : pc'[t] \in {"ok", "none"}
    BY <1>1, <1>6 DEF IInv, ExecutorInv
  <2>3. Joined'
    BY DEF Joined, At
  <2>4. pc'[Main] \in {"fail", "failRun"} => pc'[Current'] = "err"
    BY <1>1, <1>3, <1>4, <1>5
  <2>. QED BY <1>1, <1>3, <2>1, <2>2, <2>3, <2>4 DEF ExecutorInv
<1>8. RowInv'
  BY DEF IInv, RowInv, Joined, At
<1>. QED BY <1>7, <1>8, ExecutorAt, ExecutorMoves

\* All steps have ended and the executor looks at their results.
LEMMA JoinAllKeeps ==
  ASSUME FanOutAssumption, IInv, JoinAll
  PROVE  IInv'
<1>1. Placed(Main) /\ pc'[Main] = "record"
  BY ExecutorAt, Went DEF JoinAll, Places
<1>. QED
  BY <1>1, ExecutorGoes DEF JoinAll, At, env

\* The executor loads the row for a transition, or finds that it may not write.
LEMMA ExecutorLoads ==
  ASSUME FanOutAssumption, IInv,
         \/ Load(Main, "record", CanRecordStep(run), "result", "gone")
         \/ Load(Main, "fail", IsInterruptible(run), "failRun", "gone")
         \/ Load(Main, "end", CanRecordStep(run), "complete", "gone")
  PROVE  IInv'
<1>1. Main \in Procs /\ (\A t \in Steps : pc[t] \in Ended)
  BY ExecutorAt DEF Load, At
<1>2. run.status # "waiting_signal"
  BY DEF IInv, RowInv, Terminal
<1>3. CASE Load(Main, "record", CanRecordStep(run), "result", "gone")
  <2>. USE <1>3 DEF Load, At, env
  <2>1. CASE CanRecordStep(run)
    <3>1. Placed(Main) /\ pc'[Main] = "result" /\ seen'[Main] = run
      BY <1>1, <2>1, Took DEF Places
    <3>. QED BY <1>1, <2>1, <3>1, ExecutorGoes DEF CanRecordStep
  <2>2. CASE ~CanRecordStep(run)
    <3>1. Placed(Main) /\ pc'[Main] = "gone"
      BY <1>1, <2>2, Went DEF Places
    <3>. QED BY <1>1, <3>1, ExecutorGoes
  <2>. QED BY <2>1, <2>2
<1>4. CASE Load(Main, "fail", IsInterruptible(run), "failRun", "gone")
  <2>. USE <1>4 DEF Load, At, env
  <2>1. CASE IsInterruptible(run)
    <3>1. Placed(Main) /\ pc'[Main] = "failRun" /\ seen'[Main] = run
      BY <1>1, <2>1, Took DEF Places
    <3>. QED BY <1>1, <1>2, <2>1, <3>1, ExecutorGoes DEF IsInterruptible
  <2>2. CASE ~IsInterruptible(run)
    <3>1. Placed(Main) /\ pc'[Main] = "gone"
      BY <1>1, <2>2, Went DEF Places
    <3>. QED BY <1>1, <3>1, ExecutorGoes
  <2>. QED BY <2>1, <2>2
<1>5. CASE Load(Main, "end", CanRecordStep(run), "complete", "gone")
  <2>. USE <1>5 DEF Load, At, env
  <2>1. CASE CanRecordStep(run)
    <3>1. Placed(Main) /\ pc'[Main] = "complete" /\ seen'[Main] = run
      BY <1>1, <2>1, Took DEF Places
    <3>. QED BY <1>1, <2>1, <3>1, ExecutorGoes DEF CanRecordStep
  <2>2. CASE ~CanRecordStep(run)
    <3>1. Placed(Main) /\ pc'[Main] = "gone"
      BY <1>1, <2>2, Went DEF Places
    <3>. QED BY <1>1, <3>1, ExecutorGoes
  <2>. QED BY <2>1, <2>2
<1>. QED BY <1>3, <1>4, <1>5

\* A commit that is refused ends the execution.
LEMMA RefusedAtCommitKeeps ==
  ASSUME FanOutAssumption, IInv, RefusedAtCommit
  PROVE  IInv'
<1>1. Main \in Procs /\ (\A t \in Steps : pc[t] \in Ended)
  BY ExecutorAt DEF RefusedAtCommit, Refused, At
<1>2. Placed(Main) /\ pc'[Main] = "gone"
  BY <1>1, Went DEF RefusedAtCommit, Places
<1>. QED BY <1>1, <1>2, ExecutorGoes DEF RefusedAtCommit, Refused, At, env

\* What holds when the executor commits: its copy is the row, and the row runs.
LEMMA AtCommit ==
  ASSUME FanOutAssumption, IInv, NEW l \in {"result", "failRun", "complete"},
         Commits(Main, l)
  PROVE  /\ seen[Main] = run /\ run.status = "running" /\ run.vars_json = saved
         /\ run \in Rows /\ \A t \in Steps : pc[t] \in Ended
  BY ExecutorAt DEF IInv, CopyInv, RowInv, Commits, At

\* The result of the first step that is left is recorded.
LEMMA ResultKeeps ==
  ASSUME FanOutAssumption, IInv, RecordResult,
         ~Load(Main, "record", CanRecordStep(run), "result", "gone")
  PROVE  IInv'
<1>. DEFINE c == Current
<1>1. /\ Commits(Main, "result") /\ run' = ResultRow(c)
      /\ UNCHANGED <<dispatch, tries, questions, started>>
  BY DEF RecordResult, env
<1>2. /\ seen[Main] = run /\ run.status = "running" /\ run.vars_json = saved /\ run \in Rows
      /\ \A t \in Steps : pc[t] \in Ended
  BY <1>1, AtCommit
<1>3. Main \in Procs /\ Main \notin Steps /\ recorded \subseteq Steps /\ recorded # Steps
      /\ saved = {t \in recorded : pc[t] = "ok"}
      /\ (\A t \in recorded : pc[t] \in {"ok", "none"})
  BY <1>1, ExecutorAt, Distinct DEF IInv, ExecutorInv, Commits, At
<1>4. c \in Steps \ recorded /\ pc[c] \in Ended /\ Saved(c) \in SUBSET Steps
  BY <1>2, <1>3, CurrentIsFirst DEF Saved
<1>5. CASE pc[c] = "err"
  <2>1. Placed(Main) /\ pc'[Main] = "fail" /\ UNCHANGED <<saved, recorded>>
    BY <1>3, <1>5, Went DEF RecordResult, Places, Load, Commits, At
  <2>2. run' = StepFailed(run, c)
    BY <1>1, <1>2, <1>5 DEF ResultRow
  <2>3. run' \in Rows /\ run'.status = "running" /\ run'.vars_json = saved
        /\ NoActiveHitl(run')
    BY <1>2, <1>4, <2>2, RowsFit, RowColumns
  <2>4. \A t \in Steps : pc'[t] = pc[t]
    BY <1>3, <2>1 DEF IInv, Types, Placed, Procs
  <2>5. Current' = c
    BY <2>1 DEF Current
  <2>6. ExecutorInv'
    <3>1. saved' = {t \in recorded' : pc'[t] = "ok"}
          /\ \A t \in recorded' : pc'[t] \in {"ok", "none"}
      BY <1>3, <2>1, <2>4
    <3>2. pc'[Current'] = "err"
      BY <1>4, <1>5, <2>4, <2>5
    <3>3. \A t \in Steps : pc'[t] \in Ended
      BY <1>2, <2>4
    <3>. QED BY <1>3, <2>1, <3>1, <3>2, <3>3 DEF ExecutorInv, Joined, At
  <2>7. RowInv'
    BY <2>1, <2>3 DEF RowInv, Joined, At, NoActiveHitl, Terminal
  <2>. QED BY <1>1, <1>2, <1>3, <2>1, <2>3, <2>6, <2>7, ExecutorMoves
<1>6. CASE pc[c] \in {"ok", "none"}
  <2>1. /\ saved' = (IF pc[c] = "ok" THEN Saved(c) ELSE saved)
        /\ recorded' = recorded \cup {c}
        /\ Goto(Main, IF recorded' = Steps THEN "end" ELSE "record")
    BY <1>6 DEF RecordResult, Load, Commits, At
  <2>2. Placed(Main) /\ pc'[Main] = IF recorded' = Steps THEN "end" ELSE "record"
    BY <1>3, <2>1, Went DEF Places
  <2>3. run' = IF pc[c] = "ok" THEN StepCompleted(run, c, Saved(c)) ELSE StepSkipped(run, c)
    BY <1>1, <1>2, <1>6 DEF ResultRow
  <2>4. run' \in Rows /\ run'.status = "running" /\ NoActiveHitl(run')
    BY <1>2, <1>4, <2>3, RowsFit, RowColumns
  <2>5. run'.vars_json = saved'
    <3>1. CASE pc[c] = "ok"
      BY <3>1, <1>2, <1>4, <2>1, <2>3, RowColumns
    <3>2. CASE pc[c] # "ok"
      BY <3>2, <1>2, <1>4, <2>1, <2>3, RowColumns
    <3>. QED BY <3>1, <3>2
  <2>6. \A t \in Steps : pc'[t] = pc[t]
    BY <1>3, <2>2 DEF IInv, Types, Placed, Procs
  <2>7. ExecutorInv'
    <3>1. saved' = {t \in recorded' : pc'[t] = "ok"}
      BY <1>3, <1>4, <2>1, <2>6 DEF Saved
    <3>2. \A t \in recorded' : pc'[t] \in {"ok", "none"}
      BY <1>3, <1>4, <1>6, <2>1, <2>6
    <3>3. \A t \in Steps : pc'[t] \in Ended
      BY <1>2, <2>6
    <3>. QED BY <2>2, <3>1, <3>2, <3>3 DEF ExecutorInv, Joined, At
  <2>8. RowInv'
    BY <2>2, <2>4, <2>5 DEF RowInv, Joined, At, NoActiveHitl, Terminal
  <2>9. saved' \subseteq recorded' /\ recorded' \subseteq Steps
    BY <1>3, <1>4, <2>1 DEF Saved
  <2>. QED BY <1>1, <1>2, <2>2, <2>4, <2>7, <2>8, <2>9, ExecutorMoves
<1>. QED BY <1>4, <1>5, <1>6 DEF Ended

\* The run ends: failed in the name of the first error, or completed.
LEMMA EndsKeep ==
  ASSUME FanOutAssumption, IInv,
         \/ Commit(Main, "failRun", RunFailed(seen[Main], Current))
         \/ Commit(Main, "complete", RunCompleted(seen[Main]))
  PROVE  IInv'
<1>1. Main \in Procs /\ Main \notin Steps
  BY Distinct
<1>2. /\ UNCHANGED <<dispatch, saved, recorded, tries, questions, started>>
      /\ Placed(Main) /\ pc'[Main] = "gone"
  BY <1>1, Went DEF Commit, Places, env
<1>3. \A t \in Steps : pc'[t] = pc[t]
  BY <1>1, <1>2 DEF IInv, Types, Placed, Procs
<1>4. Current' = Current
  BY <1>2 DEF Current
<1>5. /\ recorded \subseteq Steps /\ saved \subseteq recorded
      /\ saved = {t \in recorded : pc[t] = "ok"}
      /\ \A t \in recorded : pc[t] \in {"ok", "none"}
  BY ExecutorAt DEF IInv, ExecutorInv
<1>6. ASSUME \A t \in Steps : pc[t] \in Ended
      PROVE  ExecutorInv'
  <2>1. saved' = {t \in recorded' : pc'[t] = "ok"}
        /\ \A t \in recorded' : pc'[t] \in {"ok", "none"}
    BY <1>2, <1>3, <1>5
  <2>. QED BY <1>2, <1>3, <1>6, <2>1 DEF ExecutorInv, Joined, At
<1>7. CASE Commit(Main, "failRun", RunFailed(seen[Main], Current))
  <2>1. /\ seen[Main] = run /\ run.status = "running" /\ run.vars_json = saved /\ run \in Rows
        /\ \A t \in Steps : pc[t] \in Ended
    BY <1>7, AtCommit DEF Commit
  <2>2. recorded # Steps /\ pc[Current] = "err"
    BY <1>7 DEF Commit, Commits, At, IInv, ExecutorInv
  <2>3. Current \in Steps
    BY <2>2, <1>5, CurrentIsFirst
  <2>4. /\ run' \in Rows /\ run'.status = "failed" /\ run'.vars_json = saved
        /\ run'.current_step_id = Current
    BY <1>7, <2>1, <2>3, RowsFit, RowColumns DEF Commit
  <2>5. pc'[Current'] = "err"
    BY <1>3, <1>4, <2>2, <2>3
  <2>6. RowInv'
    BY <1>2, <1>4, <2>2, <2>4, <2>5 DEF RowInv, Joined, At, Terminal
  <2>. QED BY <1>2, <1>5, <1>6, <2>1, <2>4, <2>6, ExecutorMoves
<1>8. CASE Commit(Main, "complete", RunCompleted(seen[Main]))
  <2>1. /\ seen[Main] = run /\ run.status = "running" /\ run.vars_json = saved /\ run \in Rows
        /\ \A t \in Steps : pc[t] \in Ended
    BY <1>8, AtCommit DEF Commit
  <2>2. recorded = Steps
    BY <1>8 DEF Commit, Commits, At, IInv, ExecutorInv
  <2>3. 1 \in Steps
    BY DEF FanOutAssumption, Steps
  <2>4. run' \in Rows /\ run'.status = "completed" /\ run'.vars_json = saved
    BY <1>8, <2>1, <2>3, RowsFit, RowColumns DEF Commit
  <2>5. RowInv'
    BY <1>2, <2>2, <2>4 DEF RowInv, Joined, At, Terminal
  <2>. QED BY <1>2, <1>5, <1>6, <2>1, <2>4, <2>5, ExecutorMoves
<1>. QED BY <1>7, <1>8

\* Whatever the executor does keeps the invariant.
LEMMA ExecutorKeeps ==
  ASSUME FanOutAssumption, IInv, Executor
  PROVE  IInv'
<1>1. CASE RecordResult
  BY <1>1, ExecutorLoads, ResultKeeps
<1>2. CASE RecordRunFailed \/ RecordRunCompleted
  BY <1>2, ExecutorLoads, EndsKeep DEF RecordRunFailed, RecordRunCompleted
<1>. QED
  BY <1>1, <1>2, JoinAllKeeps, RefusedAtCommitKeeps DEF Executor

-----------------------------------------------------------------------------
(* Operators                                                                 *)

\* A request moves, and the row it writes is paused or cancelled.
LEMMA OperatorMoves ==
  ASSUME FanOutAssumption, IInv, NEW o \in Operators, Placed(o),
         UNCHANGED <<dispatch, saved, recorded, tries, questions, started>>,
         pc'[o] \in {"pausing", "cancelling", "gone"},
         pc'[o] = "pausing"    => seen'[o].status = "running",
         pc'[o] = "cancelling" => ~IsTerminal(seen'[o]),
         run' = run \/ /\ run' \in Rows /\ ~IsTerminal(run)
                       /\ run'.status \in {"paused", "cancelled"}
  PROVE  IInv'
<1>1. Main \in Procs /\ o \in Procs /\ o # Main /\ Steps \subseteq Procs
      /\ Operators \subseteq Procs /\ o \notin Steps
  BY Distinct
<1>2. /\ pc' \in [Procs -> Places] /\ seen' \in [Procs -> Rows]
      /\ \A q \in Procs : q # o => pc'[q] = pc[q] /\ seen'[q] = seen[q]
  BY <1>1 DEF IInv, Types, Placed
<1>3. Types'
  BY <1>2 DEF IInv, Types, TypeOK, Rows
<1>4. /\ \A t \in Steps : pc'[t] = pc[t] /\ seen'[t] = seen[t]
      /\ pc'[Main] = pc[Main] /\ seen'[Main] = seen[Main]
  BY <1>1, <1>2
<1>5. StepInv'
  BY <1>4 DEF IInv, StepInv, StepFits
<1>6. Current' = Current /\ (recorded # Steps => Current \in Steps)
  BY CurrentIsFirst, ExecutorAt DEF Current
<1>7. ExecutorInv'
  <2>1. recorded \subseteq Steps /\ saved = {t \in recorded : pc[t] = "ok"}
    BY ExecutorAt DEF IInv, ExecutorInv
  <2>2. saved' = {t \in recorded' : pc'[t] = "ok"}
        /\ \A t \in recorded' : pc'[t] \in {"ok", "none"}
    BY <1>4, <2>1 DEF IInv, ExecutorInv
  <2>3. pc'[Main] \in {"fail", "failRun"} => pc'[Current'] = "err"
    BY <1>4, <1>6 DEF IInv, ExecutorInv
  <2>4. Joined' = Joined
    BY <1>4 DEF Joined, At
  <2>. QED BY <1>4, <2>2, <2>3, <2>4 DEF IInv, ExecutorInv
<1>8. RowInv'
  <2>1. CASE run' = run
    BY <1>4, <1>6, <2>1 DEF IInv, RowInv, Joined, At, NoActiveHitl
  <2>2. CASE run'.status \in {"paused", "cancelled"}
    BY <2>2 DEF RowInv, Terminal
  <2>. QED BY <2>1, <2>2
<1>9. CopyInv'
  <2>1. \A p \in Operators : p # o => pc'[p] = pc[p] /\ seen'[p] = seen[p]
    BY <1>1, <1>2
  <2>. QED BY <1>4, <2>1 DEF IInv, CopyInv, StepCopyFits
<1>. QED BY <1>3, <1>5, <1>7, <1>8, <1>9 DEF IInv

\* A pause or a cancellation of the run: loaded, committed, or refused.
LEMMA OperatorKeeps ==
  ASSUME FanOutAssumption, IInv, NEW o \in Operators, Operator(o)
  PROVE  IInv'
<1>1. o \in Procs /\ run \in Rows /\ seen[o] \in Rows
  BY Distinct DEF IInv, Types, TypeOK, Rows
<1>2. run.status # "waiting_signal" /\ 1 \in Steps
  BY DEF IInv, RowInv, Terminal, FanOutAssumption, Steps
<1>3. CASE Load(o, "ready", IsInterruptible(run), "pausing", "gone")
  <2>. USE <1>3 DEF Load, env
  <2>1. CASE IsInterruptible(run)
    <3>1. Placed(o) /\ pc'[o] = "pausing" /\ seen'[o] = run
      BY <1>1, <2>1, Took DEF Places
    <3>. QED BY <1>2, <2>1, <3>1, OperatorMoves DEF IsInterruptible
  <2>2. CASE ~IsInterruptible(run)
    <3>1. Placed(o) /\ pc'[o] = "gone"
      BY <1>1, <2>2, Went DEF Places
    <3>. QED BY <3>1, OperatorMoves
  <2>. QED BY <2>1, <2>2
<1>4. CASE Load(o, "ready", ~IsTerminal(run), "cancelling", "gone")
  <2>. USE <1>4 DEF Load, env
  <2>1. CASE ~IsTerminal(run)
    <3>1. Placed(o) /\ pc'[o] = "cancelling" /\ seen'[o] = run
      BY <1>1, <2>1, Took DEF Places
    <3>. QED BY <2>1, <3>1, OperatorMoves
  <2>2. CASE IsTerminal(run)
    <3>1. Placed(o) /\ pc'[o] = "gone"
      BY <1>1, <2>2, Went DEF Places
    <3>. QED BY <3>1, OperatorMoves
  <2>. QED BY <2>1, <2>2
<1>5. CASE Commit(o, "pausing", RunPaused(seen[o]))
  <2>1. Placed(o) /\ pc'[o] = "gone"
    BY <1>1, <1>5, Went DEF Commit, Places
  <2>2. ~IsTerminal(run)
    BY <1>5 DEF Commit, Commits, At, IInv, CopyInv, IsTerminal, Terminal
  <2>3. run' \in Rows /\ run'.status = "paused"
    BY <1>1, <1>2, <1>5, RowsFit, RowColumns DEF Commit
  <2>. QED BY <1>5, <2>1, <2>2, <2>3, OperatorMoves DEF Commit, env
<1>6. CASE Commit(o, "cancelling", RunCancelled(seen[o]))
  <2>1. Placed(o) /\ pc'[o] = "gone"
    BY <1>1, <1>6, Went DEF Commit, Places
  <2>2. ~IsTerminal(run)
    BY <1>6 DEF Commit, Commits, At, IInv, CopyInv, IsTerminal
  <2>3. run' \in Rows /\ run'.status = "cancelled"
    BY <1>1, <1>2, <1>6, RowsFit, RowColumns DEF Commit
  <2>. QED BY <1>6, <2>1, <2>2, <2>3, OperatorMoves DEF Commit, env
<1>7. CASE RequestRefused(o)
  <2>1. Placed(o) /\ pc'[o] = "gone"
    BY <1>1, <1>7, Went DEF RequestRefused, Places
  <2>. QED BY <1>7, <2>1, OperatorMoves DEF RequestRefused, env
<1>. QED BY <1>3, <1>4, <1>5, <1>6, <1>7 DEF Operator, PauseRun, CancelRun

\* A dispatch is cancelled: one that waits for a human releases the run and gives
\* its step an error, the others are only marked.
LEMMA CancelDispatchKeeps ==
  ASSUME FanOutAssumption, IInv, NEW s \in Steps, CancelDispatch(s)
  PROVE  IInv'
<1>. USE StepAt
<1>1. /\ DispatchTo(s, "cancelled") /\ Open(s)
      /\ UNCHANGED <<saved, recorded, tries, questions, started>>
  BY DEF CancelDispatch
<1>2. Carried(s) /\ dispatch'[s] = "cancelled"
  BY <1>1, DispatchSet DEF Dispatched, Terminal
<1>3. CASE At(s, "await")
  <2>1. Placed(s) /\ pc'[s] = "failed"
    BY <1>3, Went DEF CancelDispatch, Places
  <2>2. StepFits(s, pc[s], dispatch[s])' /\ StepCopyFits(pc[s], seen[s])'
    BY <1>2, <2>1 DEF StepFits, StepCopyFits, Ended
  <2>3. dispatch[s] = "waiting_hitl" /\ questions > 0 /\ pc[s] \notin Ended
    BY <1>3 DEF At, StepFits, StepCopyFits, Ended
  <2>4. CASE run.status = "waiting_hitl"
    <3>1. run' = HitlReleased(run) /\ run.vars_json = {}
      BY <2>3, <2>4 DEF CancelDispatch
    <3>2. run' \in Rows /\ run'.status = "running" /\ run'.vars_json = {}
      BY <3>1, RowsFit, RowColumns
    <3>. QED BY <1>1, <1>2, <2>1, <2>2, <2>3, <2>4, <3>2, Moves DEF OnlyMoves
  <2>5. CASE run.status # "waiting_hitl"
    BY <1>1, <1>2, <2>1, <2>2, <2>3, <2>5, Moves DEF OnlyMoves, CancelDispatch
  <2>. QED BY <2>4, <2>5
<1>4. CASE ~At(s, "await")
  <2>1. dispatch[s] # "waiting_hitl"
    BY <1>4 DEF At, StepFits, Ended
  <2>2. run' = run /\ UNCHANGED <<pc, seen>>
    BY <1>4, <2>1 DEF CancelDispatch
  <2>3. StepFits(s, pc[s], dispatch[s])'
    BY <1>1, <1>2, <1>4, <2>2 DEF StepFits, Ended, At, Open
  <2>4. dispatch' \in [Steps -> Dispatched] /\ \A t \in Steps : t # s => dispatch'[t] = dispatch[t]
    BY <1>2 DEF IInv, Types, TypeOK, Carried, Dispatched
  <2>5. Types'
    BY <1>1, <2>2, <2>4 DEF IInv, Types, TypeOK, Dispatched
  <2>6. StepInv'
    BY <1>1, <2>2, <2>3, <2>4 DEF IInv, StepInv, StepFits
  <2>7. ExecutorInv' /\ RowInv' /\ CopyInv'
    BY <1>1, <2>2 DEF IInv, ExecutorInv, RowInv, CopyInv, StepCopyFits, Joined, At, Current,
           NoActiveHitl
  <2>. QED BY <2>5, <2>6, <2>7 DEF IInv
<1>. QED BY <1>3, <1>4

-----------------------------------------------------------------------------
(* Theorems                                                                  *)

LEMMA InitHolds ==
  ASSUME FanOutAssumption, Init
  PROVE  IInv
<1>1. 1 \in Steps
  BY DEF FanOutAssumption, Steps
<1>2. run \in Rows /\ run.status = "running" /\ run.vars_json = {} /\ NoActiveHitl(run)
  <2>1. run = [Detached(CreatedRow) EXCEPT !.status = "running", !.current_step_id = 1]
    BY DEF Init, RunStarted
  <2>2. run \in Rows
    BY <1>1, CreatedFits, RowsFit DEF Init
  <2>. QED BY <2>1, <2>2 DEF Detached, CreatedRow, NoActiveHitl
<1>3. /\ pc[Main] = "join"
      /\ \A t \in Steps : pc[t] = "new"
      /\ \A o \in Operators : pc[o] = "ready"
      /\ pc \in [Procs -> Places]
  BY Distinct DEF Init, Places
<1>4. Types
  BY <1>2, <1>3, CreatedFits DEF Init, Types, TypeOK, Rows, FanOutAssumption
<1>5. StepInv
  BY <1>3 DEF StepInv, StepFits, Init, Ended
<1>6. ExecutorInv /\ RowInv /\ CopyInv
  BY <1>2, <1>3 DEF ExecutorInv, RowInv, CopyInv, StepCopyFits, Joined, At, Init, Terminal
<1>. QED BY <1>4, <1>5, <1>6 DEF IInv

LEMMA NextKeeps ==
  ASSUME FanOutAssumption, IInv, [Next]_vars
  PROVE  IInv'
<1>1. CASE UNCHANGED vars
  BY <1>1 DEF vars, env, IInv, Types, TypeOK, StepInv, StepFits, ExecutorInv, RowInv, CopyInv,
         StepCopyFits, Joined, At, Current, NoActiveHitl
<1>. QED
  BY <1>1, StepsKeep, CancelDispatchKeeps, ExecutorKeeps, OperatorKeeps DEF Next, Rest

\* The inductive invariant of a group of fan-out steps: where a step, the executor
\* and the operators are says what the row, the dispatches and the copies hold.
THEOREM Invariant ==
  ASSUME FanOutAssumption
  PROVE  Spec => []IInv
<1>1. Init => IInv
  BY InitHolds
<1>2. IInv /\ [Next]_vars => IInv'
  BY NextKeeps
<1>. QED BY <1>1, <1>2, PTL DEF Spec

\* The row, the dispatches and the retries of the steps have their types.
THEOREM TypeCorrect ==
  ASSUME FanOutAssumption
  PROVE  Spec => []TypeOK
<1>1. IInv => TypeOK
  BY DEF IInv, Types
<1>. QED BY <1>1, Invariant, PTL

\* A run that completed holds the output of every step whose dispatch completed,
\* also those that ended while another step waited for a human; it lacks only
\* the steps that may be skipped.
THEOREM NothingLost ==
  ASSUME FanOutAssumption
  PROVE  Spec => []SavedTogether
<1>1. IInv => SavedTogether
  <2>. SUFFICES ASSUME IInv, run.status = "completed", NEW s \in Steps
                PROVE  IF s \in run.vars_json THEN dispatch[s] = "completed"
                       ELSE Mode[s] = "skip" /\ dispatch[s] \in {"failed", "cancelled"}
    BY DEF SavedTogether
  <2>1. recorded = Steps /\ run.vars_json = {t \in Steps : pc[t] = "ok"}
    BY DEF IInv, RowInv, ExecutorInv
  <2>2. pc[s] \in {"ok", "none"}
    BY <2>1 DEF IInv, ExecutorInv
  <2>. QED BY <2>1, <2>2 DEF IInv, StepInv, StepFits
<1>. QED BY <1>1, Invariant, PTL

\* A run fails in the name of the first step that failed: those before it are
\* saved or skipped.
THEOREM FirstFails ==
  ASSUME FanOutAssumption
  PROVE  Spec => []FailsInOrder
<1>1. IInv => FailsInOrder
  <2>. SUFFICES ASSUME IInv, run.status = "failed"
                PROVE  LET s == run.current_step_id
                       IN  /\ Unfinished(s)
                           /\ Mode[s] # "skip" \/ (s \notin started /\ questions > 0)
                           /\ \A t \in 1 .. s - 1 :
                                t \in run.vars_json \/ (Mode[t] = "skip" /\ Unfinished(t))
    BY DEF FailsInOrder
  <2>. DEFINE c == Current
  <2>1. recorded # Steps /\ pc[c] = "err" /\ run.current_step_id = c
    BY DEF IInv, RowInv
  <2>2. c \in Steps \ recorded /\ \A t \in Steps \ recorded : c =< t
    BY <2>1, ExecutorAt, CurrentIsFirst
  <2>3. Unfinished(c) /\ (Mode[c] # "skip" \/ (c \notin started /\ questions > 0))
    BY <2>1, <2>2 DEF IInv, StepInv, StepFits, Unfinished
  <2>4. ASSUME NEW t \in 1 .. c - 1
        PROVE  t \in run.vars_json \/ (Mode[t] = "skip" /\ Unfinished(t))
    <3>1. t \in Steps /\ ~(c =< t)
      BY <2>2 DEF Steps, FanOutAssumption
    <3>2. t \in recorded
      BY <2>2, <3>1
    <3>3. run.vars_json = {u \in recorded : pc[u] = "ok"} /\ pc[t] \in {"ok", "none"}
      BY <3>2 DEF IInv, RowInv, ExecutorInv
    <3>. QED BY <3>1, <3>2, <3>3 DEF IInv, StepInv, StepFits, Unfinished
  <2>5. \A t \in 1 .. run.current_step_id - 1 :
          t \in run.vars_json \/ (Mode[t] = "skip" /\ Unfinished(t))
    BY <2>1, <2>4
  <2>. QED BY <2>1, <2>3, <2>5
<1>. QED BY <1>1, Invariant, PTL

-----------------------------------------------------------------------------
(* The life cycle                                                            *)

\* The statuses and what they wait for, as RunLifecycle has them.
Lifecycle == INSTANCE RunLifecycle WITH Awaitable <- Steps, status <- run.status,
                                        awaited <- run.waiting_ref

\* However many steps of the group start, ask, are answered and end at once, and
\* operators pause and cancel beside them, every write of the row is a step of the
\* life of a run: one question at a time parks it, and it says which one.
FollowsLifecycle == [][Lifecycle!Next]_<<run.status, run.waiting_ref>>

\* Only a row that waits says for what; nor does a copy of another row.
Attached(r) == r.status # "waiting_hitl" => r.waiting_ref = None

AttachedInv == Attached(run) /\ \A p \in Procs : Attached(seen[p])

\* What a step may do to the row, and to the copies.
RowMoves ==
  \/ UNCHANGED run
  \/ \E p \in Procs :
       /\ run.status = "running" /\ seen[p].status = "running"
       /\ \/ run'.status = "running" /\ run'.waiting_ref = seen[p].waiting_ref
          \/ run'.status = "waiting_hitl" /\ run'.waiting_ref \in Steps
  \/ /\ run'.waiting_ref = None
     /\ \/ run.status = "waiting_hitl" /\ run'.status = "running"
        \/ run.status = "running" /\ run'.status \in {"paused", "completed", "failed"}
        \/ run.status \notin Terminal /\ run'.status = "cancelled"

CopiesMove == \A p \in Procs : seen'[p] \in {seen[p], run, CreatedRow}

\* What the rows that are written wait for.
LEMMA RowWaits ==
  ASSUME NEW r \in Rows, NEW s \in Steps, NEW v \in SUBSET Steps
  PROVE  /\ StepStarted(r, s, s).waiting_ref = r.waiting_ref
         /\ StepSkipped(r, s).waiting_ref = r.waiting_ref
         /\ StepFailed(r, s).waiting_ref = r.waiting_ref
         /\ StepCompleted(r, s, v).waiting_ref = r.waiting_ref
         /\ HitlRequested(r, s, s, s).waiting_ref = s
         /\ HitlAnswered(r, s).waiting_ref = None
         /\ HitlReleased(r).waiting_ref = None
         /\ RunCompleted(r).waiting_ref = None
         /\ RunFailed(r, s).waiting_ref = None
         /\ RunPaused(r).waiting_ref = None
         /\ RunCancelled(r).waiting_ref = None
  BY DEF Rows, Row, StepStarted, StepSkipped, StepFailed, StepCompleted, HitlRequested,
         HitlAnswered, HitlReleased, RunCompleted, RunFailed, RunPaused, RunCancelled, Detached

\* Every row that is written is one of these moves.
LEMMA EveryWrite ==
  ASSUME FanOutAssumption, IInv, [Next]_vars
  PROVE  RowMoves
<1>1. run \in Rows /\ \A p \in Procs : seen[p] \in Rows
  BY DEF IInv, Types, TypeOK, Rows
<1>2. Steps \subseteq Procs /\ Operators \subseteq Procs /\ Main \in Procs
  BY DEF Procs
<1>3. ASSUME NEW s \in Steps, Step(s) PROVE RowMoves
  <2>1. CASE Commits(s, "started") /\ run' = StepStarted(seen[s], s, s)
    <3>1. seen[s].status = "running" /\ run.status = "running"
      BY <2>1 DEF Commits, At, IInv, CopyInv, StepCopyFits
    <3>2. s \in Procs /\ seen[s] \in Rows
      BY <1>1, <1>2
    <3>3. run'.status = "running"
      BY <2>1, <3>1, <3>2, RowColumns
    <3>4. run'.waiting_ref = seen[s].waiting_ref
      BY <2>1, <3>2, RowWaits
    <3>. QED BY <3>1, <3>2, <3>3, <3>4 DEF RowMoves
  <2>2. CASE Commits(s, "asking") /\ run' = HitlRequested(seen[s], s, s, s)
    <3>1. seen[s].status = "running" /\ run.status = "running"
      BY <2>2 DEF Commits, At, IInv, CopyInv, StepCopyFits
    <3>. QED BY <1>1, <1>2, <2>2, <3>1, RowColumns, RowWaits DEF RowMoves
  <2>3. CASE run.status = "waiting_hitl" /\ run' = HitlAnswered(run, s)
    BY <1>1, <2>3, RowColumns, RowWaits DEF RowMoves
  <2>4. CASE UNCHANGED run
    BY <2>4 DEF RowMoves
  <2>. QED
    BY <1>3, <2>1, <2>2, <2>3, <2>4
       DEF Step, CreateDispatch, RecordStarted, BeginTurn, Conclude, TurnFails, Ask, Answer,
           StepTimeout, AfterFailure, Load
<1>4. ASSUME NEW s \in Steps, CancelDispatch(s) PROVE RowMoves
  BY <1>1, <1>4, RowColumns, RowWaits DEF CancelDispatch, RowMoves
<1>5. CASE Executor
  <2>1. ASSUME NEW l \in {"result", "failRun", "complete"}, Commits(Main, l)
        PROVE  seen[Main].status = "running" /\ run.status = "running" /\ seen[Main] \in Rows
    BY <1>1, <1>2, <2>1 DEF Commits, At, IInv, CopyInv
  <2>2. CASE Commits(Main, "result") /\ run' = ResultRow(Current)
    <3>1. Current \in Steps /\ pc[Current] \in Ended
      BY <2>2, ExecutorAt, CurrentIsFirst DEF Commits, At, IInv, ExecutorInv, Joined
    <3>2. Saved(Current) \in SUBSET Steps
      BY <3>1 DEF Saved, IInv, Types, TypeOK
    <3>3. run'.status = "running" /\ run'.waiting_ref = seen[Main].waiting_ref
      BY <2>1, <2>2, <3>1, <3>2, RowColumns, RowWaits DEF ResultRow, Ended
    <3>. QED BY <1>2, <2>1, <2>2, <3>3 DEF RowMoves
  <2>3. CASE Commits(Main, "failRun") /\ run' = RunFailed(seen[Main], Current)
    <3>1. Current \in Steps
      BY <2>3, ExecutorAt, CurrentIsFirst DEF Commits, At, IInv, ExecutorInv
    <3>. QED BY <2>1, <2>3, <3>1, RowColumns, RowWaits DEF RowMoves
  <2>4. CASE Commits(Main, "complete") /\ run' = RunCompleted(seen[Main])
    BY <2>1, <2>4, RowColumns, RowWaits DEF RowMoves, FanOutAssumption, Steps
  <2>5. CASE UNCHANGED run
    BY <2>5 DEF RowMoves
  <2>. QED
    BY <1>5, <2>2, <2>3, <2>4, <2>5
       DEF Executor, JoinAll, RecordResult, RecordRunFailed, RecordRunCompleted, RefusedAtCommit,
           Load, Commit
<1>6. ASSUME NEW o \in Operators, Operator(o) PROVE RowMoves
  <2>1. CASE Commits(o, "pausing") /\ run' = RunPaused(seen[o])
    <3>1. run.status = "running"
      BY <2>1 DEF Commits, At, IInv, CopyInv
    <3>. QED BY <1>1, <1>2, <2>1, <3>1, RowColumns, RowWaits DEF RowMoves, FanOutAssumption, Steps
  <2>2. CASE Commits(o, "cancelling") /\ run' = RunCancelled(seen[o])
    <3>1. run.status \notin Terminal
      BY <2>2 DEF Commits, At, IInv, CopyInv, IsTerminal
    <3>2. seen[o] \in Rows /\ 1 \in Steps /\ {} \in SUBSET Steps
      BY <1>1, <1>2 DEF FanOutAssumption, Steps
    <3>3. run'.status = "cancelled"
      BY <2>2, <3>2, RowColumns
    <3>4. run'.waiting_ref = None
      BY <2>2, <3>2, RowWaits
    <3>. QED BY <3>1, <3>3, <3>4 DEF RowMoves
  <2>3. CASE UNCHANGED run
    BY <2>3 DEF RowMoves
  <2>. QED BY <1>6, <2>1, <2>2, <2>3 DEF Operator, PauseRun, CancelRun, RequestRefused, Load, Commit
<1>7. CASE Rest \/ UNCHANGED vars
  BY <1>7 DEF Rest, vars, RowMoves
<1>. QED BY <1>3, <1>4, <1>5, <1>6, <1>7 DEF Next

\* A copy is the row it was taken of.
LEMMA EveryCopy ==
  ASSUME FanOutAssumption, IInv, [Next]_vars
  PROVE  CopiesMove
<1>. DEFINE Moved(p) == \/ UNCHANGED seen
                        \/ seen' = [seen EXCEPT ![p] = run]
                        \/ seen' = [seen EXCEPT ![p] = CreatedRow]
<1>1. ASSUME NEW p \in Procs, Moved(p) PROVE CopiesMove
  BY <1>1 DEF CopiesMove, IInv, Types
<1>. HIDE DEF Moved
<1>2. Steps \subseteq Procs /\ Operators \subseteq Procs /\ Main \in Procs
  BY DEF Procs
<1>3. ASSUME NEW s \in Steps, Step(s) \/ CancelDispatch(s) PROVE Moved(s)
  BY <1>3 DEF Moved, Step, CreateDispatch, RecordStarted, BeginTurn, Conclude, TurnFails, Ask,
              Answer, StepTimeout, AfterFailure, CancelDispatch, Load, Goto
<1>4. Executor => Moved(Main)
  BY DEF Moved, Executor, JoinAll, RecordResult, RecordRunFailed, RecordRunCompleted,
         RefusedAtCommit, Load, Commit, Goto
<1>5. ASSUME NEW o \in Operators, Operator(o) PROVE Moved(o)
  BY <1>5 DEF Moved, Operator, PauseRun, CancelRun, RequestRefused, Load, Commit, Goto
<1>6. Rest \/ UNCHANGED vars => Moved(Main)
  BY DEF Moved, Rest, vars
<1>. QED BY <1>1, <1>2, <1>3, <1>4, <1>5, <1>6 DEF Next

\* A row that does not wait names nothing it waits for.
THEOREM OnlyWaitingWaits ==
  ASSUME FanOutAssumption
  PROVE  Spec => []AttachedInv
<1>1. Init => AttachedInv
  BY DEF Init, AttachedInv, Attached, RunStarted, Detached, CreatedRow
<1>2. IInv /\ AttachedInv /\ [Next]_vars => AttachedInv'
  <2>. SUFFICES ASSUME IInv, AttachedInv, [Next]_vars PROVE AttachedInv'
    OBVIOUS
  <2>1. Attached(run)'
    BY EveryWrite DEF RowMoves, AttachedInv, Attached
  <2>2. Attached(CreatedRow)
    BY DEF Attached, CreatedRow
  <2>3. \A p \in Procs : Attached(seen[p])'
    BY <2>2, EveryCopy DEF CopiesMove, AttachedInv, Attached
  <2>. QED BY <2>1, <2>3 DEF AttachedInv
<1>. QED BY <1>1, <1>2, Invariant, PTL DEF Spec

\* A run lives through a group of fan-out steps as RunLifecycle says.
THEOREM LifecycleFollowed ==
  ASSUME FanOutAssumption
  PROVE  Spec => FollowsLifecycle
<1>1. IInv /\ AttachedInv /\ AttachedInv' /\ [Next]_vars =>
        [Lifecycle!Next]_<<run.status, run.waiting_ref>>
  <2>. SUFFICES ASSUME IInv, AttachedInv, AttachedInv', [Next]_vars
                PROVE  [Lifecycle!Next]_<<run.status, run.waiting_ref>>
    OBVIOUS
  <2>. QED
    BY EveryWrite
       DEF RowMoves, AttachedInv, Attached, Terminal,
           Lifecycle!Next, Lifecycle!Park, Lifecycle!Wake, Lifecycle!Pause, Lifecycle!Complete,
           Lifecycle!Fail, Lifecycle!Cancel, Lifecycle!Become, Lifecycle!Waiting,
           Lifecycle!Finished
<1>. QED BY <1>1, Invariant, OnlyWaitingWaits, PTL DEF Spec, FollowsLifecycle

================================================================================
