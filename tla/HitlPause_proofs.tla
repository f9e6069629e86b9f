---------------------------- MODULE HitlPause_proofs ----------------------------
(***************************************************************************)
(* Proofs about HitlPause, for any number of clients of any kind, any      *)
(* error mode and retries, any number of questions, timeouts and crashes.  *)
(*                                                                         *)
(* Three rows are read one by one and written together, with the statuses  *)
(* compared and nothing else.  The inductive invariant says what each      *)
(* reader tested on its copies, and it ties the questions to the run: a    *)
(* question that is still to be decided is the one the run waits for,      *)
(* unless the run is finished or the dispatch cancelled for good.          *)
(***************************************************************************)
EXTENDS HitlPause, FiniteSetTheorems, TLAPS

\* The statuses of a run in the middle of its step, and what they say of the rest.
RowOK(r) ==
  /\ r.status \notin {"pending", "waiting_signal"}
  /\ IF r.status = "waiting_hitl"
     THEN /\ r.waiting_kind = "hitl"
          /\ r.waiting_ref = r.active_hitl_request_id
          /\ r.active_hitl_request_id # None
          /\ r.active_dispatch_id = ThisDispatch
     ELSE r.waiting_kind = None /\ r.waiting_ref = None
  /\ r.status = "running" => NoActiveHitl(r)

Fits(r) == r \in RunRow /\ RowOK(r)

\* Labels that commit a run only if it was running when they read it.
Recording == {"ask", "stepCompleted", "stepSkipped", "stepFailed", "runCompleted",
              "markStep", "runFailed", "markRun", "pauseRun"}

Deciding == {"answer", "cancelRequest", "expired"}

\* What the process at label t tested on the run it read.
RunGuard(t, r) ==
  /\ t \in Recording => r.status = "running"
  /\ t = "cancelRun" => ~IsTerminal(r)
  /\ t \in Recording \cup Deciding \cup {"cancelRun", "listed"}

\* What it tested on the dispatch.
DispatchGuard(t, status) ==
  /\ t = "mark" => status \in {"pending", "waiting_hitl"}
  /\ t \in {"conclude", "ask"} => status = "running"
  /\ t \in {"turnFailed", "error", "cancelDispatch", "listed"} => status \in Open
  /\ t = "retry" => status = "failed"
  /\ t \in Deciding => status = "waiting_hitl"
  /\ t \in Deciding \cup {"mark", "conclude", "ask", "turnFailed", "error",
                          "cancelDispatch", "listed", "retry"}

\* What p knows from the rows it read.
Knows(p) ==
  /\ seen[p].run # None => RowOK(seen[p].run) /\ RunGuard(pc[p], seen[p].run)
  /\ seen[p].dispatch # None => DispatchGuard(pc[p], seen[p].dispatch.status)
  /\ pc[p] \in Deciding /\ seen[p].dispatch # None =>
       /\ seen[p].run # None /\ seen[p].run.status = "waiting_hitl"
       /\ pc[p] = "answer" => seen[p].run.active_hitl_request_id = about[p]
  /\ pc[p] = "listed" => seen[p].dispatch # None

\* The request p deals with, and who deals with requests at all.
Concerns(p) ==
  /\ pc[p] \in {"answer", "cancelRequest"} /\ seen[p].run # None =>
       about[p] \in Requests /\ hitl[about[p]] # "none"
  /\ pc[p] \in {"expired", "wakeExpired"} =>
       about[p] \in Requests /\ hitl[about[p]] = "timed_out"
  /\ pc[p] = "deliver" => about[p] \in Requests /\ hitl[about[p]] = "answered"
  /\ pc[p] = "detach" => about[p] \in Requests /\ hitl[about[p]] = "cancelled"
  /\ pc[p] \in {"register", "await"} => about[p] \in Requests
  /\ pc[p] \in {"sweep", "expired", "wakeExpired"} => p \in Doing("sweep")
  /\ pc[p] \in {"cancelDispatch", "listed"} => p \in Doing("cancelDispatch")

\* An expired question is dealt with by one sweep.
OneSweepEach ==
  \A p, q \in Procs :
    pc[p] = "expired" /\ pc[q] = "expired" /\ about[p] = about[q] => p = q

\* A question is outstanding while it is pending and while a sweep that expired it
\* has not dealt with the run.
Outstanding(h) ==
  hitl[h] = "pending" \/ \E c \in Procs : pc[c] = "expired" /\ about[c] = h

Settled == IsTerminal(run) \/ dispatch.status = "cancelled"

QuestionInv ==
  \A h \in Requests :
    Outstanding(h) =>
      \/ run.status = "waiting_hitl" /\ run.active_hitl_request_id = h
      \/ Settled

\* Who asks finds a number for the question; who retries has a retry left.
Asking == {p \in Executors : pc[p] = "ask"}

Unasked == {h \in Requests : hitl[h] = "none"}

AskInv == Cardinality(Asking) <= Cardinality(Unasked)

TriesInv == \A p \in Executors : pc[p] = "retry" => tries[p] < MaxRetries

\* The inductive invariant.
IInv ==
  /\ TypeOK /\ RowOK(run)
  /\ \A p \in Procs : Knows(p) /\ Concerns(p)
  /\ OneSweepEach /\ QuestionInv /\ AskInv /\ TriesInv

\* What a step does to the questions and to the run's life.
DecisionsKept ==
  \A h \in Requests : /\ hitl[h] \in Decided => hitl'[h] = hitl[h]
                      /\ hitl[h] # "none" => hitl'[h] # "none"

AnswersActive ==
  \A h \in Requests : hitl[h] = "pending" /\ hitl'[h] = "answered"
    => run.active_hitl_request_id = h /\ run.status = "waiting_hitl"

LifeGoesOn == Lifecycle!Next \/ UNCHANGED <<run.status, run.waiting_ref>>

\* What is proved of every step.
StepOK == IInv' /\ DecisionsKept /\ AnswersActive /\ LifeGoesOn

--------------------------------------------------------------------------------
(***************************************************************************)
(* Next rows, built from a row on which the guard holds.                   *)
(***************************************************************************)
\* Constants that differ.
LEMMA Constants ==
  /\ None \notin Requests /\ ThisStep = 1 /\ Main \in Procs
  /\ Executors \subseteq Procs /\ Clients \subseteq Procs /\ Main \in Executors
  /\ \A a : Doing(a) \subseteq Clients
  /\ \A c \in Clients : ActionOf[c] \in Actions
  /\ \A c \in Clients : c \in Doing(ActionOf[c])
  /\ MaxRetries \in Nat /\ MaxQuestions \in Nat /\ MaxTimeouts \in Nat /\ MaxCrashes \in Nat
  /\ Requests \subseteq Nat
BY HitlAssumption DEF Requests, Procs, Executors, Doing, ThisStep

\* The rows of the executor's transitions, from a row that says "running".
LEMMA RecordedFits ==
  ASSUME NEW r, Fits(r), r.status = "running"
  PROVE  /\ Fits(StepCompleted(r, ThisStep, {ThisStep}))
         /\ Fits(StepSkipped(r, ThisStep)) /\ Fits(StepFailed(r, ThisStep))
         /\ Fits(RunCompleted(r)) /\ Fits(RunFailed(r, ThisStep)) /\ Fits(RunPaused(r))
         /\ StepCompleted(r, ThisStep, {ThisStep}).status = "running"
         /\ StepSkipped(r, ThisStep).status = "running"
         /\ StepFailed(r, ThisStep).status = "running"
         /\ RunCompleted(r).status = "completed" /\ RunFailed(r, ThisStep).status = "failed"
         /\ RunPaused(r).status = "paused"
<1> USE NoneAssumption DEF Fits, RowOK, RunRow, Row, Statuses, Terminal, ThisStep, NoActiveHitl
<1>1. /\ Fits(StepCompleted(r, ThisStep, {ThisStep}))
      /\ StepCompleted(r, ThisStep, {ThisStep}).status = "running"
  BY DEF StepCompleted, StepStarted
<1>2. Fits(StepSkipped(r, ThisStep)) /\ StepSkipped(r, ThisStep).status = "running"
  BY DEF StepSkipped, StepStarted
<1>3. Fits(StepFailed(r, ThisStep)) /\ StepFailed(r, ThisStep).status = "running"
  BY DEF StepFailed, StepStarted
<1>4. Fits(RunCompleted(r)) /\ RunCompleted(r).status = "completed"
  BY DEF RunCompleted, Detached
<1>5. Fits(RunFailed(r, ThisStep)) /\ RunFailed(r, ThisStep).status = "failed"
  BY DEF RunFailed, Detached
<1>6. Fits(RunPaused(r)) /\ RunPaused(r).status = "paused"
  BY DEF RunPaused, Detached
<1> QED BY <1>1, <1>2, <1>3, <1>4, <1>5, <1>6

\* The row of a question that has been asked.
LEMMA RequestedFits ==
  ASSUME NEW r, Fits(r), NEW h \in Requests
  PROVE  LET asked == HitlRequested(r, ThisStep, ThisDispatch, h)
         IN  /\ Fits(asked) /\ asked.status = "waiting_hitl" /\ asked.waiting_ref = h
             /\ asked.active_hitl_request_id = h
BY Constants, NoneAssumption
   DEF Fits, RowOK, RunRow, Row, Statuses, Terminal, ThisStep, HitlRequested, NoActiveHitl

\* The rows of a question that has been decided.
LEMMA DecidedFits ==
  ASSUME NEW r, Fits(r)
  PROVE  /\ Fits(HitlAnswered(r, ThisDispatch))
         /\ HitlAnswered(r, ThisDispatch).status = "running"
         /\ Fits(HitlReleased(r)) /\ HitlReleased(r).status = "running"
BY NoneAssumption
   DEF Fits, RowOK, RunRow, Row, Statuses, Terminal, HitlAnswered, HitlReleased, Detached,
       NoActiveHitl

\* The row of a cancelled run, and the one the recovery scan leaves.
LEMMA CancelledFits ==
  ASSUME NEW r, Fits(r)
  PROVE  /\ Fits(RunCancelled(r)) /\ RunCancelled(r).status = "cancelled"
         /\ Fits(RunRecovered(r))
         /\ r.status = "running" => RunRecovered(r).status = "paused"
         /\ r.status # "running" => RunRecovered(r) = r
<1> USE NoneAssumption DEF Fits, RowOK, RunRow, Row, Statuses, Terminal, NoActiveHitl
<1>1. Fits(RunCancelled(r)) /\ RunCancelled(r).status = "cancelled"
  BY DEF RunCancelled
<1>2. CASE r.status = "running"
  BY <1>1, <1>2 DEF RunRecovered
<1>3. CASE r.status # "running"
  BY <1>1, <1>3 DEF RunRecovered
<1> QED BY <1>1, <1>2, <1>3

\* Between two rows that fit, what the status does is what the lifecycle does.
LEMMA LifeOf ==
  ASSUME Fits(run), Fits(run'),
         \/ run' = run
         \/ run'.status = run.status /\ run.status # "waiting_hitl"
         \/ run.status = "running" /\ run'.status \in {"waiting_hitl", "paused", "completed", "failed"}
         \/ run.status = "waiting_hitl" /\ run'.status = "running"
         \/ ~IsTerminal(run) /\ run'.status = "cancelled"
  PROVE  LifeGoesOn
BY Constants, NoneAssumption
   DEF LifeGoesOn, Fits, RowOK, RunRow, Row, Statuses, Terminal, IsTerminal,
       Lifecycle!Next, Lifecycle!Start, Lifecycle!Park, Lifecycle!Wake, Lifecycle!Pause,
       Lifecycle!Resume, Lifecycle!Complete, Lifecycle!Fail, Lifecycle!Cancel,
       Lifecycle!Become, Lifecycle!Waiting, Lifecycle!Finished

--------------------------------------------------------------------------------
(***************************************************************************)
(* Numbers for questions.                                                  *)
(***************************************************************************)
\* The sets that are compared are finite.
LEMMA AskFinite ==
  /\ IsFiniteSet(Executors)
  /\ IsFiniteSet(Asking) /\ Cardinality(Asking) \in Nat
  /\ IsFiniteSet(Unasked) /\ Cardinality(Unasked) \in Nat
<1>1. IsFiniteSet(Clients \cup {Main})
  BY HitlAssumption, FS_AddElement
<1>2. Executors \subseteq Clients \cup {Main}
  BY DEF Executors, Doing
<1>3. IsFiniteSet(Executors)
  BY <1>1, <1>2, FS_Subset
<1>4. IsFiniteSet(Requests)
  BY Constants, FS_Interval DEF Requests
<1>5. Asking \subseteq Executors /\ Unasked \subseteq Requests
  BY DEF Asking, Unasked
<1>6. IsFiniteSet(Asking) /\ IsFiniteSet(Unasked)
  BY <1>3, <1>4, <1>5, FS_Subset
<1> QED BY <1>3, <1>6, FS_CardinalityType

\* Nobody else asks and no number is used up.
LEMMA AskKept ==
  ASSUME AskInv,
         \A q \in Executors : pc'[q] = "ask" => pc[q] = "ask",
         \A h \in Requests : hitl[h] = "none" => hitl'[h] = "none"
  PROVE  AskInv'
<1>1. Asking' \subseteq Asking /\ Unasked \subseteq Unasked'
  BY DEF Asking, Unasked
<1>2. IsFiniteSet(Unasked')
  <2>1. IsFiniteSet(Requests)
    BY Constants, FS_Interval DEF Requests
  <2> QED BY <2>1, FS_Subset DEF Unasked
<1>3. Cardinality(Asking') <= Cardinality(Asking) /\ Cardinality(Asking') \in Nat
  BY <1>1, AskFinite, FS_Subset, FS_CardinalityType
<1>4. Cardinality(Unasked) <= Cardinality(Unasked') /\ Cardinality(Unasked') \in Nat
  BY <1>1, <1>2, AskFinite, FS_Subset, FS_CardinalityType
<1> QED BY <1>3, <1>4, AskFinite DEF AskInv

\* One more asks, while a number is left for it.
LEMMA AskGranted ==
  ASSUME AskInv, CanAsk, NEW p, hitl' = hitl,
         \A q \in Executors : pc'[q] = "ask" => pc[q] = "ask" \/ q = p
  PROVE  AskInv'
<1>1. Unasked' = Unasked /\ Asking' \subseteq Asking \cup {p}
  BY DEF Asking, Unasked
<1>2. Cardinality(Asking) < Cardinality(Unasked)
  BY AskFinite DEF CanAsk, Asking, Unasked
<1>3. /\ IsFiniteSet(Asking \cup {p})
      /\ Cardinality(Asking \cup {p}) <= Cardinality(Asking) + 1
      /\ Cardinality(Asking \cup {p}) \in Nat
  <2>1. /\ IsFiniteSet(Asking \cup {p})
        /\ Cardinality(Asking \cup {p}) =
             IF p \in Asking THEN Cardinality(Asking) ELSE Cardinality(Asking) + 1
    <3> HIDE DEF Asking
    <3> QED BY AskFinite, FS_AddElement
  <2> QED BY <2>1, AskFinite
<1>4. /\ Cardinality(Asking') <= Cardinality(Asking \cup {p})
      /\ Cardinality(Asking') \in Nat
  BY <1>1, <1>3, FS_Subset, FS_CardinalityType
<1> QED BY <1>1, <1>2, <1>3, <1>4, AskFinite DEF AskInv

\* Whoever asks has a number.
LEMMA NumberLeft ==
  ASSUME AskInv, NEW p \in Executors, pc[p] = "ask"
  PROVE  NextRequest \in Requests /\ hitl[NextRequest] = "none"
<1>1. Asking # {} /\ Cardinality(Asking) # 0
  BY AskFinite, FS_EmptySet DEF Asking
<1>2. Cardinality(Unasked) # 0
  BY <1>1, AskFinite DEF AskInv
<1>3. Unasked # {}
  BY <1>2, FS_EmptySet
<1> QED BY <1>3 DEF Unasked, NextRequest

\* p has asked: one number less, and one less that asks.
LEMMA AskTaken ==
  ASSUME AskInv, NEW p \in Executors, pc[p] = "ask", NEW h \in Requests, hitl[h] = "none",
         pc'[p] # "ask", \A q \in Executors \ {p} : pc'[q] = pc[q],
         \A g \in Requests \ {h} : hitl'[g] = hitl[g]
  PROVE  AskInv'
<1>1. Asking' = Asking \ {p} /\ p \in Asking
  BY DEF Asking
<1>2. Unasked \ {h} \subseteq Unasked' /\ h \in Unasked
  BY DEF Unasked
<1>3. IsFiniteSet(Unasked') /\ Cardinality(Unasked') \in Nat
  <2>1. IsFiniteSet(Requests)
    BY Constants, FS_Interval DEF Requests
  <2> QED BY <2>1, FS_Subset, FS_CardinalityType DEF Unasked
<1>4. Cardinality(Asking') = Cardinality(Asking) - 1
  BY <1>1, AskFinite, FS_RemoveElement
<1>5. Cardinality(Unasked \ {h}) = Cardinality(Unasked) - 1
  BY <1>2, AskFinite, FS_RemoveElement
<1>6. Cardinality(Unasked \ {h}) <= Cardinality(Unasked')
  BY <1>2, <1>3, FS_Subset
<1> QED BY <1>3, <1>4, <1>5, <1>6, AskFinite DEF AskInv

--------------------------------------------------------------------------------
(***************************************************************************)
(* The shapes of a step.                                                   *)
(***************************************************************************)
LiveTyped ==
  /\ registry \in [Requests -> Executors \cup {None}]
  /\ inbox \in [Executors -> {None, "answer", "closed"}]
  /\ up \in BOOLEAN
  /\ timeouts \in 0 .. MaxTimeouts /\ crashes \in 0 .. MaxCrashes

\* A process that gives up its copies knows nothing; the others know what they knew.
LEMMA StepKeeps ==
  ASSUME IInv, NEW p \in Procs, NEW t \in Labels \ {"listed"}, Goto(p, t),
         TypeOK', RowOK(run'), DecisionsKept,
         \A q \in Procs \ {p} : about'[q] = about[q],
         Concerns(p)', OneSweepEach', QuestionInv', AskInv', TriesInv'
  PROVE  IInv'
<1> USE DEF IInv, Goto
<1>1. ASSUME NEW q \in Procs PROVE Knows(q)'
  <2>1. CASE q = p
    BY <2>1 DEF TypeOK, Knows, Blank
  <2>2. CASE q # p
    BY <2>2 DEF TypeOK, Knows
  <2> QED BY <2>1, <2>2
<1>2. ASSUME NEW q \in Procs PROVE Concerns(q)'
  <2>1. CASE q # p
    BY <2>1 DEF TypeOK, Concerns, DecisionsKept, Decided
  <2> QED BY <2>1
<1> QED BY <1>1, <1>2

\* Nobody expires anything: no question becomes outstanding by a change of label.
LEMMA SweepsKept ==
  ASSUME IInv, NEW p \in Procs, NEW t \in Labels, t # "expired", Goto(p, t),
         \A q \in Procs \ {p} : about'[q] = about[q]
  PROVE  /\ OneSweepEach'
         /\ \A h : (\E c \in Procs : pc'[c] = "expired" /\ about'[c] = h)
                  => \E c \in Procs : pc[c] = "expired" /\ about[c] = h
BY DEF IInv, TypeOK, Goto, OneSweepEach

\* No row is written.
LEMMA MoveKeeps ==
  ASSUME IInv, NEW p \in Procs, NEW t \in Labels \ {"expired", "listed"}, Goto(p, t),
         UNCHANGED <<durable, about, tries>>, LiveTyped', Concerns(p)',
         t = "ask" => AskInv',
         t = "retry" => p \in Executors /\ tries[p] < MaxRetries
  PROVE  StepOK
<1> USE DEF Goto, durable
<1>1. TypeOK'
  BY DEF IInv, TypeOK, LiveTyped, Blank
<1>2. RowOK(run') /\ DecisionsKept /\ AnswersActive /\ LifeGoesOn
  BY DEF IInv, DecisionsKept, AnswersActive, LifeGoesOn
<1>3. OneSweepEach' /\ QuestionInv'
  BY SweepsKept DEF IInv, QuestionInv, Outstanding, Settled
<1>4. AskInv'
  BY AskKept DEF IInv, TypeOK
<1>5. TriesInv'
  BY Constants DEF IInv, TypeOK, TriesInv
<1> QED BY <1>1, <1>2, <1>3, <1>4, <1>5, StepKeeps DEF StepOK

\* Labels that concern no request.
Plain == Labels \ {"expired", "wakeExpired", "deliver", "detach", "register", "await",
                   "sweep", "cancelDispatch", "listed"}

\* A move to such a label.
LEMMA PlainConcern ==
  ASSUME IInv, NEW p \in Procs, NEW t, Goto(p, t), t \in Plain \/ t = Idle(p)
  PROVE  Concerns(p)' /\ t \in Labels \ {"expired", "listed"} /\ (t = Idle(p) => t \notin {"ask", "retry"})
<1>1. pc'[p] = t /\ seen'[p].run = None
  BY DEF IInv, TypeOK, Goto, Blank
<1>2. CASE t \in Plain
  BY <1>1, <1>2 DEF Concerns, Plain, Idle
<1>3. CASE t = Idle(p)
  BY <1>1, <1>3 DEF Concerns, Idle, Labels, Actions
<1> QED BY <1>2, <1>3

\* The run is read, or the process turns away.
LEMMA ReadRunKeeps ==
  ASSUME IInv, NEW p \in Procs, NEW t, NEW guard \in BOOLEAN, NEW otherwise,
         ReadRun(p, t, guard, otherwise),
         guard => RunGuard(t, run) /\ t \notin {"answer", "cancelRequest"},
         otherwise \in Plain \ {"ask", "retry"} \/ otherwise = Idle(p) \/ guard
  PROVE  StepOK
<1> USE DEF ReadRun, At
<1>1. CASE guard
  <2> USE <1>1 DEF durable, live, env
  <2>1. TypeOK'
    <3>1. seen \in [Procs -> [run : RunRow \cup {None}, dispatch : DispatchRow \cup {None},
                             requests : SUBSET Requests]]
      BY DEF IInv, TypeOK
    <3>2. [seen[p] EXCEPT !.run = run] \in [run : RunRow \cup {None},
                                           dispatch : DispatchRow \cup {None},
                                           requests : SUBSET Requests]
      BY <3>1 DEF IInv, TypeOK
    <3>3. seen' = [seen EXCEPT ![p] = [seen[p] EXCEPT !.run = run]]
      OBVIOUS
    <3>4. seen' \in [Procs -> [run : RunRow \cup {None}, dispatch : DispatchRow \cup {None},
                              requests : SUBSET Requests]]
      BY <3>1, <3>2, <3>3
    <3> QED BY <3>4 DEF IInv, TypeOK
  <2>2. \A q \in Procs : Knows(q)'
    BY DEF IInv, TypeOK, Knows
  <2>3. \A q \in Procs : Concerns(q)'
    BY DEF IInv, TypeOK, Concerns
  <2>4. /\ RowOK(run') /\ OneSweepEach' /\ QuestionInv' /\ TriesInv'
        /\ DecisionsKept /\ AnswersActive /\ LifeGoesOn
    BY DEF IInv, OneSweepEach, QuestionInv, Outstanding, Settled, TriesInv, DecisionsKept,
           AnswersActive, LifeGoesOn
  <2>5. AskInv'
    BY AskKept DEF IInv
  <2> QED BY <2>1, <2>2, <2>3, <2>4, <2>5 DEF IInv, StepOK
<1>2. CASE ~guard
  <2>1. Goto(p, otherwise) /\ UNCHANGED <<durable, about, tries>> /\ LiveTyped'
    BY <1>2 DEF IInv, TypeOK, LiveTyped, live, env
  <2> QED BY <1>2, <2>1, PlainConcern, MoveKeeps
<1> QED BY <1>1, <1>2

\* The dispatch is read, or the process turns away.
LEMMA ReadDispatchKeeps ==
  ASSUME IInv, NEW p \in Procs, NEW t, NEW guard \in BOOLEAN, NEW otherwise,
         ReadDispatch(p, t, guard, otherwise),
         guard => /\ DispatchGuard(t, dispatch.status)
                  /\ t \in Deciding =>
                       /\ seen[p].run # None /\ seen[p].run.status = "waiting_hitl"
                       /\ t = "answer" => seen[p].run.active_hitl_request_id = about[p],
         \/ otherwise \in Plain \ {"ask"} \/ otherwise = Idle(p),
         otherwise = "retry" => p \in Executors /\ tries[p] < MaxRetries
  PROVE  StepOK
<1> USE DEF ReadDispatch, At
<1>1. CASE guard
  <2> USE <1>1 DEF durable, live, env
  <2>1. TypeOK'
    <3>1. seen \in [Procs -> [run : RunRow \cup {None}, dispatch : DispatchRow \cup {None},
                             requests : SUBSET Requests]]
      BY DEF IInv, TypeOK
    <3>2. [seen[p] EXCEPT !.dispatch = dispatch] \in [run : RunRow \cup {None},
                                           dispatch : DispatchRow \cup {None},
                                           requests : SUBSET Requests]
      BY <3>1 DEF IInv, TypeOK
    <3>3. seen' = [seen EXCEPT ![p] = [seen[p] EXCEPT !.dispatch = dispatch]]
      OBVIOUS
    <3>4. seen' \in [Procs -> [run : RunRow \cup {None}, dispatch : DispatchRow \cup {None},
                              requests : SUBSET Requests]]
      BY <3>1, <3>2, <3>3
    <3> QED BY <3>4 DEF IInv, TypeOK
  <2>2. \A q \in Procs : Knows(q)'
    BY DEF IInv, TypeOK, Knows
  <2>3. \A q \in Procs : Concerns(q)'
    BY DEF IInv, TypeOK, Concerns
  <2>4. /\ RowOK(run') /\ OneSweepEach' /\ QuestionInv' /\ TriesInv'
        /\ DecisionsKept /\ AnswersActive /\ LifeGoesOn
    BY DEF IInv, OneSweepEach, QuestionInv, Outstanding, Settled, TriesInv, DecisionsKept,
           AnswersActive, LifeGoesOn
  <2>5. AskInv'
    BY AskKept DEF IInv
  <2> QED BY <2>1, <2>2, <2>3, <2>4, <2>5 DEF IInv, StepOK
<1>2. CASE ~guard
  <2>1. Goto(p, otherwise) /\ UNCHANGED <<durable, about, tries>> /\ LiveTyped'
    BY <1>2 DEF IInv, TypeOK, LiveTyped, live, env
  <2> QED BY <2>1, PlainConcern, MoveKeeps
<1> QED BY <1>1, <1>2

\* The copy of the run that a process uses fits and satisfies its guard.
LEMMA CopyFits ==
  ASSUME IInv, NEW p \in Procs, seen[p].run # None
  PROVE  Fits(seen[p].run) /\ RunGuard(pc[p], seen[p].run)
BY DEF IInv, TypeOK, Knows, Fits

\* The run alone is written: running as it was read, or cancelled.
LEMMA CommitRunKeeps ==
  ASSUME IInv, NEW p \in Procs, NEW t, NEW row, NEW next, NEW otherwise,
         CommitRun(p, t, row, next, otherwise), Fits(row),
         \/ t \in Recording /\ row.status \in {"running", "paused", "completed", "failed"}
         \/ t = "cancelRun" /\ row.status = "cancelled",
         next \in Plain \ {"ask", "retry"} \/ next = Idle(p),
         otherwise \in Plain \ {"ask", "retry"} \/ otherwise = Idle(p)
  PROVE  StepOK
<1> USE DEF CommitRun, At
<1>1. LiveTyped' /\ UNCHANGED <<dispatch, hitl, about, tries>>
  BY DEF IInv, TypeOK, LiveTyped, live, env
<1>2. CASE ~RunUnmoved(p)
  <2>1. Goto(p, otherwise) /\ UNCHANGED durable
    BY <1>1, <1>2 DEF durable
  <2> QED BY <1>1, <2>1, PlainConcern, MoveKeeps
<1>3. CASE RunUnmoved(p)
  <2>1. Goto(p, next) /\ run' = row
    BY <1>3
  <2>2. RunGuard(t, seen[p].run) /\ seen[p].run.status = run.status
    BY <1>3, CopyFits DEF RunUnmoved
  <2>3. Concerns(p)' /\ next \in Labels \ {"expired", "listed", "ask", "retry"}
    BY <2>1, PlainConcern DEF Plain
  <2>4. TypeOK'
    BY <1>1, <2>1, <2>3 DEF IInv, TypeOK, LiveTyped, Goto, Blank, Fits
  <2>5. LifeGoesOn
    BY <2>1, <2>2, LifeOf DEF RunGuard, IsTerminal, Terminal, IInv, TypeOK, Fits
  <2>6. OneSweepEach' /\ QuestionInv'
    <3>1. Settled => Settled'
      BY <1>1, <2>1, <2>2 DEF Settled, RunGuard, IsTerminal, Terminal
    <3>2. Settled \/ run.status # "waiting_hitl" \/ Settled'
      BY <2>1, <2>2 DEF Settled, RunGuard, IsTerminal, Terminal
    <3> QED BY <1>1, <2>1, <2>3, <3>1, <3>2, SweepsKept DEF IInv, QuestionInv, Outstanding
  <2>7. DecisionsKept /\ AnswersActive
    BY <1>1 DEF DecisionsKept, AnswersActive
  <2>8. AskInv' /\ TriesInv'
    BY <1>1, <2>1, <2>3, AskKept, Constants DEF IInv, TypeOK, TriesInv, Goto
  <2> QED BY <1>1, <2>1, <2>3, <2>4, <2>5, <2>6, <2>7, <2>8, StepKeeps DEF StepOK, Fits
<1> QED BY <1>2, <1>3

\* The dispatch alone is written, and it was not cancelled.
LEMMA CommitDispatchKeeps ==
  ASSUME IInv, NEW p \in Procs, NEW next, Goto(p, next), UNCHANGED <<run, hitl, about>>, LiveTyped',
         dispatch' \in DispatchRow, dispatch.status # "cancelled",
         next \in Plain \ {"ask"},
         next = "retry" => p \in Executors /\ tries[p] < MaxRetries,
         \/ tries' = tries
         \/ next # "retry" /\ p \in Executors /\ tries[p] < MaxRetries
                           /\ tries' = [tries EXCEPT ![p] = @ + 1]
  PROVE  StepOK
<1>1. Concerns(p)' /\ next \in Labels \ {"expired", "listed", "ask"}
  BY PlainConcern DEF Plain
<1>2. TypeOK'
  <2>1. tries' \in [Executors -> 0 .. MaxRetries]
    BY Constants DEF IInv, TypeOK
  <2> QED BY <1>1, <2>1 DEF IInv, TypeOK, LiveTyped, Goto, Blank
<1>3. RowOK(run') /\ DecisionsKept /\ AnswersActive /\ LifeGoesOn
  BY DEF IInv, DecisionsKept, AnswersActive, LifeGoesOn
<1>4. OneSweepEach' /\ QuestionInv'
  BY <1>1, SweepsKept DEF IInv, QuestionInv, Outstanding, Settled
<1>5. AskInv'
  BY <1>1, AskKept, Constants DEF IInv, TypeOK, Goto
<1>6. TriesInv'
  BY <1>1, Constants DEF IInv, TypeOK, TriesInv, Goto
<1> QED BY <1>1, <1>2, <1>3, <1>4, <1>5, <1>6, StepKeeps DEF StepOK

\* The copy of the dispatch that a process uses has the status its guard asks for.
LEMMA DispatchCopy ==
  ASSUME IInv, NEW p \in Procs, seen[p].dispatch # None
  PROVE  /\ DispatchGuard(pc[p], seen[p].dispatch.status)
         /\ seen[p].dispatch \in DispatchRow
         /\ \A s \in Open \cup {"completed", "failed", "cancelled"} :
              /\ DispatchTo(p, s) \in DispatchRow
              /\ DispatchTo(p, s).status = s
              /\ DispatchTo(p, s).attempt = seen[p].dispatch.attempt
<1>1. /\ DispatchGuard(pc[p], seen[p].dispatch.status)
      /\ seen[p].dispatch \in DispatchRow
  BY DEF IInv, TypeOK, Knows
<1> QED BY <1>1 DEF DispatchTo, DispatchRow

\* A legal change of the dispatch: read, then written.
LEMMA MoveDispatchKeeps ==
  ASSUME IInv, NEW p \in Executors, NEW t, NEW from, NEW next, NEW s \in Open \cup {"completed", "failed"},
         NEW otherwise,
         MoveDispatch(p, t, from, next, DispatchTo(p, s), otherwise),
         dispatch.status \in from => DispatchGuard(t, dispatch.status),
         t \in {"mark", "conclude", "turnFailed", "error"},
         next \in Plain \ {"ask"}, otherwise \in Plain \ {"ask"},
         next = "retry" => tries[p] < MaxRetries,
         otherwise = "retry" => tries[p] < MaxRetries
  PROVE  StepOK
<1>0. p \in Procs
  BY Constants
<1>1. CASE ReadDispatch(p, t, dispatch.status \in from, otherwise)
  <2>1. t \notin Deciding /\ otherwise \in Plain \ {"ask"} /\ (dispatch.status \in from) \in BOOLEAN
    BY DEF Deciding
  <2> QED BY <1>0, <1>1, <2>1, ReadDispatchKeeps
<1>2. CASE /\ At(p, t) /\ seen[p].dispatch # None
           /\ IF DispatchUnmoved(p) THEN dispatch' = DispatchTo(p, s) /\ Goto(p, next)
                                    ELSE UNCHANGED dispatch /\ Goto(p, otherwise)
           /\ UNCHANGED <<run, hitl, live, env, about, tries>>
  <2>1. LiveTyped' /\ UNCHANGED <<run, hitl, about, tries>>
    BY <1>2 DEF IInv, TypeOK, LiveTyped, live, env
  <2>2. CASE ~DispatchUnmoved(p)
    <3>1. Goto(p, otherwise) /\ UNCHANGED durable
      BY <1>2, <2>1, <2>2 DEF durable
    <3>2. Concerns(p)' /\ otherwise \in Labels \ {"expired", "listed", "ask"}
      BY <1>0, <3>1, PlainConcern DEF Plain
    <3> QED BY <1>0, <2>1, <3>1, <3>2, MoveKeeps
  <2>3. CASE DispatchUnmoved(p)
    <3>1. dispatch' \in DispatchRow /\ Goto(p, next)
      BY <1>0, <1>2, <2>3, DispatchCopy
    <3>2. dispatch.status # "cancelled"
      BY <1>0, <1>2, <2>3, DispatchCopy DEF At, DispatchUnmoved, DispatchGuard, Open
    <3> QED BY <1>0, <2>1, <3>1, <3>2, CommitDispatchKeeps
  <2> QED BY <2>2, <2>3
<1> QED BY <1>1, <1>2 DEF MoveDispatch

--------------------------------------------------------------------------------
(***************************************************************************)
(* One lemma per operation of an executor.                                 *)
(***************************************************************************)
\* A step of ensure_dispatch_running is sound.
LEMMA EnsureOK ==
  ASSUME IInv, NEW p \in Executors, EnsureDispatchRunning(p)
  PROVE  StepOK
<1> USE DEF EnsureDispatchRunning
<1>1. PICK t \in {"turn", "mark", "error"} : Goto(p, t)
  OBVIOUS
<1>2. UNCHANGED <<durable, about, tries>> /\ LiveTyped' /\ p \in Procs
  BY Constants DEF IInv, TypeOK, LiveTyped, live, env
<1>3. t \in Plain /\ t \notin {"ask", "retry"}
  BY DEF Plain, Labels
<1> QED BY <1>1, <1>2, <1>3, PlainConcern, MoveKeeps

\* So is marking the dispatch running.
LEMMA MarkOK ==
  ASSUME IInv, NEW p \in Executors, MarkDispatchRunning(p)
  PROVE  StepOK
<1>1. "turn" \in Plain /\ "error" \in Plain
  BY DEF Plain, Labels
<1> DEFINE from == {"pending", "waiting_hitl"}
<1>2. dispatch.status \in from => DispatchGuard("mark", dispatch.status)
  BY DEF DispatchGuard, Deciding
<1>3. MoveDispatch(p, "mark", from, "turn", DispatchTo(p, "running"), "error")
  BY DEF MarkDispatchRunning
<1>4. "running" \in Open
  BY DEF Open
<1> HIDE DEF from
<1> QED BY <1>1, <1>2, <1>3, <1>4, MoveDispatchKeeps

\* So is a turn of the agent, whatever it ends with.
LEMMA TurnOK ==
  ASSUME IInv, NEW p \in Executors, AgentTurn(p)
  PROVE  StepOK
<1> USE DEF AgentTurn
<1>1. PICK t \in {"conclude", "ask", "turnFailed"} : Goto(p, t) /\ (t = "ask" => CanAsk)
  OBVIOUS
<1>2. UNCHANGED <<durable, about, tries>> /\ LiveTyped' /\ p \in Procs
  BY Constants DEF IInv, TypeOK, LiveTyped, live, env
<1>3. t \in Plain /\ t # "retry"
  BY DEF Plain, Labels
<1>4. t = "ask" => AskInv'
  BY <1>1, <1>2, AskGranted, Constants DEF IInv, TypeOK, Goto, durable
<1> QED BY <1>1, <1>2, <1>3, <1>4, PlainConcern, MoveKeeps

\* So is the completion of the dispatch.
LEMMA CompleteOK ==
  ASSUME IInv, NEW p \in Executors, CompleteDispatch(p)
  PROVE  StepOK
<1>1. "stepCompleted" \in Plain /\ "error" \in Plain
  BY DEF Plain, Labels
<1> DEFINE from == {"running"}
<1>2. dispatch.status \in from => DispatchGuard("conclude", dispatch.status)
  BY DEF DispatchGuard, Deciding
<1>3. MoveDispatch(p, "conclude", from, "stepCompleted", DispatchTo(p, "completed"), "error")
  BY DEF CompleteDispatch
<1>4. "completed" \in Open \cup {"completed", "failed"} /\ "stepCompleted" # "ask"
      /\ "stepCompleted" # "retry" /\ "error" # "ask" /\ "error" # "retry"
  OBVIOUS
<1> HIDE DEF from
<1> QED BY <1>1, <1>2, <1>3, <1>4, MoveDispatchKeeps

\* Where an error leads; a retry only while retries are left.
LEMMA AfterErrorFacts ==
  ASSUME NEW p
  PROVE  /\ AfterError(p) \in {"retry", "stepSkipped", "stepFailed"}
         /\ AfterError(p) = "retry" => tries[p] < MaxRetries
BY DEF AfterError

\* So is fail_dispatch.
LEMMA FailDispatchOK ==
  ASSUME IInv, NEW p \in Executors,
         FailDispatch(p, "turnFailed", "error") \/ FailDispatch(p, "error", AfterError(p))
  PROVE  StepOK
<1>1. "error" \in Plain /\ AfterError(p) \in Plain
      /\ "error" # "ask" /\ AfterError(p) # "ask"
  BY AfterErrorFacts DEF Plain, Labels
<1>2. dispatch.status \in Open =>
        DispatchGuard("turnFailed", dispatch.status) /\ DispatchGuard("error", dispatch.status)
  BY DEF DispatchGuard, Deciding
<1>3. AfterError(p) = "retry" => tries[p] < MaxRetries
  BY AfterErrorFacts
<1>4. CASE FailDispatch(p, "turnFailed", "error")
  BY <1>1, <1>2, <1>4, MoveDispatchKeeps DEF FailDispatch
<1>5. CASE FailDispatch(p, "error", AfterError(p))
  BY <1>1, <1>2, <1>3, <1>5, MoveDispatchKeeps DEF FailDispatch
<1> QED BY <1>4, <1>5

\* So is the retry of a failed dispatch.
LEMMA RetryOK ==
  ASSUME IInv, NEW p \in Executors, PrepareDispatchRetry(p)
  PROVE  StepOK
<1>0. p \in Procs
  BY Constants
<1>a. "ensure" \in Plain \ {"ask"} /\ "stepFailed" \in Plain \ {"ask"}
  BY DEF Plain, Labels
<1>1. CASE ReadDispatch(p, "retry", dispatch.status = "failed", "stepFailed")
  <2>1. dispatch.status = "failed" => DispatchGuard("retry", dispatch.status)
    BY DEF DispatchGuard, Deciding
  <2> QED BY <1>0, <1>a, <1>1, <2>1, ReadDispatchKeeps DEF Deciding
<1>2. CASE /\ At(p, "retry") /\ seen[p].dispatch # None
           /\ IF DispatchUnmoved(p)
              THEN /\ dispatch' = [status |-> "pending",
                                   attempt |-> seen[p].dispatch.attempt + 1]
                   /\ tries' = [tries EXCEPT ![p] = @ + 1]
                   /\ Goto(p, "ensure")
              ELSE Goto(p, "stepFailed") /\ UNCHANGED <<dispatch, tries>>
           /\ UNCHANGED <<run, hitl, live, env, about>>
  <2>1. LiveTyped' /\ UNCHANGED <<run, hitl, about>>
    BY <1>2 DEF IInv, TypeOK, LiveTyped, live, env
  <2>2. CASE ~DispatchUnmoved(p)
    <3>1. Goto(p, "stepFailed") /\ UNCHANGED <<durable, about, tries>>
      BY <1>2, <2>1, <2>2 DEF durable
    <3> QED BY <1>0, <1>a, <2>1, <3>1, PlainConcern, MoveKeeps
  <2>3. CASE DispatchUnmoved(p)
    <3>1. dispatch' \in DispatchRow
      <4>1. seen[p].dispatch.attempt \in Nat \ {0}
        BY <1>0, <1>2, DispatchCopy DEF DispatchRow
      <4>2. seen[p].dispatch.attempt + 1 \in Nat \ {0}
        BY <4>1
      <4> QED BY <1>2, <2>3, <4>2 DEF DispatchRow, Open
    <3>2. dispatch.status # "cancelled"
      BY <1>0, <1>2, <2>3, DispatchCopy DEF At, DispatchUnmoved, DispatchGuard, Deciding
    <3>3. tries[p] < MaxRetries
      BY <1>2 DEF At, IInv, TriesInv
    <3> QED BY <1>0, <1>2, <1>a, <2>1, <2>3, <3>1, <3>2, <3>3, CommitDispatchKeeps
  <2> QED BY <2>2, <2>3
<1> QED BY <1>1, <1>2 DEF PrepareDispatchRetry

\* So is registering the sender.
LEMMA RegisterOK ==
  ASSUME IInv, NEW p \in Executors, RegisterSender(p)
  PROVE  StepOK
<1> USE DEF RegisterSender, At
<1>1. Goto(p, "await") /\ UNCHANGED <<durable, about, tries>> /\ p \in Procs
  BY Constants
<1>2. LiveTyped'
  BY DEF IInv, TypeOK, LiveTyped, env
<1>3. "await" \in Labels \ {"expired", "listed"}
  BY DEF Labels
<1>4. Concerns(p)'
  BY <1>1 DEF IInv, TypeOK, Concerns, Goto
<1> QED BY <1>1, <1>2, <1>3, <1>4, MoveKeeps

\* So is the end of the wait.
LEMMA AwaitOK ==
  ASSUME IInv, NEW p \in Executors, WaitForHitlAnswer(p)
  PROVE  StepOK
<1> USE DEF WaitForHitlAnswer, At
<1>1. PICK t \in {"ensure", "error"} : Goto(p, t)
  OBVIOUS
<1>2. UNCHANGED <<durable, about, tries>> /\ p \in Procs /\ LiveTyped'
  BY Constants DEF IInv, TypeOK, LiveTyped, env
<1>3. t \in Plain
  BY DEF Plain, Labels
<1> QED BY <1>1, <1>2, <1>3, PlainConcern, MoveKeeps

\* A run that can record a step, or be interrupted, is running.
LEMMA GuardFacts ==
  ASSUME IInv
  PROVE  /\ CanRecordStep(run) \in BOOLEAN /\ IsInterruptible(run) \in BOOLEAN
         /\ \A t \in Recording :
              CanRecordStep(run) \/ IsInterruptible(run) => RunGuard(t, run)
         /\ ~IsTerminal(run) => RunGuard("cancelRun", run)
         /\ RunGuard("listed", run) /\ RunGuard("expired", run)
BY DEF IInv, RowOK, CanRecordStep, IsInterruptible, RunGuard, Recording, Deciding

NextRow(row, r) ==
  \/ row = StepCompleted(r, ThisStep, {ThisStep}) \/ row = StepSkipped(r, ThisStep)
  \/ row = StepFailed(r, ThisStep)                \/ row = RunCompleted(r)
  \/ row = RunFailed(r, ThisStep)                 \/ row = RunPaused(r)

\* They all fit.
LEMMA NextRowFits ==
  ASSUME NEW r, NEW row, Fits(r), r.status = "running", NextRow(row, r)
  PROVE  Fits(row) /\ row.status \in {"running", "paused", "completed", "failed"}
BY RecordedFits DEF NextRow

\* A transition that records something about a running run: read, then written.
LEMMA RecordKeeps ==
  ASSUME IInv, NEW p \in Procs, NEW t \in Recording \ {"ask"}, NEW guard \in BOOLEAN,
         guard => CanRecordStep(run) \/ IsInterruptible(run),
         NEW row, NEW next, NEW otherwise,
         \/ ReadRun(p, t, guard, otherwise)
         \/ CommitRun(p, t, row, next, otherwise),
         NextRow(row, seen[p].run),
         next \in Plain \ {"ask", "retry"} \/ next = Idle(p),
         otherwise \in Plain \ {"ask", "retry"} \/ otherwise = Idle(p)
  PROVE  StepOK
<1>1. CASE ReadRun(p, t, guard, otherwise)
  <2>1. t \notin {"answer", "cancelRequest"}
    BY DEF Recording
  <2> QED BY <1>1, <2>1, GuardFacts, ReadRunKeeps
<1>2. CASE CommitRun(p, t, row, next, otherwise)
  <2>1. Fits(seen[p].run) /\ seen[p].run.status = "running"
    BY <1>2, CopyFits DEF CommitRun, At, RunGuard
  <2>2. Fits(row) /\ row.status \in {"running", "paused", "completed", "failed"}
    BY <2>1, NextRowFits
  <2> QED BY <1>2, <2>2, CommitRunKeeps
<1> QED BY <1>1, <1>2

\* The labels at which a run is recorded or given up.
LEMMA PlainLabels ==
  /\ {"stepCompleted", "stepSkipped", "runCompleted", "stepFailed", "runFailed",
      "markStep", "markRun", "pauseRun"} \subseteq Recording \ {"ask"}
  /\ {"runCompleted", "runFailed", "done", "resumeFailed", "markStep", "markRun",
      "error", "stepFailed"} \subseteq Plain \ {"ask", "retry"}
  /\ \A p : Refused(p) \in {"done", "resumeFailed"}
BY DEF Recording, Plain, Labels, Refused

\* So are the transitions at the end of the step.
LEMMA RecordsOK ==
  ASSUME IInv, NEW p \in Procs,
         \/ RecordStepCompleted(p) \/ RecordStepSkipped(p) \/ RecordRunCompleted(p)
         \/ RecordStepFailed(p, "stepFailed", "runFailed", Refused(p))
         \/ RecordRunFailed(p, "runFailed", Refused(p))
         \/ RecordStepFailed(p, "markStep", "markRun", Idle(p))
         \/ RecordRunFailed(p, "markRun", Idle(p))
  PROVE  StepOK
<1>0. Refused(p) \in Plain \ {"ask", "retry"} /\ CanRecordStep(run) \in BOOLEAN
      /\ IsInterruptible(run) \in BOOLEAN
  BY PlainLabels, GuardFacts
<1>1. CASE RecordStepCompleted(p)
  <2> DEFINE row == StepCompleted(seen[p].run, ThisStep, {ThisStep})
             guard == CanRecordStep(run)
  <2>1. NextRow(row, seen[p].run)
    BY DEF NextRow
  <2>2. \/ ReadRun(p, "stepCompleted", guard, Refused(p))
        \/ CommitRun(p, "stepCompleted", row, "runCompleted", Refused(p))
    BY <1>1 DEF RecordStepCompleted
  <2>3. /\ "stepCompleted" \in Recording \ {"ask"}
        /\ "runCompleted" \in Plain \ {"ask", "retry"}
        /\ guard \in BOOLEAN /\ (guard => CanRecordStep(run) \/ IsInterruptible(run))
    BY <1>0, PlainLabels
  <2> HIDE DEF row, guard
  <2> QED BY <1>0, <2>1, <2>2, <2>3, RecordKeeps
<1>2. CASE RecordStepSkipped(p)
  <2> DEFINE row == StepSkipped(seen[p].run, ThisStep)
             guard == CanRecordStep(run)
  <2>1. NextRow(row, seen[p].run)
    BY DEF NextRow
  <2>2. \/ ReadRun(p, "stepSkipped", guard, Refused(p))
        \/ CommitRun(p, "stepSkipped", row, "runCompleted", Refused(p))
    BY <1>2 DEF RecordStepSkipped
  <2>3. /\ "stepSkipped" \in Recording \ {"ask"}
        /\ "runCompleted" \in Plain \ {"ask", "retry"}
        /\ guard \in BOOLEAN /\ (guard => CanRecordStep(run) \/ IsInterruptible(run))
    BY <1>0, PlainLabels
  <2> HIDE DEF row, guard
  <2> QED BY <1>0, <2>1, <2>2, <2>3, RecordKeeps
<1>3. CASE RecordRunCompleted(p)
  <2> DEFINE row == RunCompleted(seen[p].run)
             guard == CanRecordStep(run)
  <2>1. NextRow(row, seen[p].run)
    BY DEF NextRow
  <2>2. \/ ReadRun(p, "runCompleted", guard, Refused(p))
        \/ CommitRun(p, "runCompleted", row, "done", Refused(p))
    BY <1>3 DEF RecordRunCompleted
  <2>3. /\ "runCompleted" \in Recording \ {"ask"}
        /\ "done" \in Plain \ {"ask", "retry"}
        /\ guard \in BOOLEAN /\ (guard => CanRecordStep(run) \/ IsInterruptible(run))
    BY <1>0, PlainLabels
  <2> HIDE DEF row, guard
  <2> QED BY <1>0, <2>1, <2>2, <2>3, RecordKeeps
<1>4. CASE RecordStepFailed(p, "stepFailed", "runFailed", Refused(p))
  <2> DEFINE row == StepFailed(seen[p].run, ThisStep)
             guard == CanRecordStep(run)
  <2>1. NextRow(row, seen[p].run)
    BY DEF NextRow
  <2>2. \/ ReadRun(p, "stepFailed", guard, Refused(p))
        \/ CommitRun(p, "stepFailed", row, "runFailed", Refused(p))
    BY <1>4 DEF RecordStepFailed
  <2>3. /\ "stepFailed" \in Recording \ {"ask"}
        /\ "runFailed" \in Plain \ {"ask", "retry"}
        /\ guard \in BOOLEAN /\ (guard => CanRecordStep(run) \/ IsInterruptible(run))
    BY <1>0, PlainLabels
  <2> HIDE DEF row, guard
  <2> QED BY <1>0, <2>1, <2>2, <2>3, RecordKeeps
<1>5. CASE RecordRunFailed(p, "runFailed", Refused(p))
  <2> DEFINE row == RunFailed(seen[p].run, ThisStep)
             guard == IsInterruptible(run)
  <2>1. NextRow(row, seen[p].run)
    BY DEF NextRow
  <2>2. \/ ReadRun(p, "runFailed", guard, Refused(p))
        \/ CommitRun(p, "runFailed", row, Refused(p), Refused(p))
    BY <1>5 DEF RecordRunFailed
  <2>3. /\ "runFailed" \in Recording \ {"ask"}
        /\ guard \in BOOLEAN /\ (guard => CanRecordStep(run) \/ IsInterruptible(run))
    BY <1>0, PlainLabels
  <2> HIDE DEF row, guard
  <2> QED BY <1>0, <2>1, <2>2, <2>3, RecordKeeps
<1>6. CASE RecordStepFailed(p, "markStep", "markRun", Idle(p))
  <2> DEFINE row == StepFailed(seen[p].run, ThisStep)
             guard == CanRecordStep(run)
  <2>1. NextRow(row, seen[p].run)
    BY DEF NextRow
  <2>2. \/ ReadRun(p, "markStep", guard, Idle(p))
        \/ CommitRun(p, "markStep", row, "markRun", Idle(p))
    BY <1>6 DEF RecordStepFailed
  <2>3. /\ "markStep" \in Recording \ {"ask"}
        /\ "markRun" \in Plain \ {"ask", "retry"}
        /\ guard \in BOOLEAN /\ (guard => CanRecordStep(run) \/ IsInterruptible(run))
    BY <1>0, PlainLabels
  <2> HIDE DEF row, guard
  <2> QED BY <1>0, <2>1, <2>2, <2>3, RecordKeeps
<1>7. CASE RecordRunFailed(p, "markRun", Idle(p))
  <2> DEFINE row == RunFailed(seen[p].run, ThisStep)
             guard == IsInterruptible(run)
  <2>1. NextRow(row, seen[p].run)
    BY DEF NextRow
  <2>2. \/ ReadRun(p, "markRun", guard, Idle(p))
        \/ CommitRun(p, "markRun", row, Idle(p), Idle(p))
    BY <1>7 DEF RecordRunFailed
  <2>3. /\ "markRun" \in Recording \ {"ask"}
        /\ guard \in BOOLEAN /\ (guard => CanRecordStep(run) \/ IsInterruptible(run))
    BY <1>0, PlainLabels
  <2> HIDE DEF row, guard
  <2> QED BY <1>0, <2>1, <2>2, <2>3, RecordKeeps
<1> QED BY <1>1, <1>2, <1>3, <1>4, <1>5, <1>6, <1>7

\* So is recording that a resume failed.
LEMMA ResumeFailureOK ==
  ASSUME IInv, NEW p \in Procs, RecordHitlResumeFailure(p)
  PROVE  StepOK
<1>1. CASE /\ At(p, "resumeFailed")
           /\ Goto(p, IF IsTerminal(run) THEN Idle(p) ELSE "markStep")
           /\ UNCHANGED <<durable, live, env, about, tries>>
  <2>1. PICK t : (t = Idle(p) \/ t = "markStep") /\ Goto(p, t)
    BY <1>1
  <2>2. UNCHANGED <<durable, about, tries>> /\ LiveTyped'
    BY <1>1 DEF IInv, TypeOK, LiveTyped, live, env
  <2>3. t = Idle(p) \/ t \in Plain
    BY <2>1, PlainLabels
  <2>4. /\ t \in Labels \ {"expired", "listed"} /\ Concerns(p)'
        /\ t \notin {"ask", "retry"}
    BY <2>1, <2>3, PlainConcern
  <2> QED BY <2>1, <2>2, <2>4, MoveKeeps
<1> QED BY <1>1, RecordsOK DEF RecordHitlResumeFailure

\* So is record_hitl_requested: the question it makes pending is the one the run
\* then waits for, and no other is outstanding.
LEMMA RequestedOK ==
  ASSUME IInv, NEW p \in Executors, RecordHitlRequested(p)
  PROVE  StepOK
<1>0. p \in Procs /\ "ask" \in Recording /\ "ask" \notin Deciding /\ "error" \in Plain
  BY Constants DEF Recording, Deciding, Plain, Labels
<1>1. CASE ReadRun(p, "ask", run.status = "running" /\ WaitingModeAvailable(run), "error")
  <2> DEFINE guard == run.status = "running" /\ WaitingModeAvailable(run)
  <2>1. guard \in BOOLEAN /\ (guard => RunGuard("ask", run))
    BY DEF RunGuard, Recording
  <2>2. ReadRun(p, "ask", guard, "error")
    BY <1>1
  <2> HIDE DEF guard
  <2> QED BY <1>0, <2>1, <2>2, ReadRunKeeps
<1>2. CASE seen[p].run # None /\ ReadDispatch(p, "ask", dispatch.status = "running", "error")
  <2>1. dispatch.status = "running" => DispatchGuard("ask", dispatch.status)
    BY DEF DispatchGuard, Deciding
  <2> QED BY <1>0, <1>2, <2>1, ReadDispatchKeeps
<1>3. CASE /\ At(p, "ask") /\ seen[p].run # None /\ seen[p].dispatch # None
           /\ IF RunUnmoved(p) /\ DispatchUnmoved(p)
              THEN LET h == NextRequest
                   IN /\ hitl' = [hitl EXCEPT ![h] = "pending"]
                      /\ run' = HitlRequested(seen[p].run, ThisStep, ThisDispatch, h)
                      /\ dispatch' = DispatchTo(p, "waiting_hitl")
                      /\ about' = [about EXCEPT ![p] = h]
                      /\ Goto(p, "register")
              ELSE Goto(p, "error") /\ UNCHANGED <<durable, about>>
           /\ UNCHANGED <<live, env, tries>>
  <2>1. LiveTyped' /\ pc[p] = "ask" /\ UNCHANGED tries
    BY <1>3 DEF IInv, TypeOK, LiveTyped, live, env, At
  <2>2. CASE ~(RunUnmoved(p) /\ DispatchUnmoved(p))
    <3>1. Goto(p, "error") /\ UNCHANGED <<durable, about, tries>>
      BY <1>3, <2>2
    <3> QED BY <1>0, <2>1, <3>1, PlainConcern, MoveKeeps
  <2>3. CASE RunUnmoved(p) /\ DispatchUnmoved(p)
    <3> DEFINE h == NextRequest
    <3>1. h \in Requests /\ hitl[h] = "none"
      BY <2>1, NumberLeft DEF IInv
    <3>2. /\ Fits(seen[p].run) /\ seen[p].run.status = "running" /\ run.status = "running"
          /\ dispatch.status = "running"
      BY <1>0, <1>3, <2>1, <2>3, CopyFits, DispatchCopy
         DEF RunGuard, DispatchGuard, RunUnmoved, DispatchUnmoved
    <3>3. /\ hitl' = [hitl EXCEPT ![h] = "pending"]
          /\ run' = HitlRequested(seen[p].run, ThisStep, ThisDispatch, h)
          /\ dispatch' = DispatchTo(p, "waiting_hitl")
          /\ about' = [about EXCEPT ![p] = h]
          /\ Goto(p, "register")
      BY <1>3, <2>3
    <3> HIDE DEF h
    <3>4. /\ Fits(run') /\ run'.status = "waiting_hitl" /\ run'.active_hitl_request_id = h
      BY <3>1, <3>2, <3>3, RequestedFits
    <3>5. dispatch' \in DispatchRow
      BY <1>0, <1>3, <3>3, DispatchCopy DEF Open
    <3>6. TypeOK'
      <4>1. pc' \in [Procs -> Labels] /\ hitl' \in [Requests -> Decided \cup {"none", "pending"}]
        BY <3>3 DEF IInv, TypeOK, Goto, Labels
      <4>2. /\ about' \in [Procs -> Requests \cup {None}]
            /\ seen' \in [Procs -> [run : RunRow \cup {None}, dispatch : DispatchRow \cup {None},
                                    requests : SUBSET Requests]]
        BY <3>1, <3>3 DEF IInv, TypeOK, Goto, Blank
      <4> QED BY <2>1, <3>4, <3>5, <4>1, <4>2 DEF IInv, TypeOK, LiveTyped, Fits
    <3>7. DecisionsKept /\ AnswersActive
      BY <3>1, <3>3 DEF IInv, TypeOK, DecisionsKept, AnswersActive, Decided
    <3>8. LifeGoesOn
      BY <3>2, <3>4, LifeOf DEF IInv, TypeOK, Fits
    <3>9. Concerns(p)'
      BY <1>0, <3>1, <3>3 DEF IInv, TypeOK, Concerns, Goto
    <3>10. \A q \in Procs \ {p} : about'[q] = about[q]
      BY <3>3 DEF IInv, TypeOK
    <3>11. OneSweepEach' /\ QuestionInv'
      <4>1. \A g \in Requests : ~Outstanding(g)
        BY <3>2 DEF IInv, QuestionInv, Settled, IsTerminal, Terminal
      <4>2. "register" \in Labels
        BY DEF Labels
      <4>3. OneSweepEach' /\ \A g \in Requests : Outstanding(g)' => g = h
        BY <1>0, <3>1, <3>3, <3>10, <4>1, <4>2, SweepsKept DEF IInv, TypeOK, Outstanding
      <4> QED BY <3>4, <4>3 DEF QuestionInv
    <3>12. AskInv'
      BY <1>0, <2>1, <3>1, <3>3, AskTaken, Constants DEF IInv, TypeOK, Goto
    <3>13. TriesInv'
      BY <2>1, <3>3, Constants DEF IInv, TypeOK, TriesInv, Goto
    <3>14. "register" \in Labels \ {"listed"}
      BY DEF Labels
    <3> QED
      BY <1>0, <3>3, <3>4, <3>6, <3>7, <3>8, <3>9, <3>10, <3>11, <3>12, <3>13, <3>14, StepKeeps
         DEF StepOK, Fits
  <2> QED BY <2>2, <2>3
<1> QED BY <1>1, <1>2, <1>3 DEF RecordHitlRequested

\* Every step of an executor is sound.
LEMMA ExecuteOK ==
  ASSUME IInv, NEW p \in Executors, Execute(p)
  PROVE  StepOK
<1>1. p \in Procs
  BY Constants
<1> QED
  BY <1>1, EnsureOK, MarkOK, TurnOK, CompleteOK, RequestedOK, RegisterOK, AwaitOK, FailDispatchOK,
     RetryOK, RecordsOK, ResumeFailureOK DEF Execute

--------------------------------------------------------------------------------
(***************************************************************************)
(* Deciding a request.                                                     *)
(***************************************************************************)
\* Choosing a request and reading its run is sound.
LEMMA ChooseOK ==
  ASSUME IInv, NEW c \in Clients, NEW t \in {"answer", "cancelRequest"}, ChooseRequest(c, t)
  PROVE  StepOK
<1> USE DEF ChooseRequest, At, durable, live, env
<1>0. c \in Procs
  BY Constants
<1>1. PICK h \in Requests : hitl[h] # "none" /\ about' = [about EXCEPT ![c] = h]
  OBVIOUS
<1>2. TypeOK'
  BY <1>0, <1>1 DEF IInv, TypeOK
<1>3. \A q \in Procs : Knows(q)'
  <2>1. seen[c].dispatch = None
    BY <1>0 DEF IInv, Knows, Deciding
  <2> QED
    BY <1>0, <1>1, <2>1 DEF IInv, TypeOK, Knows, RunGuard, Recording, Deciding
<1>4. \A q \in Procs : Concerns(q)'
  BY <1>0, <1>1 DEF IInv, TypeOK, Concerns
<1>5. OneSweepEach' /\ QuestionInv'
  BY <1>0, <1>1 DEF IInv, TypeOK, OneSweepEach, QuestionInv, Outstanding, Settled
<1>6. /\ RowOK(run') /\ TriesInv' /\ DecisionsKept /\ AnswersActive /\ LifeGoesOn
  BY DEF IInv, TriesInv, DecisionsKept, AnswersActive, LifeGoesOn
<1>7. AskInv'
  BY AskKept DEF IInv
<1> QED BY <1>2, <1>3, <1>4, <1>5, <1>6, <1>7 DEF IInv, StepOK

\* A decision that is committed: the question was the one the run waited for, and
\* none is outstanding any more.
LEMMA DecideKeeps ==
  ASSUME IInv, NEW c \in Procs, NEW t \in Deciding, NEW from, NEW decision \in Decided,
         NEW s \in {"running", "failed"}, NEW row, NEW next, NEW otherwise,
         Decide(c, t, from, decision, s, row, next, otherwise),
         Fits(seen[c].run) => Fits(row) /\ row.status = "running",
         IF t = "expired" THEN decision = "timed_out" /\ otherwise = "sweep"
                          ELSE from = {"pending"} /\ otherwise = "done",
         decision = "answered" => t = "answer" /\ next = "deliver",
         decision = "cancelled" => next = "detach",
         decision = "timed_out" => t = "expired" /\ next = "wakeExpired"
  PROVE  StepOK
<1> USE DEF Decide, At
<1>1. LiveTyped' /\ UNCHANGED <<about, tries>> /\ pc[c] = t
  BY DEF IInv, TypeOK, LiveTyped, live, env
<1>2. CASE ~(Undecided(c, from) /\ DispatchUnmoved(c) /\ RunUnmoved(c))
  <2>1. Goto(c, otherwise) /\ UNCHANGED durable
    BY <1>2
  <2>2. Concerns(c)' /\ otherwise \in Labels \ {"expired", "listed", "ask", "retry"}
    BY <1>1, <2>1 DEF IInv, TypeOK, Concerns, Goto, Labels, Actions
  <2> QED BY <1>1, <2>1, <2>2, MoveKeeps
<1>3. CASE Undecided(c, from) /\ DispatchUnmoved(c) /\ RunUnmoved(c)
  <2> DEFINE h == about[c]
  <2>1. /\ hitl' = [hitl EXCEPT ![h] = decision] /\ dispatch' = DispatchTo(c, s)
        /\ run' = row /\ Goto(c, next)
    BY <1>3
  <2>2. /\ Fits(seen[c].run) /\ seen[c].run.status = "waiting_hitl"
        /\ dispatch.status = "waiting_hitl" /\ run.status = "waiting_hitl"
    BY <1>1, <1>3, CopyFits DEF IInv, Knows, DispatchGuard, RunUnmoved, DispatchUnmoved
  <2>3. /\ h \in Requests /\ hitl[h] # "none" /\ Outstanding(h)
        /\ hitl[h] = IF t = "expired" THEN "timed_out" ELSE "pending"
    <3>1. CASE t = "expired"
      BY <1>1, <3>1 DEF IInv, Concerns, Outstanding
    <3>2. CASE t # "expired"
      BY <1>1, <1>3, <3>2 DEF IInv, Concerns, Outstanding, Undecided, Deciding
    <3> QED BY <3>1, <3>2
  <2>4. run.active_hitl_request_id = h /\ \A g \in Requests : Outstanding(g) => g = h
    BY <2>2, <2>3 DEF IInv, QuestionInv, Settled, IsTerminal, Terminal
  <2> HIDE DEF h
  <2>5. next \in {"deliver", "detach", "wakeExpired"} /\ next \in Labels \ {"expired", "listed", "ask", "retry"}
    BY DEF Decided, Labels
  <2>6. Concerns(c)'
    BY <1>1, <2>1, <2>3 DEF h, IInv, TypeOK, Concerns, Goto, Decided
  <2>7. TypeOK'
    <3>1. pc' \in [Procs -> Labels] /\ hitl' \in [Requests -> Decided \cup {"none", "pending"}]
      BY <2>1, <2>5 DEF IInv, TypeOK, Goto
    <3>2. seen' \in [Procs -> [run : RunRow \cup {None}, dispatch : DispatchRow \cup {None},
                               requests : SUBSET Requests]]
      BY <2>1 DEF IInv, TypeOK, Goto, Blank
    <3>3. dispatch' \in DispatchRow
      BY <2>1, DispatchCopy DEF Open
    <3> QED BY <1>1, <2>1, <2>2, <3>1, <3>2, <3>3 DEF IInv, TypeOK, LiveTyped, Fits
  <2>8. DecisionsKept /\ AnswersActive
    BY <2>1, <2>2, <2>3, <2>4 DEF IInv, TypeOK, DecisionsKept, AnswersActive, Decided
  <2>9. LifeGoesOn /\ RowOK(run')
    BY <2>1, <2>2, LifeOf DEF IInv, TypeOK, Fits
  <2>10. OneSweepEach' /\ QuestionInv'
    <3>1. OneSweepEach' /\ \A g \in Requests : Outstanding(g)' => Outstanding(g) \/ g = h
      BY <1>1, <2>1, <2>5, SweepsKept DEF IInv, TypeOK, Outstanding
    <3>2. hitl'[h] # "pending"
      BY <2>1, <2>3 DEF IInv, TypeOK, Decided
    <3>3. ASSUME NEW q \in Procs, pc'[q] = "expired", about'[q] = h PROVE FALSE
      <4>1. q # c /\ pc[q] = "expired" /\ about[q] = h
        BY <1>1, <2>1, <2>5, <3>3 DEF IInv, TypeOK, Goto
      <4>2. hitl[h] = "timed_out"
        BY <4>1 DEF IInv, Concerns
      <4>3. t = "expired"
        BY <2>3, <4>2
      <4> QED BY <1>1, <4>1, <4>3 DEF h, IInv, OneSweepEach
    <3> QED BY <2>4, <3>1, <3>2, <3>3 DEF QuestionInv, Outstanding
  <2>11. AskInv' /\ TriesInv'
    <3>1. \A g \in Requests : hitl[g] = "none" => hitl'[g] = "none"
      BY <2>1, <2>3 DEF IInv, TypeOK
    <3> QED BY <1>1, <2>1, <2>5, <3>1, AskKept, Constants DEF IInv, TypeOK, TriesInv, Goto
  <2> QED BY <1>1, <2>1, <2>5, <2>6, <2>7, <2>8, <2>9, <2>10, <2>11, StepKeeps DEF StepOK
<1> QED BY <1>2, <1>3

\* The checks on the dispatch before a decision, or the process turns away.
LEMMA CheckKeeps ==
  ASSUME IInv, NEW c \in Procs, NEW t \in Deciding, NEW guard \in BOOLEAN, NEW otherwise,
         CheckDispatch(c, t, guard, otherwise),
         guard => WaitsForAnswer(c) /\ (t = "answer" => IsActive(c)),
         otherwise \in {"done", "sweep"}, otherwise = "sweep" => t = "expired"
  PROVE  StepOK
<1> USE DEF CheckDispatch
<1>1. CASE guard
  <2>1. guard => /\ DispatchGuard(t, dispatch.status)
                 /\ t \in Deciding =>
                      /\ seen[c].run # None /\ seen[c].run.status = "waiting_hitl"
                      /\ t = "answer" => seen[c].run.active_hitl_request_id = about[c]
    BY DEF WaitsForAnswer, IsActive, DispatchGuard, Deciding
  <2>2. ReadDispatch(c, t, guard, "done")
    BY <1>1 DEF ReadDispatch
  <2>3. "done" \in Plain \ {"ask"} /\ "done" # "retry"
    BY PlainLabels
  <2> QED BY <2>1, <2>2, <2>3, ReadDispatchKeeps
<1>2. CASE ~guard
  <2>1. Goto(c, otherwise) /\ UNCHANGED <<durable, about, tries>> /\ LiveTyped' /\ pc[c] = t
    BY <1>2 DEF ReadDispatch, At, IInv, TypeOK, LiveTyped, live, env
  <2>2. Concerns(c)' /\ otherwise \in Labels \ {"expired", "listed", "ask", "retry"}
    BY <2>1 DEF IInv, TypeOK, Concerns, Goto, Labels, Actions
  <2> QED BY <2>1, <2>2, MoveKeeps
<1> QED BY <1>1, <1>2

\* Every step of an answer is sound.
LEMMA AnswerOK ==
  ASSUME IInv, NEW c \in Clients, Answer(c)
  PROVE  StepOK
<1>0. c \in Procs /\ "answer" \in Deciding
  BY Constants DEF Deciding
<1>1. CASE ChooseRequest(c, "answer")
  BY <1>1, ChooseOK
<1>2. CASE CheckDispatch(c, "answer", WaitsForAnswer(c) /\ IsActive(c), "done")
  <2> DEFINE guard == WaitsForAnswer(c) /\ IsActive(c)
             t == "answer"
  <2>1. guard \in BOOLEAN
    BY DEF WaitsForAnswer, IsActive
  <2>2. guard => WaitsForAnswer(c) /\ IsActive(c)
    OBVIOUS
  <2>3. CheckDispatch(c, t, guard, "done") /\ t \in Deciding
    BY <1>0, <1>2
  <2> HIDE DEF guard, t
  <2> QED BY <1>0, <2>1, <2>2, <2>3, CheckKeeps
<1>3. CASE Decide(c, "answer", {"pending"}, "answered", "running",
                  HitlAnswered(seen[c].run, ThisDispatch), "deliver", "done")
  <2> DEFINE row == HitlAnswered(seen[c].run, ThisDispatch)
             from == {"pending"}
  <2>1. Fits(seen[c].run) => Fits(row) /\ row.status = "running"
    BY DecidedFits
  <2>2. Decide(c, "answer", from, "answered", "running", row, "deliver", "done")
    BY <1>3
  <2>3. from = {"pending"} /\ "answered" \in Decided
    BY DEF Decided
  <2> HIDE DEF row, from
  <2> QED BY <1>0, <2>1, <2>2, <2>3, DecideKeeps
<1> QED BY <1>1, <1>2, <1>3 DEF Answer

\* Every step of a cancellation of a question is sound.
LEMMA CancelRequestOK ==
  ASSUME IInv, NEW c \in Clients, CancelRequest(c)
  PROVE  StepOK
<1>0. c \in Procs /\ "cancelRequest" \in Deciding
  BY Constants DEF Deciding
<1>1. CASE ChooseRequest(c, "cancelRequest")
  BY <1>1, ChooseOK
<1>2. CASE CheckDispatch(c, "cancelRequest", WaitsForAnswer(c), "done")
  <2> DEFINE t == "cancelRequest"
  <2>1. WaitsForAnswer(c) \in BOOLEAN
    BY DEF WaitsForAnswer
  <2>2. t \in Deciding /\ t # "answer" /\ CheckDispatch(c, t, WaitsForAnswer(c), "done")
    BY <1>0, <1>2
  <2> HIDE DEF t
  <2> QED BY <1>0, <2>1, <2>2, CheckKeeps
<1>3. CASE Decide(c, "cancelRequest", {"pending"}, "cancelled", "failed",
                  HitlReleased(seen[c].run), "detach", "done")
  <2> DEFINE row == HitlReleased(seen[c].run)
             from == {"pending"}
  <2>1. Fits(seen[c].run) => Fits(row) /\ row.status = "running"
    BY DecidedFits
  <2>2. Decide(c, "cancelRequest", from, "cancelled", "failed", row, "detach", "done")
    BY <1>3
  <2>3. from = {"pending"} /\ "cancelled" \in Decided
    BY DEF Decided
  <2> HIDE DEF row, from
  <2> QED BY <1>0, <2>1, <2>2, <2>3, DecideKeeps
<1> QED BY <1>1, <1>2, <1>3 DEF CancelRequest

\* Every step of the timeout of an expired question is sound.
LEMMA TimeOutOK ==
  ASSUME IInv, NEW c \in Clients, TimeOutRequest(c)
  PROVE  StepOK
<1>0. c \in Procs /\ "expired" \in Deciding /\ RunGuard("expired", run)
  BY Constants, GuardFacts DEF Deciding
<1>1. CASE ReadRun(c, "expired", TRUE, "sweep")
  BY <1>0, <1>1, ReadRunKeeps
<1>2. CASE CheckDispatch(c, "expired", WaitsForAnswer(c), "sweep")
  <2>1. WaitsForAnswer(c) \in BOOLEAN
    BY DEF WaitsForAnswer
  <2> QED BY <1>0, <1>2, <2>1, CheckKeeps
<1>3. CASE Decide(c, "expired", TimesOut, "timed_out", "failed",
                  HitlReleased(seen[c].run), "wakeExpired", "sweep")
  <2> DEFINE row == HitlReleased(seen[c].run)
  <2>1. Fits(seen[c].run) => Fits(row) /\ row.status = "running"
    BY DecidedFits
  <2>2. Decide(c, "expired", TimesOut, "timed_out", "failed", row, "wakeExpired", "sweep")
    BY <1>3
  <2>3. "timed_out" \in Decided
    BY DEF Decided
  <2> HIDE DEF row
  <2> QED BY <1>0, <2>1, <2>2, <2>3, DecideKeeps
<1> QED BY <1>1, <1>2, <1>3 DEF TimeOutRequest

\* What remove(h) does to the registry and the channels has the right type.
LEMMA WakeTyped ==
  ASSUME IInv, NEW h, NEW what \in {"answer", "closed"}, Wake(h, what), UNCHANGED env
  PROVE  LiveTyped'
BY DEF Wake, IInv, TypeOK, LiveTyped, env

\* Delivering an answer, or rebuilding the executor, is sound.
LEMMA DeliverOK ==
  ASSUME IInv, NEW c \in Clients, DeliverAnswer(c)
  PROVE  StepOK
<1> USE DEF DeliverAnswer
<1>1. PICK t \in {"done", "ensure"} : Goto(c, t)
  OBVIOUS
<1>2. UNCHANGED <<durable, about, tries>> /\ c \in Procs /\ LiveTyped'
  BY Constants, WakeTyped
<1>3. t \in Plain
  BY DEF Plain, Labels
<1> QED BY <1>1, <1>2, <1>3, PlainConcern, MoveKeeps

\* So is closing the channel of a cancelled question.
LEMMA DetachOK ==
  ASSUME IInv, NEW c \in Clients, Detach(c)
  PROVE  StepOK
<1>1. Goto(c, "done") /\ UNCHANGED <<durable, about, tries>> /\ c \in Procs /\ LiveTyped'
  BY Constants, WakeTyped DEF Detach
<1> QED BY <1>1, PlainLabels, PlainConcern, MoveKeeps

\* So is closing the channel of an expired question.
LEMMA DetachExpiredOK ==
  ASSUME IInv, NEW c \in Clients, DetachExpired(c)
  PROVE  StepOK
<1> USE DEF DetachExpired, At
<1>1. PICK t \in {"sweep", "resumeFailed"} : Goto(c, t)
  OBVIOUS
<1>2. UNCHANGED <<durable, about, tries>> /\ c \in Procs /\ LiveTyped'
  BY Constants, WakeTyped
<1>3. Concerns(c)' /\ t \in Labels \ {"expired", "listed", "ask", "retry"}
  BY <1>1, <1>2 DEF IInv, TypeOK, Concerns, Goto, Labels, Actions
<1> QED BY <1>1, <1>2, <1>3, MoveKeeps

\* Expiring a question keeps it outstanding, for the sweep that expired it.
LEMMA ExpireOK ==
  ASSUME IInv, NEW c \in Clients, Expire(c)
  PROVE  StepOK
<1> USE DEF Expire, At, env, live
<1>0. c \in Procs /\ pc[c] = "sweep" /\ Goto(c, "expired") /\ UNCHANGED <<run, dispatch, tries>>
      /\ LiveTyped'
  BY Constants DEF IInv, TypeOK, LiveTyped
<1>1. PICK h \in Expirable : /\ hitl[h] = "pending"
                             /\ hitl' = [hitl EXCEPT ![h] = "timed_out"]
                             /\ about' = [about EXCEPT ![c] = h]
  OBVIOUS
<1>2. h \in Requests
  BY HitlAssumption
<1>3. TypeOK'
  <2>1. hitl' \in [Requests -> Decided \cup {"none", "pending"}] /\ about' \in [Procs -> Requests \cup {None}]
    BY <1>1, <1>2 DEF IInv, TypeOK, Decided
  <2>2. pc' \in [Procs -> Labels]
    BY <1>0 DEF IInv, TypeOK, Goto, Labels
  <2> QED BY <1>0, <2>1, <2>2 DEF IInv, TypeOK, LiveTyped, Goto, Blank
<1>4. DecisionsKept /\ AnswersActive /\ LifeGoesOn /\ RowOK(run')
  BY <1>0, <1>1, <1>2 DEF IInv, TypeOK, DecisionsKept, AnswersActive, LifeGoesOn, Decided
<1>5. Concerns(c)'
  BY <1>0, <1>1, <1>2 DEF IInv, TypeOK, Concerns, Goto
<1>6. \A q \in Procs \ {c} : about'[q] = about[q] /\ pc'[q] = pc[q]
  BY <1>0, <1>1 DEF IInv, TypeOK, Goto
<1>7. pc'[c] = "expired" /\ about'[c] = h
  BY <1>0, <1>1 DEF IInv, TypeOK, Goto
<1>8. OneSweepEach'
  <2>1. \A q \in Procs : pc[q] = "expired" => about[q] # h
    BY <1>1 DEF IInv, Concerns
  <2> QED BY <1>6, <1>7, <2>1 DEF IInv, OneSweepEach
<1>9. QuestionInv'
  <2>1. \A g \in Requests : Outstanding(g)' => Outstanding(g)
    BY <1>0, <1>1, <1>2, <1>6, <1>7 DEF IInv, TypeOK, Outstanding
  <2> QED BY <1>0, <2>1 DEF IInv, QuestionInv, Settled
<1>10. AskInv' /\ TriesInv'
  <2>1. \A g \in Requests : hitl[g] = "none" => hitl'[g] = "none"
    BY <1>1, <1>2 DEF IInv, TypeOK
  <2> QED BY <1>0, <1>6, <1>7, <2>1, AskKept, Constants DEF IInv, TypeOK, TriesInv
<1> QED
  BY <1>0, <1>3, <1>4, <1>5, <1>6, <1>8, <1>9, <1>10, StepKeeps DEF StepOK, Labels

\* Every step of the sweep is sound.
LEMMA SweepOK ==
  ASSUME IInv, NEW c \in Clients, Sweep(c)
  PROVE  StepOK
BY Constants, ExpireOK, TimeOutOK, DetachExpiredOK, ResumeFailureOK DEF Sweep

--------------------------------------------------------------------------------
(***************************************************************************)
(* Cancelling the dispatch, the operator, timers, crash and recovery.      *)
(***************************************************************************)
\* Listing the pending questions is sound.
LEMMA ListOK ==
  ASSUME IInv, NEW c \in Clients, ListPending(c)
  PROVE  StepOK
<1> USE DEF ListPending, At, durable, live, env
<1>0. c \in Procs
  BY Constants
<1>1. TypeOK'
  BY <1>0 DEF IInv, TypeOK, Labels, Pending
<1>2. \A q \in Procs : Knows(q)'
  <2>1. ASSUME NEW q \in Procs, q # c PROVE Knows(q)'
    BY <2>1 DEF IInv, TypeOK, Knows
  <2>2. Knows(c)'
    <3>1. seen[c].run # None => FALSE
      BY <1>0 DEF IInv, Knows, RunGuard, Recording, Deciding
    <3>2. seen'[c].run = seen[c].run /\ seen'[c].dispatch = seen[c].dispatch /\ pc'[c] = "listed"
      BY <1>0 DEF IInv, TypeOK
    <3> QED BY <1>0, <3>1, <3>2 DEF IInv, Knows, DispatchGuard, Deciding
  <2> QED BY <2>1, <2>2
<1>3. \A q \in Procs : Concerns(q)'
  BY <1>0 DEF IInv, TypeOK, Concerns
<1>4. OneSweepEach' /\ QuestionInv' /\ TriesInv'
  BY <1>0, Constants DEF IInv, TypeOK, OneSweepEach, QuestionInv, Outstanding, Settled, TriesInv
<1>5. RowOK(run') /\ DecisionsKept /\ AnswersActive /\ LifeGoesOn
  BY DEF IInv, DecisionsKept, AnswersActive, LifeGoesOn
<1>6. AskInv'
  BY Constants, AskKept DEF IInv, TypeOK
<1> QED BY <1>1, <1>2, <1>3, <1>4, <1>5, <1>6 DEF IInv, StepOK

\* Cancelling the dispatch with the questions listed is sound: the run it may
\* release leaves no question that could still be answered, the dispatch being final.
LEMMA PersistCancelOK ==
  ASSUME IInv, NEW c \in Clients, PersistDispatchCancel(c)
  PROVE  StepOK
<1> DEFINE releases == seen[c].run # None /\ seen[c].run.status = "waiting_hitl"
           commits == /\ seen[c].requests \subseteq Pending
                      /\ DispatchUnmoved(c) /\ (releases => RunUnmoved(c))
<1>0. /\ c \in Procs /\ pc[c] = "listed" /\ UNCHANGED tries /\ LiveTyped'
      /\ seen[c].dispatch # None
  BY Constants DEF PersistDispatchCancel, At, IInv, TypeOK, LiveTyped, live, env, Knows
<1>a. {"done", "detach"} \subseteq Labels \ {"expired", "listed", "ask", "retry"}
  BY DEF Labels
<1>1. CASE ~commits
  <2>1. Goto(c, "done") /\ UNCHANGED <<durable, about>>
    BY <1>1 DEF PersistDispatchCancel
  <2> QED BY <1>0, <2>1, PlainLabels, PlainConcern, MoveKeeps
<1>2. CASE commits
  <2>1. /\ hitl' = [h \in Requests |-> IF h \in seen[c].requests THEN "cancelled" ELSE hitl[h]]
        /\ dispatch' = DispatchTo(c, "cancelled")
        /\ run' = IF releases THEN HitlReleased(seen[c].run) ELSE run
        /\ \/ Goto(c, "done") /\ UNCHANGED about
           \/ \E h \in seen[c].requests : Goto(c, "detach") /\ about' = [about EXCEPT ![c] = h]
    BY <1>2 DEF PersistDispatchCancel
  <2>2. \A h \in seen[c].requests : h \in Requests /\ hitl[h] = "pending"
    BY <1>2 DEF Pending
  <2>3. PICK t \in {"done", "detach"} :
          /\ Goto(c, t) /\ (t = "done" => about' = about)
          /\ t = "detach" => \E h \in seen[c].requests : about' = [about EXCEPT ![c] = h]
    BY <2>1
  <2>4. Fits(run') /\ (run' # run => run.status = "waiting_hitl" /\ run'.status = "running")
    <3>1. CASE releases
      BY <1>0, <1>2, <2>1, <3>1, CopyFits, DecidedFits DEF RunUnmoved
    <3>2. CASE ~releases
      <4>1. run' = run
        BY <2>1, <3>2
      <4>2. Fits(run)
        BY DEF IInv, TypeOK, Fits
      <4> QED BY <4>1, <4>2
    <3> QED BY <3>1, <3>2
  <2>5. dispatch' \in DispatchRow /\ dispatch'.status = "cancelled"
    BY <1>0, <2>1, DispatchCopy
  <2>6. hitl' \in [Requests -> Decided \cup {"none", "pending"}]
    BY <2>1 DEF IInv, TypeOK, Decided
  <2>7. /\ about' \in [Procs -> Requests \cup {None}]
        /\ \A q \in Procs \ {c} : about'[q] = about[q]
        /\ t = "detach" => about'[c] \in seen[c].requests
    BY <1>0, <2>2, <2>3 DEF IInv, TypeOK
  <2>8. TypeOK'
    <3>1. pc' \in [Procs -> Labels]
      BY <1>a, <2>3 DEF IInv, TypeOK, Goto
    <3>2. seen' \in [Procs -> [run : RunRow \cup {None}, dispatch : DispatchRow \cup {None},
                               requests : SUBSET Requests]]
      BY <2>3 DEF IInv, TypeOK, Goto, Blank
    <3> QED BY <1>0, <2>4, <2>5, <2>6, <2>7, <3>1, <3>2 DEF IInv, TypeOK, LiveTyped, Fits
  <2>9. DecisionsKept /\ AnswersActive
    BY <2>1, <2>2 DEF IInv, TypeOK, DecisionsKept, AnswersActive, Decided
  <2>10. LifeGoesOn
    BY <2>4, LifeOf DEF IInv, TypeOK, Fits
  <2>11. Concerns(c)'
    BY <1>0, <2>1, <2>2, <2>3, <2>7 DEF IInv, TypeOK, Concerns, Goto
  <2>12. OneSweepEach' /\ QuestionInv'
    BY <1>0, <1>a, <2>3, <2>5, <2>7, SweepsKept DEF QuestionInv, Settled
  <2>13. AskInv' /\ TriesInv'
    <3>1. \A g \in Requests : hitl[g] = "none" => hitl'[g] = "none"
      BY <2>1, <2>2 DEF IInv, TypeOK
    <3> QED BY <1>0, <1>a, <2>3, <3>1, AskKept, Constants DEF IInv, TypeOK, TriesInv, Goto
  <2> QED
    BY <1>0, <1>a, <2>3, <2>4, <2>7, <2>8, <2>9, <2>10, <2>11, <2>12, <2>13, StepKeeps
       DEF StepOK, Fits
<1> QED BY <1>1, <1>2

\* Every step of the cancellation of the dispatch is sound.
LEMMA CancelDispatchOK ==
  ASSUME IInv, NEW c \in Clients, CancelDispatch(c)
  PROVE  StepOK
<1>0. c \in Procs /\ RunGuard("listed", run)
  BY Constants, GuardFacts
<1>1. CASE ReadDispatch(c, "cancelDispatch", dispatch.status \in Open, "done")
  <2>1. /\ dispatch.status \in Open => DispatchGuard("cancelDispatch", dispatch.status)
        /\ "cancelDispatch" \notin Deciding /\ (dispatch.status \in Open) \in BOOLEAN
    BY DEF DispatchGuard, Deciding
  <2>2. "done" \in Plain \ {"ask"} /\ "done" # "retry"
    BY PlainLabels
  <2> QED BY <1>0, <1>1, <2>1, <2>2, ReadDispatchKeeps
<1>2. CASE ReadRun(c, "listed", TRUE, "done")
  BY <1>0, <1>2, ReadRunKeeps
<1> QED BY <1>1, <1>2, ListOK, PersistCancelOK DEF CancelDispatch

\* Every step of the cancellation of the run is sound.
LEMMA CancelRunOK ==
  ASSUME IInv, NEW c \in Clients, CancelRun(c)
  PROVE  StepOK
<1>0. c \in Procs /\ "done" \in Plain \ {"ask", "retry"}
  BY Constants, PlainLabels
<1>1. CASE ReadRun(c, "cancelRun", ~IsTerminal(run), "done")
  BY <1>0, <1>1, GuardFacts, ReadRunKeeps
<1>2. CASE CommitRun(c, "cancelRun", RunCancelled(seen[c].run), "done", "done")
  <2> DEFINE row == RunCancelled(seen[c].run)
  <2>1. Fits(row) /\ row.status = "cancelled"
    BY <1>0, <1>2, CopyFits, CancelledFits DEF CommitRun
  <2>2. CommitRun(c, "cancelRun", row, "done", "done")
    BY <1>2
  <2> HIDE DEF row
  <2> QED BY <1>0, <2>1, <2>2, CommitRunKeeps
<1> QED BY <1>1, <1>2 DEF CancelRun

\* Every step of a pause is sound.
LEMMA PauseRunOK ==
  ASSUME IInv, NEW c \in Clients, PauseRun(c)
  PROVE  StepOK
<1> DEFINE row == RunPaused(seen[c].run)
<1>1. /\ c \in Procs /\ "pauseRun" \in Recording \ {"ask"} /\ IsInterruptible(run) \in BOOLEAN
      /\ "done" \in Plain \ {"ask", "retry"} /\ NextRow(row, seen[c].run)
  BY Constants, PlainLabels, GuardFacts DEF NextRow
<1>2. \/ ReadRun(c, "pauseRun", IsInterruptible(run), "done")
      \/ CommitRun(c, "pauseRun", row, "done", "done")
  BY DEF PauseRun
<1> HIDE DEF row
<1> QED BY <1>1, <1>2, RecordKeeps

\* Every step of a request is sound.
LEMMA RequestOK ==
  ASSUME IInv, NEW c \in Clients, Request(c)
  PROVE  StepOK
BY AnswerOK, DeliverOK, CancelRequestOK, DetachOK, CancelDispatchOK, CancelRunOK, PauseRunOK
   DEF Request

\* A timer that strikes is sound.
LEMMA InterruptOK ==
  ASSUME IInv, NEW p \in Procs, NEW next \in {"error", "done"}, Interrupt(p, next)
  PROVE  StepOK
<1> USE DEF Interrupt
<1>1. LiveTyped' /\ Goto(p, next) /\ UNCHANGED <<durable, about, tries>>
  <2>1. timeouts \in Nat /\ MaxTimeouts \in Nat /\ timeouts' = timeouts + 1 /\ timeouts < MaxTimeouts
    BY Constants DEF IInv, TypeOK
  <2>2. timeouts' \in 0 .. MaxTimeouts
    BY <2>1
  <2> QED BY <2>2 DEF IInv, TypeOK, LiveTyped
<1> QED BY <1>1, PlainLabels, PlainConcern, MoveKeeps

\* A crash keeps the rows and forgets every copy; requests not made are made later.
LEMMA CrashOK ==
  ASSUME IInv, Crash
  PROVE  StepOK
<1> USE DEF Crash, durable
<1>1. \A p \in Procs : /\ pc'[p] = AfterRestart(p) /\ seen'[p] = Blank
                       /\ \/ pc'[p] = "done"
                          \/ p \in Clients /\ pc'[p] = ActionOf[p]
  BY Constants DEF AfterRestart, Procs, Doing
<1>2. TypeOK'
  <2>1. pc' \in [Procs -> Labels]
    BY <1>1, Constants DEF Labels
  <2>2. seen' \in [Procs -> [run : RunRow \cup {None}, dispatch : DispatchRow \cup {None},
                             requests : SUBSET Requests]]
    BY <1>1 DEF Blank
  <2>3. LiveTyped'
    <3>1. crashes \in Nat /\ MaxCrashes \in Nat /\ crashes' = crashes + 1 /\ crashes < MaxCrashes
      BY Constants DEF IInv, TypeOK
    <3>2. crashes' \in 0 .. MaxCrashes
      BY <3>1
    <3>3. registry' \in [Requests -> Executors \cup {None}] /\ inbox' \in [Executors -> {None, "answer", "closed"}]
      OBVIOUS
    <3> QED BY <3>2, <3>3 DEF IInv, TypeOK, LiveTyped
  <2> QED BY <2>1, <2>2, <2>3 DEF IInv, TypeOK, LiveTyped
<1>3. \A p \in Procs : Knows(p)'
  BY <1>1, Constants DEF Knows, Blank, Actions
<1>4. \A p \in Procs : Concerns(p)'
  BY <1>1, Constants DEF Concerns, Blank, Actions, Doing
<1>5. \A p \in Procs : pc'[p] \notin {"expired", "ask", "retry"}
  BY <1>1, Constants DEF Actions
<1>6. OneSweepEach' /\ QuestionInv' /\ TriesInv'
  BY <1>5, Constants DEF IInv, OneSweepEach, QuestionInv, Outstanding, Settled, TriesInv
<1>7. AskInv'
  BY <1>5, AskKept, Constants DEF IInv
<1>8. RowOK(run') /\ DecisionsKept /\ AnswersActive /\ LifeGoesOn
  BY DEF IInv, DecisionsKept, AnswersActive, LifeGoesOn
<1> QED BY <1>2, <1>3, <1>4, <1>6, <1>7, <1>8 DEF IInv, StepOK

\* The recovery scan pauses a running run and nothing else.
LEMMA RecoverOK ==
  ASSUME IInv, Recover
  PROVE  StepOK
<1> USE DEF Recover, live
<1>1. Fits(run') /\ (run' # run => run.status = "running" /\ run'.status = "paused")
  <2>1. Fits(run)
    BY DEF IInv, TypeOK, Fits
  <2> DEFINE next == RunRecovered(run)
  <2>2. /\ Fits(next) /\ (run.status = "running" => next.status = "paused")
        /\ run.status # "running" => next = run
    BY <2>1, CancelledFits
  <2>3. run' = next
    OBVIOUS
  <2> HIDE DEF next
  <2> QED BY <2>2, <2>3
<1>2. TypeOK'
  BY <1>1 DEF IInv, TypeOK, Fits
<1>3. \A p \in Procs : Knows(p)' /\ Concerns(p)'
  BY DEF IInv, Knows, Concerns
<1>4. OneSweepEach' /\ TriesInv' /\ DecisionsKept /\ AnswersActive
  BY DEF IInv, OneSweepEach, TriesInv, DecisionsKept, AnswersActive
<1>5. QuestionInv'
  BY <1>1 DEF IInv, QuestionInv, Outstanding, Settled, IsTerminal, Terminal
<1>6. LifeGoesOn
  BY <1>1, LifeOf DEF IInv, TypeOK, Fits
<1>7. AskInv'
  BY AskKept DEF IInv
<1> QED BY <1>1, <1>2, <1>3, <1>4, <1>5, <1>6, <1>7 DEF IInv, StepOK, Fits

\* Nothing changes.
LEMMA StutterOK ==
  ASSUME IInv, UNCHANGED vars
  PROVE  StepOK
<1> USE DEF vars
<1>1. TypeOK' /\ RowOK(run') /\ OneSweepEach' /\ QuestionInv' /\ TriesInv'
  BY DEF IInv, TypeOK, OneSweepEach, QuestionInv, Outstanding, Settled, TriesInv
<1>2. \A p \in Procs : Knows(p)' /\ Concerns(p)'
  BY DEF IInv, Knows, Concerns
<1>3. DecisionsKept /\ AnswersActive /\ LifeGoesOn
  BY DEF DecisionsKept, AnswersActive, LifeGoesOn
<1>4. AskInv'
  BY AskKept DEF IInv
<1> QED BY <1>1, <1>2, <1>3, <1>4 DEF IInv, StepOK

--------------------------------------------------------------------------------
(***************************************************************************)
(* The theorems.                                                           *)
(***************************************************************************)
\* The invariant holds when the step has been started and its dispatch created.
LEMMA InitInv == Init => IInv
<1> SUFFICES ASSUME Init PROVE IInv
  OBVIOUS
<1> USE DEF Init
<1>1. \A p \in Procs : /\ pc[p] = (IF p = Main THEN "ensure" ELSE ActionOf[p])
                       /\ p # Main => p \in Clients /\ pc[p] \in Actions
                       /\ seen[p] = Blank
  BY Constants DEF Procs
<1>2. Fits(run) /\ run.status = "running"
  BY Constants, NoneAssumption
     DEF Fits, RowOK, RunRow, Row, Statuses, Terminal, StepStarted, RunStarted, Detached,
         CreatedRow, ThisStep, NoActiveHitl
<1>3. TypeOK
  <2>1. pc \in [Procs -> Labels]
    BY <1>1 DEF Labels
  <2>2. seen \in [Procs -> [run : RunRow \cup {None}, dispatch : DispatchRow \cup {None},
                            requests : SUBSET Requests]]
    BY DEF Blank
  <2>3. dispatch \in DispatchRow
    BY DEF DispatchRow, Open
  <2>4. tries \in [Executors -> 0 .. MaxRetries] /\ timeouts \in 0 .. MaxTimeouts
        /\ crashes \in 0 .. MaxCrashes
    BY Constants
  <2> QED BY <1>2, <2>1, <2>2, <2>3, <2>4 DEF TypeOK, Fits
<1>4. \A p \in Procs : Knows(p) /\ Concerns(p)
  BY <1>1, Constants DEF Knows, Concerns, Blank, Actions, Doing
<1>5. \A p \in Procs : pc[p] \notin {"expired", "ask", "retry"}
  BY <1>1 DEF Actions
<1>6. OneSweepEach /\ QuestionInv /\ TriesInv
  BY <1>5, Constants DEF OneSweepEach, QuestionInv, Outstanding, TriesInv
<1>7. AskInv
  <2>1. Asking = {}
    BY <1>5, Constants DEF Asking
  <2> QED BY <2>1, FS_EmptySet, AskFinite DEF AskInv
<1> QED BY <1>2, <1>3, <1>4, <1>6, <1>7 DEF IInv, Fits

\* Every step of the system is sound.
LEMMA NextOK ==
  ASSUME IInv, [Next]_vars
  PROVE  StepOK
<1>1. ASSUME NEW p \in Executors, StepTimeout(p) PROVE StepOK
  BY <1>1, Constants, InterruptOK DEF StepTimeout
<1>2. CASE RunTimeout
  BY <1>2, Constants, InterruptOK DEF RunTimeout
<1>3. CASE Stuck
  BY <1>3, StutterOK DEF Stuck
<1> QED
  BY <1>1, <1>2, <1>3, ExecuteOK, RequestOK, SweepOK, CrashOK, RecoverOK, StutterOK DEF Next

\* The invariant holds throughout.
THEOREM Invariant == Spec => []IInv
<1>1. IInv /\ [Next]_vars => IInv'
  BY NextOK DEF StepOK
<1> QED BY <1>1, InitInv, PTL DEF Spec

\* Types, for any number of clients, questions, retries, timeouts and crashes; in
\* particular whoever asks finds a free number and nobody retries too often.
THEOREM TypeCorrect == Spec => []TypeOK
<1>1. IInv => TypeOK
  BY DEF IInv
<1> QED BY <1>1, Invariant, PTL

\* A run waits for a human exactly when its row names the question as the one it
\* waits for and as the active one, with the dispatch that asked it.
THEOREM WaitingModeKept == Spec => []OneWaitingMode
<1>1. IInv => OneWaitingMode
  BY DEF IInv, RowOK, OneWaitingMode
<1> QED BY <1>1, Invariant, PTL

\* A question is decided once, whoever answers, cancels, expires it or cancels the
\* dispatch that asked it.
THEOREM DecisionsFinal == Spec => DecisionIsFinal
<1>1. IInv /\ [Next]_vars =>
        [\A h \in Requests : hitl[h] \in Decided => hitl'[h] = hitl[h]]_hitl
  BY NextOK DEF StepOK, DecisionsKept
<1> QED BY <1>1, Invariant, PTL DEF Spec, DecisionIsFinal

\* An answer is accepted only for the question the run waits for at the commit,
\* although the commit compares statuses only and the run may have been read long ago.
THEOREM ActiveAnswered == Spec => AnswersTheActiveQuestion
<1>1. IInv /\ [Next]_vars =>
        [\A h \in Requests : hitl[h] = "pending" /\ hitl'[h] = "answered"
           => run.active_hitl_request_id = h /\ run.status = "waiting_hitl"]_hitl
  BY NextOK DEF StepOK, AnswersActive
<1> QED BY <1>1, Invariant, PTL DEF Spec, AnswersTheActiveQuestion

\* Every write of the row, from whichever copy, is a step of the run's lifecycle.
THEOREM LifecycleFollowed == Spec => FollowsLifecycle
<1>1. IInv /\ [Next]_vars => [Lifecycle!Next]_<<run.status, run.waiting_ref>>
  BY NextOK DEF StepOK, LifeGoesOn
<1> QED BY <1>1, Invariant, PTL DEF Spec, FollowsLifecycle

-----------------------------------------------------------------------------
(***************************************************************************)
(* Who may move the run: proofs that count processes.                      *)
(*                                                                         *)
(* Whoever works on the step, or has just decided its question and must    *)
(* still wake somebody, holds a baton.  Until a step timeout strikes there *)
(* is one baton at most: an ask lays it down with the question, a decision *)
(* picks it up, and waking the receiver passes it on.  While the dispatch  *)
(* waits nobody holds it, so what was read of the dispatch is still true   *)
(* when it is used.                                                        *)
(*                                                                         *)
(* Some thirty operations read, write, decide, wake and strike.  What the  *)
(* invariants need to know of them is little: which rows change, from      *)
(* which statuses, who is left at work and whether the copies used are     *)
(* those that were read.  The kinds of steps say that, the lemma EveryStep *)
(* says that there are no others, and the invariants are proved of them.   *)
(***************************************************************************)

(* The kinds of steps                                                        *)

Holding ==
  {"ensure", "mark", "turn", "conclude", "ask", "turnFailed", "error", "retry",
   "stepCompleted", "stepSkipped", "stepFailed", "runFailed", "runCompleted",
   "resumeFailed", "markStep", "markRun", "deliver", "detach", "wakeExpired"}

\* p works on the step, or was woken and has not noticed yet.
Holds(p) ==
  \/ pc[p] \in Holding
  \/ p \in Executors /\ pc[p] = "await" /\ inbox[p] # None

--------------------------------------------------------------------------------
(***************************************************************************)
(* Kinds of steps.                                                         *)
(***************************************************************************)
OthersSame(p) ==
  \A q \in Procs \ {p} : pc'[q] = pc[q] /\ seen'[q] = seen[q] /\ about'[q] = about[q]

ChannelsSame(p) == \A q \in Executors \ {p} : inbox'[q] = inbox[q]

\* A sweep that turns away from a question it expired was given a reason.
Baffled(p) ==
  /\ seen[p].run # None
  /\ \/ seen[p].run.status # "waiting_hitl"
     \/ dispatch.status # "waiting_hitl" \/ run.status # "waiting_hitl"

\* What p has of the dispatch, and of the run of an expired question, it had or has
\* just read.
CopiesOf(p) ==
  /\ seen'[p].dispatch # None =>
       /\ about'[p] = about[p]
       /\ pc'[p] = "listed" \/ pc'[p] = pc[p]
       /\ \/ seen'[p].dispatch = dispatch
          \/ seen[p].dispatch # None /\ seen'[p].dispatch = seen[p].dispatch
  /\ pc'[p] = "expired" /\ seen'[p].run # None =>
       \/ seen'[p].run = run
       \/ seen[p].run # None /\ seen'[p].run = seen[p].run

\* The registry changes only when p registers itself.
RegistryOf(p) ==
  \/ registry' = registry /\ pc'[p] # "await"
  \/ /\ p \in Executors /\ about[p] \in Requests /\ about'[p] = about[p]
     /\ registry' = [registry EXCEPT ![about[p]] = p]
     /\ pc[p] = "register" /\ pc'[p] = "await" /\ inbox'[p] = None

\* p moves, reads or writes the run; it takes no baton, and lays one down only when
\* the run is not running.
Moves(p) ==
  /\ OthersSame(p) /\ ChannelsSame(p) /\ UNCHANGED <<dispatch, hitl, env>>
  /\ CopiesOf(p) /\ RegistryOf(p)
  /\ pc[p] = "await" => inbox[p] # None
  /\ Holds(p)' => Holds(p)
  /\ Holds(p) /\ ~Holds(p)' => run'.status # "running"
  /\ run' # run => /\ ~IsTerminal(run) /\ pc[p] # "expired"
                   /\ run'.status # "waiting_hitl"
                   /\ run'.status = "running" => run.status = "running"
  /\ pc'[p] = "expired" => pc[p] = "expired" /\ about'[p] = about[p]
  /\ pc[p] = "expired" /\ pc'[p] # "expired" => Baffled(p)

\* p, which works on the step, writes the dispatch.
WritesDispatch(p) ==
  /\ OthersSame(p) /\ UNCHANGED <<run, hitl, live, env>>
  /\ pc[p] \in Holding /\ pc'[p] \in Holding /\ seen'[p] = Blank
  /\ seen[p].dispatch # None
  /\ dispatch'.status \notin {"waiting_hitl", "cancelled"}
  /\ <<dispatch.status, dispatch'.status>> \in LegalMoves
  /\ dispatch.status # "cancelled"
  /\ dispatch'.attempt = IF dispatch'.status = "pending"
                         THEN seen[p].dispatch.attempt + 1
                         ELSE seen[p].dispatch.attempt

\* p asks.
Asks(p) ==
  /\ OthersSame(p) /\ UNCHANGED <<live, env>>
  /\ pc[p] = "ask" /\ pc'[p] = "register" /\ seen'[p] = Blank
  /\ seen[p].dispatch # None
  /\ dispatch.status = "running" /\ dispatch'.status = "waiting_hitl"
  /\ dispatch'.attempt = seen[p].dispatch.attempt
  /\ run.status = "running" /\ run'.status = "waiting_hitl"
  /\ \E h \in Requests : /\ hitl[h] = "none" /\ hitl' = [hitl EXCEPT ![h] = "pending"]
                         /\ run'.active_hitl_request_id = h

\* c decides the question that is outstanding.
Decides(c) ==
  /\ OthersSame(c) /\ UNCHANGED <<live, env>>
  /\ pc[c] \in Deciding /\ pc'[c] \in {"deliver", "detach", "wakeExpired"} /\ seen'[c] = Blank
  /\ seen[c].dispatch # None
  /\ dispatch.status = "waiting_hitl" /\ dispatch'.status \in {"running", "failed"}
  /\ dispatch'.attempt = seen[c].dispatch.attempt
  /\ run.status = "waiting_hitl" /\ run'.status = "running"
  /\ Outstanding(about[c])
  /\ \A h \in Requests : ~Outstanding(h)'

\* c cancels the dispatch with the pending questions.
CancelsDispatch(c) ==
  /\ OthersSame(c) /\ UNCHANGED <<live, env>>
  /\ pc[c] = "listed" /\ pc'[c] \in {"done", "detach"} /\ seen'[c] = Blank
  /\ dispatch.status \in Open /\ dispatch'.status = "cancelled"
  /\ pc'[c] = "detach" => \E h \in Requests : hitl[h] = "pending"

\* c, which decided a question, wakes its receiver if there is one.
Wakes(c) ==
  /\ OthersSame(c) /\ UNCHANGED <<run, dispatch, hitl, env, about>>
  /\ pc[c] \in {"deliver", "detach", "wakeExpired"} /\ about[c] \in Requests
  /\ seen'[c] = Blank
  /\ \E what \in {"answer", "closed"} : Wake(about[c], what)
  /\ pc'[c] \in {"done", "ensure", "sweep", "resumeFailed"}
  /\ Listening(about[c]) => pc'[c] \in {"done", "sweep"}
  /\ pc[c] \in {"deliver", "wakeExpired"} /\ pc'[c] \in {"done", "sweep"} => registry[about[c]] # None

\* A timer strikes: the one around a dispatch, or the one around the run.
Strikes(p) ==
  /\ OthersSame(p) /\ ChannelsSame(p) /\ UNCHANGED <<run, dispatch, hitl, registry, up, crashes>>
  /\ timeouts' = timeouts + 1 /\ seen'[p] = Blank
  /\ pc[p] # "expired" /\ pc'[p] \in {"error", "done"}
  /\ "step" \in Timers \/ pc'[p] = "done"

\* Every step is of one of these kinds.
StepKind ==
  \/ \E p \in Procs : \/ Moves(p) \/ WritesDispatch(p) \/ Asks(p) \/ Decides(p)
                      \/ CancelsDispatch(p) \/ Wakes(p) \/ Strikes(p)
  \/ \E c \in Clients : Expire(c)
  \/ Crash \/ Recover \/ UNCHANGED vars

\* What the labels are not.
LEMMA HoldingLabels ==
  /\ Holding \subseteq Working
  /\ \A t \in Holding : t \notin Deciding \cup {"await", "expired", "listed", "done", "sweep",
                                                "register"}
BY DEF Holding, Working, Labels, Actions, Deciding

--------------------------------------------------------------------------------
(***************************************************************************)
(* Every step is of one of the kinds.                                      *)
(***************************************************************************)
\* p changes its label and gives up its copies.
LEMMA GotoMoves ==
  ASSUME IInv, NEW p \in Procs, NEW t, Goto(p, t), t \notin {"await", "expired"},
         UNCHANGED <<durable, live, env, about>>, pc[p] # "await",
         t \in Holding => pc[p] \in Holding,
         pc[p] \in Holding => t \in Holding \/ run.status # "running",
         pc[p] = "expired" => Baffled(p)
  PROVE  Moves(p)
<1> USE DEF Goto, durable, live, env
<1>1. /\ OthersSame(p) /\ ChannelsSame(p) /\ UNCHANGED <<dispatch, hitl, env>> /\ run' = run
      /\ pc'[p] = t /\ seen'[p] = Blank /\ about'[p] = about[p]
  BY DEF IInv, TypeOK, OthersSame, ChannelsSame
<1>2. CopiesOf(p) /\ RegistryOf(p)
  BY <1>1 DEF CopiesOf, RegistryOf, Blank
<1>3. (Holds(p) <=> pc[p] \in Holding) /\ (Holds(p)' <=> t \in Holding)
  BY <1>1 DEF Holds
<1> QED BY <1>1, <1>2, <1>3 DEF Moves

\* p copies a row.
LEMMA CopyMoves ==
  ASSUME IInv, NEW p \in Procs, pc' = pc, pc[p] # "await",
         UNCHANGED <<durable, live, env, about>>,
         \/ seen' = [seen EXCEPT ![p].run = run]
         \/ seen' = [seen EXCEPT ![p].dispatch = dispatch]
  PROVE  Moves(p)
<1> USE DEF durable, live, env
<1>1. OthersSame(p) /\ ChannelsSame(p) /\ UNCHANGED <<run, dispatch, hitl, env>>
  BY DEF IInv, TypeOK, OthersSame, ChannelsSame
<1>2. CopiesOf(p) /\ RegistryOf(p)
  BY DEF IInv, TypeOK, CopiesOf, RegistryOf
<1>3. Holds(p)' <=> Holds(p)
  BY DEF Holds
<1> QED BY <1>1, <1>2, <1>3 DEF Moves

\* p reads the run, or turns away.
LEMMA ReadRunMoves ==
  ASSUME IInv, NEW p \in Procs, NEW t, NEW guard \in BOOLEAN, NEW otherwise,
         ReadRun(p, t, guard, otherwise), t # "await",
         guard \/ /\ otherwise \notin {"await", "expired"} /\ t # "expired"
                  /\ otherwise \in Holding => t \in Holding
                  /\ t \in Holding => otherwise \in Holding \/ run.status # "running"
  PROVE  Moves(p)
<1>1. CASE guard
  BY <1>1, CopyMoves DEF ReadRun, At
<1>2. CASE ~guard
  BY <1>2, GotoMoves DEF ReadRun, At
<1> QED BY <1>1, <1>2

\* p reads the dispatch, or turns away.
LEMMA ReadDispatchMoves ==
  ASSUME IInv, NEW p \in Procs, NEW t, NEW guard \in BOOLEAN, NEW otherwise,
         ReadDispatch(p, t, guard, otherwise), t # "await",
         otherwise \notin {"await", "expired"},
         otherwise \in Holding <=> t \in Holding,
         t # "expired" \/ guard \/ Baffled(p)
  PROVE  Moves(p)
<1>1. CASE guard
  BY <1>1, CopyMoves DEF ReadDispatch, At
<1>2. CASE ~guard
  BY <1>2, GotoMoves DEF ReadDispatch, At
<1> QED BY <1>1, <1>2

EndRow(row, r) ==
  row = RunCompleted(r) \/ row = RunFailed(r, ThisStep) \/ row = RunPaused(r)

\* What is recorded is recorded of a running run; the baton goes with the run.
LEMMA RecordMoves ==
  ASSUME IInv, NEW p \in Procs, NEW t \in Recording \ {"ask"}, NEW guard \in BOOLEAN,
         run.status = "running" => guard,
         NEW row, NEW next, NEW otherwise,
         \/ ReadRun(p, t, guard, otherwise)
         \/ CommitRun(p, t, row, next, otherwise),
         NextRow(row, seen[p].run),
         next \in Holding \/ EndRow(row, seen[p].run),
         {next, otherwise} \subseteq Holding \cup {"done", "sweep"},
         t \in Holding \/ (next = "done" /\ otherwise = "done")
  PROVE  Moves(p)
<1>0. t \notin {"await", "expired"}
      /\ next \notin {"await", "expired"} /\ otherwise \notin {"await", "expired"}
      /\ "done" \notin Holding /\ "sweep" \notin Holding
  BY HoldingLabels DEF Recording, Deciding
<1>1. CASE ReadRun(p, t, guard, otherwise)
  BY <1>0, <1>1, ReadRunMoves
<1>2. CASE CommitRun(p, t, row, next, otherwise)
  <2>1. /\ Fits(seen[p].run) /\ seen[p].run.status = "running" /\ pc[p] = t
        /\ UNCHANGED <<dispatch, hitl, live, env, about>>
    BY <1>2, CopyFits DEF CommitRun, At, RunGuard
  <2>2. CASE ~RunUnmoved(p)
    <3>1. Goto(p, otherwise) /\ run' = run /\ run.status # "running"
      BY <1>2, <2>1, <2>2 DEF CommitRun, RunUnmoved
    <3> QED BY <1>0, <2>1, <3>1, GotoMoves DEF durable
  <2>3. CASE RunUnmoved(p)
    <3>1. run' = row /\ run.status = "running" /\ Goto(p, next)
      BY <1>2, <2>1, <2>3 DEF CommitRun, RunUnmoved
    <3>2. /\ row.status \in {"running", "paused", "completed", "failed"}
          /\ EndRow(row, seen[p].run) => row.status # "running"
      BY <2>1, NextRowFits, RecordedFits DEF EndRow
    <3>3. /\ OthersSame(p) /\ ChannelsSame(p) /\ UNCHANGED <<dispatch, hitl, env>>
          /\ pc'[p] = next /\ seen'[p] = Blank /\ about'[p] = about[p]
      BY <2>1, <3>1 DEF IInv, TypeOK, Goto, OthersSame, ChannelsSame, live
    <3>4. CopiesOf(p) /\ RegistryOf(p)
      BY <1>0, <2>1, <3>3 DEF CopiesOf, RegistryOf, Blank, live
    <3>5. (Holds(p) <=> t \in Holding) /\ (Holds(p)' <=> next \in Holding)
      BY <1>0, <2>1, <3>3 DEF Holds
    <3>6. ~IsTerminal(run)
      BY <3>1 DEF IsTerminal, Terminal
    <3> QED BY <1>0, <2>1, <3>1, <3>2, <3>3, <3>4, <3>5, <3>6 DEF Moves
  <2> QED BY <2>2, <2>3
<1> QED BY <1>1, <1>2

\* A legal change of the dispatch by whoever works on the step.
LEMMA MoveDispatchKind ==
  ASSUME IInv, NEW p \in Procs, NEW t \in Holding, NEW from, NEW next \in Holding,
         NEW s \in {"running", "completed", "failed"}, NEW otherwise \in Holding,
         MoveDispatch(p, t, from, next, DispatchTo(p, s), otherwise),
         \A d : DispatchGuard(t, d) => <<d, s>> \in LegalMoves /\ d # "cancelled"
  PROVE  Moves(p) \/ WritesDispatch(p)
<1>0. /\ t \notin {"await", "expired"} /\ next \notin {"await", "expired"}
      /\ otherwise \notin {"await", "expired"}
  BY HoldingLabels DEF Deciding
<1>1. CASE ReadDispatch(p, t, dispatch.status \in from, otherwise)
  <2>1. (dispatch.status \in from) \in BOOLEAN
    OBVIOUS
  <2> QED BY <1>0, <1>1, <2>1, ReadDispatchMoves
<1>2. CASE /\ At(p, t) /\ seen[p].dispatch # None
           /\ IF DispatchUnmoved(p) THEN dispatch' = DispatchTo(p, s) /\ Goto(p, next)
                                    ELSE UNCHANGED dispatch /\ Goto(p, otherwise)
           /\ UNCHANGED <<run, hitl, live, env, about, tries>>
  <2>1. CASE ~DispatchUnmoved(p)
    BY <1>0, <1>2, <2>1, GotoMoves DEF At, durable
  <2>2. CASE DispatchUnmoved(p)
    <3>1. /\ dispatch' = DispatchTo(p, s) /\ Goto(p, next) /\ seen[p].dispatch \in DispatchRow
          /\ DispatchGuard(t, dispatch.status) /\ pc[p] = t
      BY <1>2, <2>2, DispatchCopy DEF At, DispatchUnmoved
    <3>2. dispatch'.status = s /\ dispatch'.attempt = seen[p].dispatch.attempt
      BY <3>1 DEF DispatchTo, DispatchRow
    <3>3. OthersSame(p) /\ pc'[p] = next /\ seen'[p] = Blank
      BY <1>2, <3>1 DEF IInv, TypeOK, Goto, OthersSame
    <3> QED BY <1>2, <3>1, <3>2, <3>3 DEF WritesDispatch
  <2> QED BY <2>1, <2>2
<1> QED BY <1>1, <1>2 DEF MoveDispatch

\* The labels an executor goes to after an error.
LEMMA AfterErrorHolds == \A p : AfterError(p) \in Holding
BY DEF AfterError, Holding

\* Marking, completing and failing the dispatch.
LEMMA DispatchKind ==
  ASSUME IInv, NEW p \in Executors,
         \/ MarkDispatchRunning(p) \/ CompleteDispatch(p)
         \/ FailDispatch(p, "turnFailed", "error") \/ FailDispatch(p, "error", AfterError(p))
  PROVE  Moves(p) \/ WritesDispatch(p)
<1>0. p \in Procs
  BY Constants
<1>1. CASE MarkDispatchRunning(p)
  <2> DEFINE from == {"pending", "waiting_hitl"}
             t == "mark"
             s == "running"
  <2>1. MoveDispatch(p, t, from, "turn", DispatchTo(p, s), "error")
    BY <1>1 DEF MarkDispatchRunning
  <2>2. /\ \A d : DispatchGuard(t, d) => <<d, s>> \in LegalMoves /\ d # "cancelled"
        /\ t \in Holding /\ "turn" \in Holding /\ "error" \in Holding
        /\ s \in {"running", "completed", "failed"}
    BY DEF DispatchGuard, LegalMoves, Holding
  <2> HIDE DEF from, t, s
  <2> QED BY <1>0, <2>1, <2>2, MoveDispatchKind
<1>2. CASE CompleteDispatch(p)
  <2> DEFINE from == {"running"}
             t == "conclude"
             s == "completed"
  <2>1. MoveDispatch(p, t, from, "stepCompleted", DispatchTo(p, s), "error")
    BY <1>2 DEF CompleteDispatch
  <2>2. /\ \A d : DispatchGuard(t, d) => <<d, s>> \in LegalMoves /\ d # "cancelled"
        /\ t \in Holding /\ "stepCompleted" \in Holding /\ "error" \in Holding
        /\ s \in {"running", "completed", "failed"}
    BY DEF DispatchGuard, LegalMoves, Holding
  <2> HIDE DEF from, t, s
  <2> QED BY <1>0, <2>1, <2>2, MoveDispatchKind
<1>3. ASSUME NEW t \in {"turnFailed", "error"}, NEW next \in Holding, FailDispatch(p, t, next)
      PROVE  Moves(p) \/ WritesDispatch(p)
  <2> DEFINE s == "failed"
  <2>1. MoveDispatch(p, t, Open, next, DispatchTo(p, s), next)
    BY <1>3 DEF FailDispatch
  <2>2. /\ \A d : DispatchGuard(t, d) => <<d, s>> \in LegalMoves /\ d # "cancelled"
        /\ t \in Holding /\ s \in {"running", "completed", "failed"}
    BY <1>3 DEF DispatchGuard, LegalMoves, Holding, Open
  <2> HIDE DEF s
  <2> QED BY <1>0, <1>3, <2>1, <2>2, MoveDispatchKind
<1>4. "error" \in Holding
  BY DEF Holding
<1> QED BY <1>1, <1>2, <1>3, <1>4, AfterErrorHolds

\* A retry of the dispatch.
LEMMA RetryKind ==
  ASSUME IInv, NEW p \in Executors, PrepareDispatchRetry(p)
  PROVE  Moves(p) \/ WritesDispatch(p)
<1>0. p \in Procs /\ {"retry", "ensure", "stepFailed"} \subseteq Holding
  BY Constants DEF Holding
<1>1. CASE ReadDispatch(p, "retry", dispatch.status = "failed", "stepFailed")
  <2> DEFINE guard == dispatch.status = "failed"
             t == "retry"
             otherwise == "stepFailed"
  <2>1. ReadDispatch(p, t, guard, otherwise) /\ guard \in BOOLEAN
    BY <1>1
  <2>2. /\ t \notin {"await", "expired"} /\ otherwise \notin {"await", "expired"}
        /\ t \in Holding /\ otherwise \in Holding
    BY <1>0
  <2> HIDE DEF guard, t, otherwise
  <2> QED BY <1>0, <2>1, <2>2, ReadDispatchMoves
<1>2. CASE /\ At(p, "retry") /\ seen[p].dispatch # None
           /\ IF DispatchUnmoved(p)
              THEN /\ dispatch' = [status |-> "pending",
                                   attempt |-> seen[p].dispatch.attempt + 1]
                   /\ tries' = [tries EXCEPT ![p] = @ + 1]
                   /\ Goto(p, "ensure")
              ELSE Goto(p, "stepFailed") /\ UNCHANGED <<dispatch, tries>>
           /\ UNCHANGED <<run, hitl, live, env, about>>
  <2>1. CASE ~DispatchUnmoved(p)
    BY <1>0, <1>2, <2>1, GotoMoves DEF At, durable
  <2>2. CASE DispatchUnmoved(p)
    <3>1. dispatch.status = "failed" /\ pc[p] = "retry"
      BY <1>0, <1>2, <2>2, DispatchCopy DEF At, DispatchUnmoved, DispatchGuard
    <3>2. OthersSame(p) /\ pc'[p] = "ensure" /\ seen'[p] = Blank
      BY <1>0, <1>2, <2>2 DEF IInv, TypeOK, Goto, OthersSame
    <3> QED BY <1>0, <1>2, <2>2, <3>1, <3>2 DEF WritesDispatch, LegalMoves
  <2> QED BY <2>1, <2>2
<1> QED BY <1>1, <1>2 DEF PrepareDispatchRetry

\* Looking at the dispatch, the agent's turn, and the end of a wait.
LEMMA TurnMoves ==
  ASSUME IInv, NEW p \in Executors,
         EnsureDispatchRunning(p) \/ AgentTurn(p) \/ WaitForHitlAnswer(p)
  PROVE  Moves(p)
<1>0. p \in Procs
  BY Constants
<1>1. CASE EnsureDispatchRunning(p)
  <2>1. PICK t \in {"turn", "mark", "error"} : Goto(p, t)
    BY <1>1 DEF EnsureDispatchRunning
  <2> QED BY <1>0, <1>1, <2>1, GotoMoves DEF EnsureDispatchRunning, At, Holding
<1>2. CASE AgentTurn(p)
  <2>1. PICK t \in {"conclude", "ask", "turnFailed"} : Goto(p, t)
    BY <1>2 DEF AgentTurn
  <2> QED BY <1>0, <1>2, <2>1, GotoMoves DEF AgentTurn, At, Holding
<1>3. CASE WaitForHitlAnswer(p)
  <2> USE DEF WaitForHitlAnswer, At, durable
  <2>1. PICK t \in {"ensure", "error"} : Goto(p, t)
    BY <1>3
  <2>2. /\ OthersSame(p) /\ ChannelsSame(p) /\ UNCHANGED <<run, dispatch, hitl, env, registry>>
        /\ pc'[p] = t /\ seen'[p] = Blank /\ pc[p] = "await" /\ inbox[p] # None
    BY <1>0, <1>3, <2>1 DEF IInv, TypeOK, Goto, OthersSame, ChannelsSame
  <2>3. CopiesOf(p) /\ RegistryOf(p)
    BY <2>1, <2>2 DEF CopiesOf, RegistryOf, Blank
  <2>4. Holds(p) /\ Holds(p)'
    BY <2>1, <2>2 DEF Holds, Holding
  <2> QED BY <2>1, <2>2, <2>3, <2>4 DEF Moves
<1> QED BY <1>1, <1>2, <1>3

\* Registering the sender.
LEMMA RegisterMoves ==
  ASSUME IInv, NEW p \in Executors, RegisterSender(p)
  PROVE  Moves(p)
<1> USE DEF RegisterSender, At, durable
<1>1. /\ p \in Procs /\ OthersSame(p) /\ ChannelsSame(p) /\ UNCHANGED <<run, dispatch, hitl, env>>
      /\ pc'[p] = "await" /\ seen'[p] = Blank /\ pc[p] = "register" /\ inbox'[p] = None
      /\ about[p] \in Requests /\ about'[p] = about[p]
  BY Constants DEF IInv, TypeOK, Concerns, Goto, OthersSame, ChannelsSame
<1>2. CopiesOf(p) /\ RegistryOf(p)
  BY <1>1 DEF CopiesOf, RegistryOf, Blank
<1>3. ~Holds(p) /\ ~Holds(p)'
  BY <1>1 DEF Holds, Holding
<1> QED BY <1>1, <1>2, <1>3 DEF Moves

\* Where the records of a step lead, and what allows them.
LEMMA RecordFacts ==
  ASSUME IInv, NEW p \in Procs
  PROVE  /\ CanRecordStep(run) \in BOOLEAN /\ IsInterruptible(run) \in BOOLEAN
         /\ run.status = "running" => CanRecordStep(run) /\ IsInterruptible(run)
         /\ Refused(p) \in Holding \cup {"done", "sweep"} /\ Idle(p) \in {"done", "sweep"}
         /\ {"stepCompleted", "stepSkipped", "runCompleted", "stepFailed", "runFailed",
             "markStep", "markRun"} \subseteq Holding \cap (Recording \ {"ask"})
BY DEF IInv, RowOK, CanRecordStep, IsInterruptible, Refused, Idle, Holding, Recording

\* The transitions at the end of the step.
LEMMA RecordsMove ==
  ASSUME IInv, NEW p \in Procs,
         \/ RecordStepCompleted(p) \/ RecordStepSkipped(p) \/ RecordRunCompleted(p)
         \/ RecordStepFailed(p, "stepFailed", "runFailed", Refused(p))
         \/ RecordRunFailed(p, "runFailed", Refused(p))
         \/ RecordStepFailed(p, "markStep", "markRun", Idle(p))
         \/ RecordRunFailed(p, "markRun", Idle(p))
  PROVE  Moves(p)
<1>1. CASE RecordStepCompleted(p)
  <2> DEFINE t == "stepCompleted"
             row == StepCompleted(seen[p].run, ThisStep, {ThisStep})
             guard == CanRecordStep(run)
             next == "runCompleted"
  <2>1. ReadRun(p, t, guard, Refused(p)) \/ CommitRun(p, t, row, next, Refused(p))
    BY <1>1 DEF RecordStepCompleted
  <2>2. NextRow(row, seen[p].run)
    BY DEF NextRow
  <2>3. /\ t \in Holding /\ t \in Recording \ {"ask"} /\ guard \in BOOLEAN
        /\ run.status = "running" => guard
        /\ {next, Refused(p)} \subseteq Holding \cup {"done", "sweep"} /\ next \in Holding
    BY RecordFacts
  <2> HIDE DEF t, row, guard, next
  <2> QED BY <2>1, <2>2, <2>3, RecordMoves
<1>2. CASE RecordStepSkipped(p)
  <2> DEFINE t == "stepSkipped"
             row == StepSkipped(seen[p].run, ThisStep)
             guard == CanRecordStep(run)
             next == "runCompleted"
  <2>1. ReadRun(p, t, guard, Refused(p)) \/ CommitRun(p, t, row, next, Refused(p))
    BY <1>2 DEF RecordStepSkipped
  <2>2. NextRow(row, seen[p].run)
    BY DEF NextRow
  <2>3. /\ t \in Holding /\ t \in Recording \ {"ask"} /\ guard \in BOOLEAN
        /\ run.status = "running" => guard
        /\ {next, Refused(p)} \subseteq Holding \cup {"done", "sweep"} /\ next \in Holding
    BY RecordFacts
  <2> HIDE DEF t, row, guard, next
  <2> QED BY <2>1, <2>2, <2>3, RecordMoves
<1>3. CASE RecordRunCompleted(p)
  <2> DEFINE t == "runCompleted"
             row == RunCompleted(seen[p].run)
             guard == CanRecordStep(run)
             next == "done"
  <2>1. ReadRun(p, t, guard, Refused(p)) \/ CommitRun(p, t, row, next, Refused(p))
    BY <1>3 DEF RecordRunCompleted
  <2>2. NextRow(row, seen[p].run) /\ EndRow(row, seen[p].run)
    BY DEF NextRow, EndRow
  <2>3. /\ t \in Holding /\ t \in Recording \ {"ask"} /\ guard \in BOOLEAN
        /\ run.status = "running" => guard
        /\ {next, Refused(p)} \subseteq Holding \cup {"done", "sweep"}
    BY RecordFacts
  <2> HIDE DEF t, row, guard, next
  <2> QED BY <2>1, <2>2, <2>3, RecordMoves
<1>4. CASE RecordStepFailed(p, "stepFailed", "runFailed", Refused(p))
  <2> DEFINE t == "stepFailed"
             row == StepFailed(seen[p].run, ThisStep)
             guard == CanRecordStep(run)
             next == "runFailed"
  <2>1. ReadRun(p, t, guard, Refused(p)) \/ CommitRun(p, t, row, next, Refused(p))
    BY <1>4 DEF RecordStepFailed
  <2>2. NextRow(row, seen[p].run)
    BY DEF NextRow
  <2>3. /\ t \in Holding /\ t \in Recording \ {"ask"} /\ guard \in BOOLEAN
        /\ run.status = "running" => guard
        /\ {next, Refused(p)} \subseteq Holding \cup {"done", "sweep"} /\ next \in Holding
    BY RecordFacts
  <2> HIDE DEF t, row, guard, next
  <2> QED BY <2>1, <2>2, <2>3, RecordMoves
<1>5. CASE RecordRunFailed(p, "runFailed", Refused(p))
  <2> DEFINE t == "runFailed"
             row == RunFailed(seen[p].run, ThisStep)
             guard == IsInterruptible(run)
             next == Refused(p)
  <2>1. ReadRun(p, t, guard, Refused(p)) \/ CommitRun(p, t, row, next, Refused(p))
    BY <1>5 DEF RecordRunFailed
  <2>2. NextRow(row, seen[p].run) /\ EndRow(row, seen[p].run)
    BY DEF NextRow, EndRow
  <2>3. /\ t \in Holding /\ t \in Recording \ {"ask"} /\ guard \in BOOLEAN
        /\ run.status = "running" => guard
        /\ {next, Refused(p)} \subseteq Holding \cup {"done", "sweep"}
    BY RecordFacts
  <2> HIDE DEF t, row, guard, next
  <2> QED BY <2>1, <2>2, <2>3, RecordMoves
<1>6. CASE RecordStepFailed(p, "markStep", "markRun", Idle(p))
  <2> DEFINE t == "markStep"
             row == StepFailed(seen[p].run, ThisStep)
             guard == CanRecordStep(run)
             next == "markRun"
  <2>1. ReadRun(p, t, guard, Idle(p)) \/ CommitRun(p, t, row, next, Idle(p))
    BY <1>6 DEF RecordStepFailed
  <2>2. NextRow(row, seen[p].run)
    BY DEF NextRow
  <2>3. /\ t \in Holding /\ t \in Recording \ {"ask"} /\ guard \in BOOLEAN
        /\ run.status = "running" => guard
        /\ {next, Idle(p)} \subseteq Holding \cup {"done", "sweep"} /\ next \in Holding
    BY RecordFacts
  <2> HIDE DEF t, row, guard, next
  <2> QED BY <2>1, <2>2, <2>3, RecordMoves
<1>7. CASE RecordRunFailed(p, "markRun", Idle(p))
  <2> DEFINE t == "markRun"
             row == RunFailed(seen[p].run, ThisStep)
             guard == IsInterruptible(run)
             next == Idle(p)
  <2>1. ReadRun(p, t, guard, Idle(p)) \/ CommitRun(p, t, row, next, Idle(p))
    BY <1>7 DEF RecordRunFailed
  <2>2. NextRow(row, seen[p].run) /\ EndRow(row, seen[p].run)
    BY DEF NextRow, EndRow
  <2>3. /\ t \in Holding /\ t \in Recording \ {"ask"} /\ guard \in BOOLEAN
        /\ run.status = "running" => guard
        /\ {next, Idle(p)} \subseteq Holding \cup {"done", "sweep"}
    BY RecordFacts
  <2> HIDE DEF t, row, guard, next
  <2> QED BY <2>1, <2>2, <2>3, RecordMoves
<1> QED BY <1>1, <1>2, <1>3, <1>4, <1>5, <1>6, <1>7

\* Recording that a resume failed.
LEMMA ResumeFailureMoves ==
  ASSUME IInv, NEW p \in Procs, RecordHitlResumeFailure(p)
  PROVE  Moves(p)
<1>1. CASE /\ At(p, "resumeFailed")
           /\ Goto(p, IF IsTerminal(run) THEN Idle(p) ELSE "markStep")
           /\ UNCHANGED <<durable, live, env, about, tries>>
  <2>1. PICK t : Goto(p, t) /\ ((t = Idle(p) /\ IsTerminal(run)) \/ t = "markStep")
    BY <1>1
  <2>2. t \notin {"await", "expired"} /\ (t \in Holding \/ run.status # "running")
    BY <2>1, RecordFacts DEF Holding, IsTerminal, Terminal
  <2>3. pc[p] = "resumeFailed" /\ "resumeFailed" \in Holding
    BY <1>1 DEF At, Holding
  <2> QED BY <1>1, <2>1, <2>2, <2>3, GotoMoves
<1> QED BY <1>1, RecordsMove DEF RecordHitlResumeFailure

\* Asking: the guards, then the transaction.
LEMMA AskKind ==
  ASSUME IInv, NEW p \in Executors, RecordHitlRequested(p)
  PROVE  Moves(p) \/ Asks(p)
<1>0. p \in Procs /\ "ask" \in Holding /\ "error" \in Holding
  BY Constants DEF Holding
<1>1. CASE ReadRun(p, "ask", run.status = "running" /\ WaitingModeAvailable(run), "error")
  <2> DEFINE guard == run.status = "running" /\ WaitingModeAvailable(run)
             t == "ask"
             otherwise == "error"
  <2>1. ReadRun(p, t, guard, otherwise) /\ guard \in BOOLEAN
    BY <1>1 DEF WaitingModeAvailable
  <2>2. /\ t \notin {"await", "expired"} /\ otherwise \notin {"await", "expired"}
        /\ t \in Holding /\ otherwise \in Holding
    BY <1>0
  <2> HIDE DEF guard, t, otherwise
  <2> QED BY <1>0, <2>1, <2>2, ReadRunMoves
<1>2. CASE ReadDispatch(p, "ask", dispatch.status = "running", "error")
  <2> DEFINE guard == dispatch.status = "running"
             t == "ask"
             otherwise == "error"
  <2>1. ReadDispatch(p, t, guard, otherwise) /\ guard \in BOOLEAN
    BY <1>2
  <2>2. /\ t \notin {"await", "expired"} /\ otherwise \notin {"await", "expired"}
        /\ t \in Holding /\ otherwise \in Holding
    BY <1>0
  <2> HIDE DEF guard, t, otherwise
  <2> QED BY <1>0, <2>1, <2>2, ReadDispatchMoves
<1>3. ASSUME At(p, "ask"), seen[p].run # None, seen[p].dispatch # None,
             RunUnmoved(p) /\ DispatchUnmoved(p),
             hitl' = [hitl EXCEPT ![NextRequest] = "pending"],
             run' = HitlRequested(seen[p].run, ThisStep, ThisDispatch, NextRequest),
             dispatch' = DispatchTo(p, "waiting_hitl"),
             about' = [about EXCEPT ![p] = NextRequest],
             Goto(p, "register"), UNCHANGED <<live, env, tries>>
      PROVE  Asks(p)
  <2>1. NextRequest \in Requests /\ hitl[NextRequest] = "none" /\ pc[p] = "ask"
    BY <1>3, NumberLeft DEF At, IInv
  <2>2. /\ Fits(seen[p].run) /\ seen[p].run.status = "running" /\ run.status = "running"
    BY <1>0, <1>3, CopyFits DEF At, RunGuard, RunUnmoved, Recording
  <2>3. run'.status = "waiting_hitl" /\ run'.active_hitl_request_id = NextRequest
    BY <1>3, <2>1, <2>2, RequestedFits
  <2>4. seen[p].dispatch \in DispatchRow /\ dispatch.status = "running"
    BY <1>0, <1>3, DispatchCopy DEF At, DispatchUnmoved, DispatchGuard
  <2>5. dispatch'.status = "waiting_hitl" /\ dispatch'.attempt = seen[p].dispatch.attempt
    BY <1>3, <2>4 DEF DispatchTo, DispatchRow
  <2>6. OthersSame(p) /\ pc'[p] = "register" /\ seen'[p] = Blank
    BY <1>0, <1>3 DEF IInv, TypeOK, Goto, OthersSame
  <2> QED BY <1>3, <2>1, <2>2, <2>3, <2>4, <2>5, <2>6 DEF Asks
<1>4. ASSUME At(p, "ask"), Goto(p, "error"), UNCHANGED <<durable, about, live, env, tries>>
      PROVE  Moves(p)
  BY <1>0, <1>4, GotoMoves DEF At
<1> QED BY <1>1, <1>2, <1>3, <1>4 DEF RecordHitlRequested

\* Every step of an executor.
LEMMA ExecuteKind ==
  ASSUME IInv, NEW p \in Executors, Execute(p)
  PROVE  p \in Procs /\ (Moves(p) \/ WritesDispatch(p) \/ Asks(p))
BY Constants, DispatchKind, RetryKind, TurnMoves, RegisterMoves, RecordsMove,
   ResumeFailureMoves, AskKind DEF Execute

\* A request is chosen and its run is read.
LEMMA ChooseMoves ==
  ASSUME IInv, NEW c \in Procs, NEW t \in {"answer", "cancelRequest"}, ChooseRequest(c, t)
  PROVE  Moves(c)
<1> USE DEF ChooseRequest, At, durable, live, env
<1>1. /\ OthersSame(c) /\ ChannelsSame(c) /\ UNCHANGED <<run, dispatch, hitl, env, registry, pc>>
      /\ pc[c] = t /\ seen'[c].dispatch = seen[c].dispatch
  BY DEF IInv, TypeOK, OthersSame, ChannelsSame
<1>2. seen[c].dispatch = None
  BY DEF IInv, Knows, Deciding
<1>3. CopiesOf(c) /\ RegistryOf(c)
  BY <1>1, <1>2 DEF CopiesOf, RegistryOf
<1>4. ~Holds(c) /\ ~Holds(c)'
  BY <1>1 DEF Holds, Holding
<1> QED BY <1>1, <1>3, <1>4 DEF Moves

\* The dispatch of a question is read.
LEMMA CheckMoves ==
  ASSUME IInv, NEW c \in Procs, NEW t \in Deciding, NEW guard \in BOOLEAN, NEW otherwise,
         CheckDispatch(c, t, guard, otherwise), otherwise \in {"done", "sweep"},
         t = "expired" => guard = WaitsForAnswer(c)
  PROVE  Moves(c)
<1>1. /\ t # "await" /\ t \notin Holding
      /\ otherwise \notin Holding /\ otherwise \notin {"await", "expired"}
  BY HoldingLabels DEF Deciding
<1>2. t # "expired" \/ guard \/ Baffled(c)
  BY DEF CheckDispatch, WaitsForAnswer, Baffled
<1> QED BY <1>1, <1>2, ReadDispatchMoves DEF CheckDispatch

\* A question is decided, or not.
LEMMA DecideKind ==
  ASSUME IInv, NEW c \in Procs, NEW t \in Deciding, NEW from, NEW decision \in Decided,
         NEW status \in {"running", "failed"}, NEW row,
         NEW next \in {"deliver", "detach", "wakeExpired"}, NEW otherwise \in {"done", "sweep"},
         Decide(c, t, from, decision, status, row, next, otherwise),
         Fits(seen[c].run) => row.status = "running",
         IF t = "expired" THEN from = TimesOut ELSE from = {"pending"}
  PROVE  Moves(c) \/ Decides(c)
<1>0. /\ pc[c] = t /\ seen[c].run # None /\ seen[c].dispatch # None
      /\ UNCHANGED <<live, env, about>>
      /\ seen[c].run.status = "waiting_hitl" /\ seen[c].dispatch.status = "waiting_hitl"
      /\ seen[c].dispatch \in DispatchRow /\ about[c] \in Requests
      /\ t = "expired" => hitl[about[c]] = "timed_out"
  BY DispatchCopy DEF Decide, At, IInv, Knows, Concerns, DispatchGuard, Deciding
<1>1. CASE ~(Undecided(c, from) /\ DispatchUnmoved(c) /\ RunUnmoved(c))
  <2>1. Goto(c, otherwise) /\ UNCHANGED durable
    BY <1>1 DEF Decide
  <2>2. otherwise \notin Holding /\ t \notin Holding /\ otherwise \notin {"await", "expired"}
        /\ t # "await"
    BY HoldingLabels DEF Deciding
  <2>3. t = "expired" => Baffled(c)
    BY <1>0, <1>1 DEF Undecided, TimesOut, DispatchUnmoved, RunUnmoved, Baffled
  <2> QED BY <1>0, <2>1, <2>2, <2>3, GotoMoves
<1>2. CASE Undecided(c, from) /\ DispatchUnmoved(c) /\ RunUnmoved(c)
  <2>1. /\ hitl' = [hitl EXCEPT ![about[c]] = decision] /\ dispatch' = DispatchTo(c, status)
        /\ run' = row /\ Goto(c, next)
        /\ run.status = "waiting_hitl" /\ dispatch.status = "waiting_hitl"
        /\ hitl[about[c]] = "pending" \/ t = "expired"
    BY <1>0, <1>2 DEF Decide, Undecided, DispatchUnmoved, RunUnmoved
  <2>2. run'.status = "running"
    BY <1>0, <2>1, CopyFits
  <2>3. dispatch'.status = status /\ dispatch'.attempt = seen[c].dispatch.attempt
    BY <1>0, <2>1 DEF DispatchTo, DispatchRow
  <2>4. OthersSame(c) /\ pc'[c] = next /\ seen'[c] = Blank /\ about' = about
    BY <1>0, <2>1 DEF IInv, TypeOK, Goto, OthersSame
  <2>5. Outstanding(about[c])
    BY <1>0, <2>1 DEF Outstanding
  <2>6. \A h \in Requests : Outstanding(h) => h = about[c]
    BY <1>0, <2>1, <2>5 DEF IInv, QuestionInv, Settled, IsTerminal, Terminal
  <2>7. ASSUME NEW h \in Requests, Outstanding(h)' PROVE FALSE
    <3>1. CASE h # about[c]
      <4>1. Outstanding(h)
        BY <1>0, <2>1, <2>4, <2>7, <3>1 DEF Outstanding, OthersSame, IInv, TypeOK
      <4> QED BY <2>6, <3>1, <4>1
    <3>2. CASE h = about[c]
      <4>1. hitl'[h] # "pending"
        BY <2>1, <3>2 DEF Decided, IInv, TypeOK
      <4>2. PICK q \in Procs : pc'[q] = "expired" /\ about'[q] = h
        BY <2>7, <4>1 DEF Outstanding
      <4>3. q # c /\ pc[q] = "expired" /\ about[q] = about[c]
        BY <2>4, <3>2, <4>2 DEF OthersSame
      <4>4. pc[c] = "expired"
        BY <1>0, <2>1, <4>3 DEF IInv, Concerns
      <4> QED BY <4>3, <4>4 DEF IInv, OneSweepEach
    <3> QED BY <3>1, <3>2
  <2> QED BY <1>0, <2>1, <2>2, <2>3, <2>4, <2>5, <2>7 DEF Decides
<1> QED BY <1>1, <1>2

\* The receiver of a decided question is woken.
LEMMA WakesKind ==
  ASSUME IInv, NEW c \in Clients, DeliverAnswer(c) \/ Detach(c) \/ DetachExpired(c)
  PROVE  Wakes(c)
<1>0. c \in Procs
  BY Constants
<1>1. CASE DeliverAnswer(c)
  <2>1. /\ pc[c] = "deliver" /\ UNCHANGED <<run, dispatch, hitl, env, about>>
        /\ Wake(about[c], "answer") /\ about[c] \in Requests
    BY <1>0, <1>1 DEF DeliverAnswer, At, durable, IInv, Concerns
  <2>2. /\ OthersSame(c) /\ seen'[c] = Blank
        /\ pc'[c] = IF Listening(about[c]) THEN "done" ELSE "ensure"
    BY <1>0, <1>1, <2>1 DEF DeliverAnswer, Goto, Sent, IInv, TypeOK, OthersSame
  <2> QED BY <2>1, <2>2 DEF Wakes, Listening
<1>2. CASE Detach(c)
  <2>1. /\ pc[c] = "detach" /\ UNCHANGED <<run, dispatch, hitl, env, about>>
        /\ Wake(about[c], "closed") /\ about[c] \in Requests
    BY <1>0, <1>2 DEF Detach, At, durable, IInv, Concerns
  <2>2. OthersSame(c) /\ seen'[c] = Blank /\ pc'[c] = "done"
    BY <1>0, <1>2, <2>1 DEF Detach, Goto, IInv, TypeOK, OthersSame
  <2> QED BY <2>1, <2>2 DEF Wakes
<1>3. CASE DetachExpired(c)
  <2>1. /\ pc[c] = "wakeExpired" /\ UNCHANGED <<run, dispatch, hitl, env, about>>
        /\ Wake(about[c], "closed") /\ about[c] \in Requests
    BY <1>0, <1>3 DEF DetachExpired, At, durable, IInv, Concerns
  <2>2. /\ OthersSame(c) /\ seen'[c] = Blank
        /\ pc'[c] = IF HadWaiter(c) THEN "sweep" ELSE "resumeFailed"
    BY <1>0, <1>3, <2>1 DEF DetachExpired, Goto, IInv, TypeOK, OthersSame
  <2> QED BY <2>1, <2>2 DEF Wakes, Listening, HadWaiter
<1> QED BY <1>1, <1>2, <1>3

\* An answer.
LEMMA AnswerKind ==
  ASSUME IInv, NEW c \in Clients, Answer(c)
  PROVE  Moves(c) \/ Decides(c)
<1>0. c \in Procs
  BY Constants
<1>1. CASE CheckDispatch(c, "answer", WaitsForAnswer(c) /\ IsActive(c), "done")
  <2> DEFINE guard == WaitsForAnswer(c) /\ IsActive(c)
             t == "answer"
  <2>1. CheckDispatch(c, t, guard, "done") /\ guard \in BOOLEAN /\ t \in Deciding /\ t # "expired"
    BY <1>1 DEF WaitsForAnswer, IsActive, Deciding
  <2> HIDE DEF guard, t
  <2> QED BY <1>0, <2>1, CheckMoves
<1>2. CASE Decide(c, "answer", {"pending"}, "answered", "running",
                  HitlAnswered(seen[c].run, ThisDispatch), "deliver", "done")
  <2> DEFINE row == HitlAnswered(seen[c].run, ThisDispatch)
             from == {"pending"}
             t == "answer"
  <2>1. Decide(c, t, from, "answered", "running", row, "deliver", "done")
    BY <1>2
  <2>2. /\ Fits(seen[c].run) => row.status = "running"
        /\ from = {"pending"} /\ t \in Deciding /\ t # "expired" /\ "answered" \in Decided
    BY DecidedFits DEF Deciding, Decided
  <2> HIDE DEF row, from, t
  <2> QED BY <1>0, <2>1, <2>2, DecideKind
<1> QED BY <1>0, <1>1, <1>2, ChooseMoves DEF Answer

\* A cancellation of a question.
LEMMA CancelRequestKind ==
  ASSUME IInv, NEW c \in Clients, CancelRequest(c)
  PROVE  Moves(c) \/ Decides(c)
<1>0. c \in Procs
  BY Constants
<1>1. CASE CheckDispatch(c, "cancelRequest", WaitsForAnswer(c), "done")
  <2> DEFINE guard == WaitsForAnswer(c)
             t == "cancelRequest"
  <2>1. CheckDispatch(c, t, guard, "done") /\ guard \in BOOLEAN /\ t \in Deciding /\ t # "expired"
    BY <1>1 DEF WaitsForAnswer, Deciding
  <2> HIDE DEF guard, t
  <2> QED BY <1>0, <2>1, CheckMoves
<1>2. CASE Decide(c, "cancelRequest", {"pending"}, "cancelled", "failed",
                  HitlReleased(seen[c].run), "detach", "done")
  <2> DEFINE row == HitlReleased(seen[c].run)
             from == {"pending"}
             t == "cancelRequest"
  <2>1. Decide(c, t, from, "cancelled", "failed", row, "detach", "done")
    BY <1>2
  <2>2. /\ Fits(seen[c].run) => row.status = "running"
        /\ from = {"pending"} /\ t \in Deciding /\ t # "expired" /\ "cancelled" \in Decided
    BY DecidedFits DEF Deciding, Decided
  <2> HIDE DEF row, from, t
  <2> QED BY <1>0, <2>1, <2>2, DecideKind
<1> QED BY <1>0, <1>1, <1>2, ChooseMoves DEF CancelRequest

\* The timeout of an expired question.
LEMMA TimeOutKind ==
  ASSUME IInv, NEW c \in Clients, TimeOutRequest(c)
  PROVE  Moves(c) \/ Decides(c)
<1>0. c \in Procs
  BY Constants
<1>1. CASE ReadRun(c, "expired", TRUE, "sweep")
  BY <1>0, <1>1, ReadRunMoves
<1>2. CASE CheckDispatch(c, "expired", WaitsForAnswer(c), "sweep")
  <2> DEFINE guard == WaitsForAnswer(c)
             t == "expired"
  <2>1. /\ CheckDispatch(c, t, guard, "sweep") /\ guard \in BOOLEAN /\ t \in Deciding
        /\ guard = WaitsForAnswer(c)
    BY <1>2 DEF WaitsForAnswer, Deciding
  <2> HIDE DEF guard, t
  <2> QED BY <1>0, <2>1, CheckMoves
<1>3. CASE Decide(c, "expired", TimesOut, "timed_out", "failed",
                  HitlReleased(seen[c].run), "wakeExpired", "sweep")
  <2> DEFINE row == HitlReleased(seen[c].run)
             t == "expired"
  <2>1. Decide(c, t, TimesOut, "timed_out", "failed", row, "wakeExpired", "sweep")
    BY <1>3
  <2>2. /\ Fits(seen[c].run) => row.status = "running"
        /\ t \in Deciding /\ t = "expired" /\ "timed_out" \in Decided
    BY DecidedFits DEF Deciding, Decided
  <2> HIDE DEF row, t
  <2> QED BY <1>0, <2>1, <2>2, DecideKind
<1> QED BY <1>1, <1>2, <1>3 DEF TimeOutRequest

\* A cancellation of the dispatch.
LEMMA CancelDispatchKind ==
  ASSUME IInv, NEW c \in Clients, CancelDispatch(c)
  PROVE  Moves(c) \/ CancelsDispatch(c)
<1>0. c \in Procs /\ {"cancelDispatch", "listed", "done", "detach"} \cap {"await", "expired"} = {}
      /\ "cancelDispatch" \notin Holding /\ "listed" \notin Holding /\ "done" \notin Holding
  BY Constants DEF Holding
<1>1. CASE ReadDispatch(c, "cancelDispatch", dispatch.status \in Open, "done")
  <2> DEFINE guard == dispatch.status \in Open
             t == "cancelDispatch"
             otherwise == "done"
  <2>1. ReadDispatch(c, t, guard, otherwise) /\ guard \in BOOLEAN
    BY <1>1
  <2>2. /\ t \notin {"await", "expired"} /\ otherwise \notin {"await", "expired"}
        /\ t \notin Holding /\ otherwise \notin Holding
    BY <1>0
  <2> HIDE DEF guard, t, otherwise
  <2> QED BY <1>0, <2>1, <2>2, ReadDispatchMoves
<1>2. CASE ListPending(c)
  <2> USE <1>0, <1>2 DEF ListPending, At, durable, live, env
  <2>1. /\ OthersSame(c) /\ ChannelsSame(c) /\ UNCHANGED <<run, dispatch, hitl, env, registry>>
        /\ pc[c] = "cancelDispatch" /\ pc'[c] = "listed" /\ about' = about
        /\ seen'[c].dispatch = seen[c].dispatch /\ seen[c].dispatch # None
    BY DEF IInv, TypeOK, OthersSame, ChannelsSame
  <2>2. CopiesOf(c) /\ RegistryOf(c) /\ ~Holds(c) /\ ~Holds(c)'
    BY <2>1 DEF CopiesOf, RegistryOf, Holds, Holding
  <2> QED BY <2>1, <2>2 DEF Moves
<1>3. CASE ReadRun(c, "listed", TRUE, "done")
  BY <1>0, <1>3, ReadRunMoves
<1>4. CASE PersistDispatchCancel(c)
  <2> DEFINE releases == seen[c].run # None /\ seen[c].run.status = "waiting_hitl"
             commits == /\ seen[c].requests \subseteq Pending
                        /\ DispatchUnmoved(c) /\ (releases => RunUnmoved(c))
  <2>0. pc[c] = "listed" /\ UNCHANGED <<live, env, tries>>
    BY <1>4 DEF PersistDispatchCancel, At
  <2>1. CASE ~commits
    <3>1. Goto(c, "done") /\ UNCHANGED <<durable, about>>
      BY <1>4, <2>1 DEF PersistDispatchCancel
    <3> QED BY <1>0, <2>0, <3>1, GotoMoves
  <2>2. CASE commits
    <3>1. /\ dispatch' = DispatchTo(c, "cancelled")
          /\ \/ Goto(c, "done") /\ UNCHANGED about
             \/ \E h \in seen[c].requests :
                  Goto(c, "detach") /\ about' = [about EXCEPT ![c] = h]
      BY <1>4, <2>2 DEF PersistDispatchCancel
    <3>2. /\ seen[c].dispatch \in DispatchRow /\ dispatch.status \in Open
      BY <1>0, <2>0, <2>2, DispatchCopy DEF IInv, Knows, DispatchUnmoved, DispatchGuard
    <3>3. dispatch'.status = "cancelled"
      BY <3>1, <3>2 DEF DispatchTo, DispatchRow
    <3>4. OthersSame(c) /\ pc'[c] \in {"done", "detach"} /\ seen'[c] = Blank
      BY <1>0, <3>1 DEF IInv, TypeOK, Goto, OthersSame
    <3>5. pc'[c] = "detach" => \E h \in Requests : hitl[h] = "pending"
      BY <1>0, <2>2, <3>1 DEF IInv, TypeOK, Goto, Pending
    <3> QED BY <2>0, <3>2, <3>3, <3>4, <3>5 DEF CancelsDispatch
  <2> QED BY <2>1, <2>2
<1> QED BY <1>1, <1>2, <1>3, <1>4 DEF CancelDispatch

\* A pause of the run.
LEMMA PauseMoves ==
  ASSUME IInv, NEW c \in Clients, PauseRun(c)
  PROVE  Moves(c)
<1> DEFINE t == "pauseRun"
           row == RunPaused(seen[c].run)
           guard == IsInterruptible(run)
<1>1. ReadRun(c, t, guard, "done") \/ CommitRun(c, t, row, "done", "done")
  BY DEF PauseRun
<1>2. /\ c \in Procs /\ t \in Recording \ {"ask"} /\ guard \in BOOLEAN
      /\ run.status = "running" => guard
      /\ NextRow(row, seen[c].run) /\ EndRow(row, seen[c].run)
  BY Constants, RecordFacts DEF Recording, NextRow, EndRow
<1> HIDE DEF t, row, guard
<1> QED BY <1>1, <1>2, RecordMoves

\* A cancellation of the run.
LEMMA CancelRunMoves ==
  ASSUME IInv, NEW c \in Clients, CancelRun(c)
  PROVE  Moves(c)
<1>0. c \in Procs /\ "cancelRun" \notin Holding /\ "done" \notin Holding
  BY Constants DEF Holding
<1>1. CASE ReadRun(c, "cancelRun", ~IsTerminal(run), "done")
  BY <1>0, <1>1, ReadRunMoves
<1>2. CASE CommitRun(c, "cancelRun", RunCancelled(seen[c].run), "done", "done")
  <2>1. /\ Fits(seen[c].run) /\ ~IsTerminal(seen[c].run) /\ pc[c] = "cancelRun"
        /\ UNCHANGED <<dispatch, hitl, live, env, about>> /\ Goto(c, "done")
    BY <1>0, <1>2, CopyFits DEF CommitRun, At, RunGuard
  <2>2. CASE ~RunUnmoved(c)
    BY <1>0, <1>2, <2>1, <2>2, GotoMoves DEF CommitRun, durable
  <2>3. CASE RunUnmoved(c)
    <3>1. run'.status = "cancelled" /\ ~IsTerminal(run)
      BY <1>2, <2>1, <2>3, CancelledFits DEF CommitRun, RunUnmoved, IsTerminal
    <3>2. /\ OthersSame(c) /\ ChannelsSame(c) /\ UNCHANGED <<registry, env>>
          /\ pc'[c] = "done" /\ seen'[c] = Blank /\ about'[c] = about[c]
      BY <1>0, <2>1 DEF IInv, TypeOK, Goto, OthersSame, ChannelsSame, live
    <3>3. CopiesOf(c) /\ RegistryOf(c)
      BY <3>2 DEF CopiesOf, RegistryOf, Blank
    <3>4. ~Holds(c) /\ ~Holds(c)'
      BY <1>0, <2>1, <3>2 DEF Holds
    <3> QED BY <2>1, <3>1, <3>2, <3>3, <3>4 DEF Moves
  <2> QED BY <2>2, <2>3
<1> QED BY <1>1, <1>2 DEF CancelRun

\* A timer that strikes.
LEMMA StrikesKind ==
  ASSUME IInv
  PROVE  /\ \A p \in Executors : StepTimeout(p) => Strikes(p)
         /\ RunTimeout => Strikes(Main)
<1>1. ASSUME NEW p \in Procs, NEW next \in {"error", "done"}, Interrupt(p, next),
             pc[p] # "expired", "step" \in Timers \/ next = "done"
      PROVE  Strikes(p)
  BY <1>1 DEF Interrupt, Goto, durable, IInv, TypeOK, OthersSame, ChannelsSame, Strikes
<1>2. pc[Main] # "expired"
  BY Constants, HitlAssumption DEF IInv, Concerns, Doing
<1>3. ASSUME NEW p \in Executors, StepTimeout(p) PROVE Strikes(p)
  BY <1>1, <1>3, Constants DEF StepTimeout, Dispatching
<1>4. ASSUME RunTimeout PROVE Strikes(Main)
  BY <1>1, <1>2, <1>4, Constants DEF RunTimeout
<1> QED BY <1>3, <1>4

\* Every step is of one of the kinds.
LEMMA EveryStep ==
  ASSUME IInv, [Next]_vars
  PROVE  StepKind
<1>1. ASSUME NEW c \in Clients, Request(c)
      PROVE  Moves(c) \/ Decides(c) \/ Wakes(c) \/ CancelsDispatch(c)
  BY <1>1, AnswerKind, WakesKind, CancelRequestKind, CancelDispatchKind, CancelRunMoves, PauseMoves
     DEF Request
<1>2. ASSUME NEW c \in Clients, Sweep(c)
      PROVE  Expire(c) \/ Moves(c) \/ Decides(c) \/ Wakes(c)
  BY <1>2, TimeOutKind, WakesKind, ResumeFailureMoves, Constants DEF Sweep
<1>3. CASE \E p \in Executors : Execute(p) \/ StepTimeout(p)
  BY <1>3, ExecuteKind, StrikesKind, Constants DEF StepKind
<1>4. CASE \E c \in Clients : Request(c) \/ Sweep(c)
  BY <1>4, <1>1, <1>2, Constants DEF StepKind
<1>5. CASE RunTimeout
  BY <1>5, StrikesKind, Constants DEF StepKind
<1>6. CASE Crash \/ Recover \/ Stuck \/ UNCHANGED vars
  BY <1>6 DEF StepKind, Stuck
<1> QED BY <1>3, <1>4, <1>5, <1>6 DEF Next

-----------------------------------------------------------------------------
(* The invariants about batons                                               *)

\* The timeout around one dispatch leaves the question open and lets the executor
\* go on: from then on there may be two.
NoStepTimeout == "step" \in Timers => timeouts = 0

OneHolder == \A p, q \in Procs : Holds(p) /\ Holds(q) => p = q

WaitingUnheld == dispatch.status = "waiting_hitl" => \A p \in Procs : ~Holds(p)

OutstandingWaits ==
  \A h \in Requests : Outstanding(h) => dispatch.status \in {"waiting_hitl", "cancelled"}

BatonInv == NoStepTimeout => OneHolder /\ WaitingUnheld /\ OutstandingWaits

\* Whoever will write the dispatch has it as it is.
FreshInv ==
  NoStepTimeout /\ dispatch.status # "cancelled" =>
    \A p \in Procs :
      /\ seen[p].dispatch # None
      /\ pc[p] \in Holding \/ (pc[p] \in Deciding /\ Outstanding(about[p]))
      => seen[p].dispatch = dispatch

\* While nothing is cut short: a run that waits for a human can be answered, and a
\* sweep that expired a question finds the run waiting.
Undisturbed == NoStepTimeout /\ crashes = 0 /\ dispatch.status # "cancelled"

AnswerableInv ==
  Undisturbed =>
    /\ run.status = "waiting_hitl" =>
         dispatch.status = "waiting_hitl" /\ Outstanding(run.active_hitl_request_id)
    /\ \A p \in Procs :
         pc[p] = "expired" /\ ~IsTerminal(run) /\ seen[p].run # None =>
           seen[p].run.status = "waiting_hitl"

\* No timer has struck, no crash, and nothing was cancelled but the run.
Calm ==
  /\ timeouts = 0 /\ crashes = 0 /\ dispatch.status # "cancelled"
  /\ \A h \in Requests : hitl[h] # "cancelled"

\* Then a running run has a holder, and a sender in the registry has a receiver that
\* waits for the first thing sent.
CalmInv ==
  Calm =>
    /\ up
    /\ run.status = "running" => \E p \in Procs : Holds(p)
    /\ \A h \in Requests :
         registry[h] # None => Listening(h) /\ inbox[registry[h]] = None

\* The inductive invariant, on top of the one of HitlPause_proofs.
BInv == BatonInv /\ FreshInv /\ AnswerableInv /\ CalmInv

--------------------------------------------------------------------------------
(***************************************************************************)
(* The invariant is kept by every kind of step.                            *)
(***************************************************************************)
\* A process that does not move, and whose channel brings nothing, holds what it held.
LEMMA HoldsSame ==
  ASSUME NEW p \in Procs, OthersSame(p), ChannelsSame(p), NEW q \in Procs \ {p}
  PROVE  Holds(q)' <=> Holds(q)
BY DEF Holds, OthersSame, ChannelsSame

\* Only an expiry makes another question outstanding.
LEMMA OutstandingSame ==
  ASSUME NEW p \in Procs, OthersSame(p), hitl' = hitl,
         pc'[p] = "expired" => pc[p] = "expired" /\ about'[p] = about[p]
  PROVE  \A h \in Requests : Outstanding(h)' => Outstanding(h)
BY DEF OthersSame, Outstanding

\* Whoever read both rows of a question knows which question.
LEMMA DecidingConcerns ==
  ASSUME IInv
  PROVE  \A q \in Procs : pc[q] \in Deciding /\ seen[q].dispatch # None => about[q] \in Requests /\ hitl[about[q]] # "none"
BY DEF IInv, Knows, Concerns, Deciding

\* Nobody takes a baton and the dispatch is left alone.
LEMMA BatonKept ==
  ASSUME BatonInv, NoStepTimeout' => NoStepTimeout, dispatch' = dispatch,
         \A q \in Procs : Holds(q)' => Holds(q),
         \A h \in Requests : Outstanding(h)' => Outstanding(h)
  PROVE  BatonInv'
BY DEF BatonInv, OneHolder, WaitingUnheld, OutstandingWaits

\* p reads, moves or writes the run.
LEMMA MovesKeep ==
  ASSUME IInv, IInv', BInv, NEW p \in Procs, Moves(p)
  PROVE  BInv'
<1> USE DEF BInv
<1>1. /\ \A q \in Procs : Holds(q)' => Holds(q)
      /\ \A h \in Requests : Outstanding(h)' => Outstanding(h)
      /\ NoStepTimeout' <=> NoStepTimeout
      /\ timeouts' = timeouts /\ crashes' = crashes /\ up' = up
  BY HoldsSame, OutstandingSame DEF Moves, NoStepTimeout, env
<1>2. BatonInv'
  BY <1>1, BatonKept DEF Moves
<1>3. FreshInv'
  <2> SUFFICES ASSUME NoStepTimeout, dispatch.status # "cancelled", NEW q \in Procs,
                      seen'[q].dispatch # None,
                      \/ pc'[q] \in Holding
                      \/ pc'[q] \in Deciding /\ Outstanding(about[q])'
               PROVE  seen'[q].dispatch = dispatch
    BY <1>1 DEF FreshInv, Moves
  <2>1. pc'[q] \in Deciding => about'[q] \in Requests
    BY DEF IInv, Knows, Concerns, Deciding
  <2>2. CASE q # p
    BY <1>1, <2>1, <2>2 DEF Moves, OthersSame, FreshInv
  <2>3. CASE q = p /\ seen'[q].dispatch # dispatch
    <3>1. /\ seen[q].dispatch # None /\ seen'[q].dispatch = seen[q].dispatch
          /\ about'[q] = about[q]
          /\ pc'[q] = "listed" \/ pc'[q] = pc[q]
      BY <2>3 DEF Moves, CopiesOf
    <3>2. pc'[q] = pc[q]
      BY <3>1, HoldingLabels DEF Deciding
    <3> QED BY <1>1, <2>1, <3>1, <3>2 DEF FreshInv
  <2> QED BY <2>2, <2>3
<1>4. AnswerableInv'
  <2> SUFFICES ASSUME Undisturbed
               PROVE  /\ run'.status = "waiting_hitl" =>
                           /\ dispatch.status = "waiting_hitl"
                           /\ Outstanding(run.active_hitl_request_id)' /\ run' = run
                      /\ \A q \in Procs :
                           pc'[q] = "expired" /\ ~IsTerminal(run') /\ seen'[q].run # None =>
                             seen'[q].run.status = "waiting_hitl"
    BY <1>1 DEF AnswerableInv, Undisturbed, Moves
  <2>1. ASSUME run'.status = "waiting_hitl"
        PROVE  /\ dispatch.status = "waiting_hitl"
               /\ Outstanding(run.active_hitl_request_id)' /\ run' = run
    <3>1. run' = run /\ dispatch.status = "waiting_hitl" /\ Outstanding(run.active_hitl_request_id)
      BY <2>1 DEF Moves, AnswerableInv
    <3>2. ~IsTerminal(run)
      BY <3>1, <2>1 DEF IsTerminal, Terminal
    <3>3. ~Baffled(p) \/ pc[p] # "expired"
      BY <2>1, <3>1, <3>2 DEF Baffled, AnswerableInv
    <3> QED BY <3>1, <3>3 DEF Moves, Outstanding, OthersSame
  <2>2. ASSUME NEW q \in Procs, pc'[q] = "expired", ~IsTerminal(run'), seen'[q].run # None
        PROVE  seen'[q].run.status = "waiting_hitl"
    <3>1. ~IsTerminal(run) /\ pc[q] = "expired"
      BY <2>2 DEF Moves, OthersSame
    <3>2. \/ seen'[q].run = seen[q].run /\ seen[q].run # None
          \/ seen'[q].run = run
      BY <2>2 DEF Moves, OthersSame, CopiesOf
    <3>3. run.status = "waiting_hitl"
      BY <3>1 DEF IInv, QuestionInv, Outstanding, Settled, Undisturbed, Concerns
    <3> QED BY <3>1, <3>2, <3>3 DEF AnswerableInv
  <2> QED BY <2>1, <2>2
<1>5. CalmInv'
  <2> SUFFICES ASSUME Calm
               PROVE  /\ up
                      /\ run'.status = "running" => \E q \in Procs : Holds(q)'
                      /\ \A h \in Requests :
                           registry'[h] # None => Listening(h)' /\ inbox'[registry'[h]] = None
    BY <1>1 DEF CalmInv, Calm, Moves
  <2>1. run'.status = "running" => \E q \in Procs : Holds(q)'
    BY HoldsSame DEF Moves, CalmInv
  <2>2. ASSUME NEW h \in Requests, registry'[h] # None
        PROVE  Listening(h)' /\ inbox'[registry'[h]] = None
    <3>1. CASE registry' = registry
      BY <2>2, <3>1, Constants DEF Moves, OthersSame, ChannelsSame, CalmInv, Listening, IInv, TypeOK
    <3>2. CASE registry' # registry /\ h = about[p]
      BY <2>2, <3>2 DEF Moves, RegistryOf, Listening, IInv, TypeOK
    <3>3. CASE registry' # registry /\ h # about[p]
      BY <2>2, <3>3, Constants DEF Moves, RegistryOf, OthersSame, ChannelsSame, CalmInv, Listening, IInv, TypeOK
    <3> QED BY <3>1, <3>2, <3>3
  <2> QED BY <2>1, <2>2 DEF CalmInv
<1> QED BY <1>2, <1>3, <1>4, <1>5

\* A holder writes the dispatch: nobody else holds, and no question is open.
LEMMA WritesKeep ==
  ASSUME IInv, IInv', BInv, NEW p \in Procs, WritesDispatch(p)
  PROVE  BInv'
<1> USE DEF BInv
<1>1. /\ \A q \in Procs : Holds(q)' => Holds(q)
      /\ Holds(p) /\ Holds(p)'
      /\ \A h \in Requests : Outstanding(h)' => Outstanding(h)
      /\ NoStepTimeout' <=> NoStepTimeout
      /\ timeouts' = timeouts /\ crashes' = crashes /\ up' = up
      /\ OthersSame(p) /\ ChannelsSame(p) /\ registry' = registry
  BY HoldsSame, OutstandingSame, HoldingLabels
     DEF WritesDispatch, NoStepTimeout, env, live, Holds, ChannelsSame
<1>2. NoStepTimeout => /\ dispatch.status \notin {"waiting_hitl", "cancelled"}
                       /\ \A h \in Requests : ~Outstanding(h)
                       /\ \A q \in Procs : Holds(q) => q = p
  BY <1>1 DEF BatonInv, OneHolder, WaitingUnheld, OutstandingWaits, WritesDispatch
<1>3. BatonInv'
  BY <1>1, <1>2 DEF BatonInv, OneHolder, WaitingUnheld, OutstandingWaits, WritesDispatch
<1>4. FreshInv'
  <2> SUFFICES ASSUME NoStepTimeout, NEW q \in Procs,
                      seen'[q].dispatch # None,
                      \/ pc'[q] \in Holding
                      \/ pc'[q] \in Deciding /\ Outstanding(about[q])'
               PROVE  FALSE
    BY <1>1 DEF FreshInv
  <2>1. q # p
    BY DEF WritesDispatch, Blank
  <2>2. pc'[q] \in Deciding => about'[q] \in Requests
    BY DEF IInv, Knows, Concerns, Deciding
  <2> QED BY <1>1, <1>2, <2>1, <2>2 DEF OthersSame, Holds
<1>5. AnswerableInv'
  BY <1>1, <1>2, HoldingLabels
     DEF AnswerableInv, Undisturbed, WritesDispatch, OthersSame, Blank
<1>6. CalmInv'
  <2>1. Calm' => Calm
    BY <1>1 DEF Calm, WritesDispatch
  <2>2. ASSUME Calm, NEW h \in Requests, registry[h] # None
        PROVE  Listening(h)' /\ inbox'[registry[h]] = None
    <3>1. Listening(h) /\ inbox[registry[h]] = None
      BY <2>2 DEF CalmInv
    <3>2. registry[h] # p /\ registry[h] \in Procs
      BY <2>2, <3>1, HoldingLabels, Constants DEF Listening, WritesDispatch, IInv, TypeOK
    <3> QED BY <1>1, <3>1, <3>2 DEF Listening, OthersSame, WritesDispatch, live
  <2> QED BY <1>1, <2>1, <2>2 DEF CalmInv
<1> QED BY <1>3, <1>4, <1>5, <1>6

\* A question is asked: the baton is laid down with it.
LEMMA AsksKeep ==
  ASSUME IInv, IInv', BInv, NEW p \in Procs, Asks(p)
  PROVE  BInv'
<1> USE DEF BInv
<1>1. /\ pc[p] \in Holding /\ Holds(p) /\ ~Holds(p)'
      /\ NoStepTimeout' <=> NoStepTimeout
      /\ timeouts' = timeouts /\ crashes' = crashes /\ up' = up
      /\ OthersSame(p) /\ ChannelsSame(p) /\ registry' = registry
  BY HoldingLabels DEF Asks, NoStepTimeout, env, live, Holds, ChannelsSame, Holding
<1>2. NoStepTimeout => /\ \A h \in Requests : ~Outstanding(h)
                       /\ \A q \in Procs : Holds(q) => q = p
  BY <1>1 DEF BatonInv, OneHolder, OutstandingWaits, Asks
<1>3. NoStepTimeout => \A q \in Procs : ~Holds(q)'
  BY <1>1, <1>2, HoldsSame
<1>4. BatonInv'
  BY <1>1, <1>3 DEF BatonInv, OneHolder, WaitingUnheld, OutstandingWaits, Asks
<1>5. FreshInv'
  <2> SUFFICES ASSUME NoStepTimeout, NEW q \in Procs,
                      seen'[q].dispatch # None,
                      \/ pc'[q] \in Holding
                      \/ pc'[q] \in Deciding /\ Outstanding(about[q])'
               PROVE  FALSE
    BY <1>1 DEF FreshInv
  <2>1. q # p
    BY DEF Asks, Blank
  <2>2. pc[q] \in Deciding => about[q] \in Requests /\ hitl[about[q]] # "none"
    BY <2>1, DecidingConcerns DEF Asks, OthersSame
  <2>3. pc'[q] \in Deciding => ~Outstanding(about[q])'
    BY <1>2, <2>1, <2>2 DEF Asks, OthersSame, Outstanding
  <2>4. pc'[q] \notin Holding
    BY <1>3 DEF Holds
  <2> QED BY <2>3, <2>4
<1>6. AnswerableInv'
  <2>1. dispatch'.status = "waiting_hitl" /\ Outstanding(run.active_hitl_request_id)'
    BY DEF Asks, Outstanding, IInv, TypeOK
  <2>2. ASSUME Undisturbed', NEW q \in Procs, pc'[q] = "expired" PROVE FALSE
    <3>1. q # p /\ pc[q] = "expired" /\ about[q] \in Requests
      BY <2>2 DEF Asks, OthersSame, IInv, Concerns
    <3>2. Outstanding(about[q])
      BY <3>1 DEF Outstanding
    <3>3. NoStepTimeout
      BY <1>1, <2>2 DEF Undisturbed
    <3> QED BY <1>2, <3>1, <3>2, <3>3
  <2> QED BY <2>1, <2>2 DEF AnswerableInv
<1>7. CalmInv'
  <2>1. Calm' => Calm
    BY <1>1 DEF Calm, Asks, IInv, TypeOK
  <2>2. ASSUME Calm, NEW h \in Requests, registry[h] # None
        PROVE  Listening(h)' /\ inbox'[registry[h]] = None
    <3>1. Listening(h) /\ inbox[registry[h]] = None
      BY <2>2 DEF CalmInv
    <3>2. registry[h] # p /\ registry[h] \in Procs
      BY <2>2, <3>1, Constants DEF Listening, Asks, IInv, TypeOK
    <3> QED BY <1>1, <3>1, <3>2 DEF Listening, OthersSame, Asks, live
  <2> QED BY <1>1, <2>1, <2>2 DEF CalmInv, Asks
<1> QED BY <1>4, <1>5, <1>6, <1>7

\* A question is decided: whoever decided it picks the baton up.
LEMMA DecidesKeep ==
  ASSUME IInv, IInv', DecisionsKept, BInv, NEW c \in Procs, Decides(c)
  PROVE  BInv'
<1> USE DEF BInv
<1>1. /\ pc'[c] \in Holding /\ Holds(c)'
      /\ NoStepTimeout' <=> NoStepTimeout
      /\ timeouts' = timeouts /\ crashes' = crashes /\ up' = up
      /\ OthersSame(c) /\ ChannelsSame(c) /\ registry' = registry
      /\ \A h \in Requests : ~Outstanding(h)'
      /\ dispatch'.status \notin {"waiting_hitl", "cancelled"}
  BY DEF Decides, NoStepTimeout, env, live, Holds, ChannelsSame, Holding
<1>2. NoStepTimeout => \A q \in Procs \ {c} : ~Holds(q)'
  BY HoldsSame, <1>1 DEF BatonInv, WaitingUnheld, Decides
<1>3. BatonInv'
  BY <1>1, <1>2 DEF BatonInv, OneHolder, WaitingUnheld, OutstandingWaits
<1>4. FreshInv'
  <2> SUFFICES ASSUME NoStepTimeout, NEW q \in Procs,
                      seen'[q].dispatch # None,
                      \/ pc'[q] \in Holding
                      \/ pc'[q] \in Deciding /\ Outstanding(about[q])'
               PROVE  FALSE
    BY <1>1 DEF FreshInv
  <2>1. q # c
    BY DEF Decides, Blank
  <2>2. pc'[q] \in Deciding => about'[q] \in Requests
    BY DEF IInv, Knows, Concerns, Deciding
  <2> QED BY <1>1, <1>2, <2>1, <2>2 DEF Holds
<1>5. AnswerableInv'
  <2>1. ASSUME NEW q \in Procs, pc'[q] = "expired" PROVE FALSE
    <3>1. about'[q] \in Requests
      BY <2>1 DEF IInv, Concerns
    <3> QED BY <1>1, <2>1, <3>1 DEF Outstanding
  <2> QED BY <2>1 DEF AnswerableInv, Decides
<1>6. CalmInv'
  <2>1. Calm' => Calm
    BY <1>1 DEF Calm, Decides, DecisionsKept, Decided
  <2>2. ASSUME Calm, NEW h \in Requests, registry[h] # None
        PROVE  Listening(h)' /\ inbox'[registry[h]] = None
    <3>1. Listening(h) /\ inbox[registry[h]] = None
      BY <2>2 DEF CalmInv
    <3>2. registry[h] # c /\ registry[h] \in Procs
      BY <2>2, <3>1, Constants DEF Listening, Decides, Deciding, IInv, TypeOK
    <3> QED BY <1>1, <3>1, <3>2 DEF Listening, OthersSame, Decides, live
  <2> QED BY <1>1, <2>1, <2>2 DEF CalmInv
<1> QED BY <1>3, <1>4, <1>5, <1>6

\* The dispatch is cancelled; with a question pending nobody held the baton.
LEMMA CancelsKeep ==
  ASSUME IInv, IInv', BInv, NEW c \in Procs, CancelsDispatch(c)
  PROVE  BInv'
<1> USE DEF BInv
<1>1. /\ NoStepTimeout' <=> NoStepTimeout
      /\ dispatch'.status = "cancelled"
      /\ OthersSame(c) /\ ChannelsSame(c)
  BY DEF CancelsDispatch, NoStepTimeout, env, live, ChannelsSame
<1>2. BatonInv'
  <2> SUFFICES ASSUME NoStepTimeout PROVE OneHolder'
    BY <1>1 DEF BatonInv, WaitingUnheld, OutstandingWaits
  <2>1. CASE pc'[c] = "done"
    BY <1>1, <2>1, HoldsSame, HoldingLabels DEF BatonInv, OneHolder, Holds
  <2>2. CASE pc'[c] = "detach"
    <3>1. dispatch.status = "waiting_hitl"
      BY <2>2 DEF BatonInv, OutstandingWaits, Outstanding, CancelsDispatch, Open
    <3>2. \A q \in Procs \ {c} : ~Holds(q)'
      BY <1>1, <3>1, HoldsSame DEF BatonInv, WaitingUnheld
    <3> QED BY <3>2 DEF OneHolder
  <2> QED BY <2>1, <2>2 DEF CancelsDispatch
<1> QED BY <1>1, <1>2 DEF FreshInv, AnswerableInv, Undisturbed, CalmInv, Calm

\* Whoever decided a question wakes its receiver, and passes the baton on to it.
LEMMA WakesKeep ==
  ASSUME IInv, IInv', BInv, NEW c \in Procs, Wakes(c)
  PROVE  BInv'
<1> USE DEF BInv
<1> DEFINE h == about[c]
           r == registry[h]
<1>1. /\ Holds(c) /\ pc[c] \in Holding /\ h \in Requests /\ OthersSame(c) /\ hitl' = hitl
      /\ run' = run /\ dispatch' = dispatch
      /\ NoStepTimeout' <=> NoStepTimeout
      /\ timeouts' = timeouts /\ crashes' = crashes /\ up' = up
      /\ \A g \in Requests : Outstanding(g)' => Outstanding(g)
  BY OutstandingSame DEF Wakes, NoStepTimeout, env, Holds, Holding
<1>2. ASSUME NEW q \in Procs \ {c}
      PROVE  Holds(q)' => Holds(q) \/ (Listening(h) /\ q = r)
  BY DEF Wakes, Wake, OthersSame, Holds, IInv, TypeOK
<1>3. BatonInv'
  <2> SUFFICES ASSUME NoStepTimeout PROVE OneHolder' /\ WaitingUnheld' /\ OutstandingWaits'
    BY <1>1 DEF BatonInv
  <2>1. dispatch.status # "waiting_hitl" /\ \A q \in Procs : Holds(q) => q = c
    BY <1>1 DEF BatonInv, OneHolder, WaitingUnheld
  <2>2. Listening(h) => ~Holds(c)'
    BY <1>1, HoldingLabels DEF Wakes, Holds
  <2>3. OneHolder'
    BY <1>2, <2>1, <2>2 DEF OneHolder
  <2> QED BY <1>1, <2>1, <2>3 DEF BatonInv, WaitingUnheld, OutstandingWaits
<1>4. FreshInv'
  <2> SUFFICES ASSUME NoStepTimeout, dispatch.status # "cancelled", NEW q \in Procs,
                      seen'[q].dispatch # None,
                      \/ pc'[q] \in Holding
                      \/ pc'[q] \in Deciding /\ Outstanding(about[q])'
               PROVE  seen'[q].dispatch = dispatch
    BY <1>1 DEF FreshInv
  <2>1. q # c
    BY DEF Wakes, Blank
  <2>2. pc'[q] \in Deciding => about'[q] \in Requests
    BY DEF IInv, Knows, Concerns, Deciding
  <2> QED BY <1>1, <2>1, <2>2 DEF FreshInv, OthersSame
<1>5. AnswerableInv'
  <2>1. pc[c] # "expired" /\ pc'[c] # "expired"
    BY DEF Wakes
  <2>2. \A g \in Requests : Outstanding(g) => Outstanding(g)'
    BY <1>1, <2>1 DEF Outstanding, OthersSame
  <2>3. run.active_hitl_request_id \in Requests \/ run.status # "waiting_hitl"
    BY DEF IInv, TypeOK, RunRow, Row, RowOK
  <2> QED BY <1>1, <2>1, <2>2, <2>3 DEF AnswerableInv, Undisturbed, OthersSame
<1>6. CalmInv'
  <2> SUFFICES ASSUME Calm
               PROVE  /\ run.status = "running" => \E q \in Procs : Holds(q)'
                      /\ \A g \in Requests :
                           registry'[g] # None => Listening(g)' /\ inbox'[registry'[g]] = None
    BY <1>1 DEF CalmInv, Calm
  <2>1. pc[c] \in {"deliver", "wakeExpired"}
    BY <1>1 DEF Wakes, IInv, Concerns, Calm
  <2>2. \E q \in Procs : Holds(q)'
    <3>1. CASE pc'[c] \in {"ensure", "resumeFailed"}
      BY <3>1 DEF Holds, Holding
    <3>2. CASE pc'[c] \in {"done", "sweep"}
      <4>1. Listening(h) /\ r \in Executors /\ r \in Procs /\ r # c
        <5>1. r # None
          BY <1>1, <2>1, <3>2 DEF Wakes
        <5>2. Listening(h)
          BY <1>1, <5>1 DEF CalmInv
        <5>3. r \in Executors /\ r \in Procs
          BY <1>1, <5>1, Constants DEF IInv, TypeOK
        <5> QED BY <2>1, <5>2, <5>3 DEF Listening
      <4>2. pc'[r] = "await" /\ inbox'[r] # None
        BY <4>1, HitlAssumption DEF Wakes, Wake, Listening, OthersSame, IInv, TypeOK
      <4> QED BY <4>1, <4>2 DEF Holds
    <3> QED BY <3>1, <3>2 DEF Wakes
  <2>3. ASSUME NEW g \in Requests, registry'[g] # None
        PROVE  Listening(g)' /\ inbox'[registry'[g]] = None
    <3>1. g # h /\ registry'[g] = registry[g]
      BY <1>1, <2>3 DEF Wakes, Wake, IInv, TypeOK
    <3>2. Listening(g) /\ inbox[registry[g]] = None
      BY <2>3, <3>1 DEF CalmInv
    <3>3. registry[g] \in Procs /\ registry[g] # c
      BY <2>1, <2>3, <3>1, <3>2, Constants DEF Listening, IInv, TypeOK
    <3>4. Listening(h) => r # registry[g]
      BY <3>1, <3>2 DEF Listening
    <3>5. inbox'[registry[g]] = inbox[registry[g]]
      BY <2>3, <3>1, <3>4 DEF Wakes, Wake, IInv, TypeOK
    <3>6. Listening(g)'
      BY <1>1, <2>3, <3>1, <3>2, <3>3 DEF Listening, OthersSame
    <3> QED BY <3>1, <3>2, <3>5, <3>6
  <2> QED BY <2>2, <2>3
<1> QED BY <1>3, <1>4, <1>5, <1>6

\* A timer strikes.
LEMMA StrikesKeep ==
  ASSUME IInv, IInv', BInv, NEW p \in Procs, Strikes(p)
  PROVE  BInv'
<1> USE DEF BInv
<1>1. timeouts' # 0 /\ (NoStepTimeout' => NoStepTimeout)
  BY DEF Strikes, IInv, TypeOK, NoStepTimeout
<1>2. /\ OthersSame(p) /\ ChannelsSame(p) /\ run' = run /\ dispatch' = dispatch /\ hitl' = hitl
      /\ crashes' = crashes
      /\ \A h \in Requests : Outstanding(h)' => Outstanding(h)
  BY OutstandingSame DEF Strikes
<1>3. NoStepTimeout' => pc'[p] = "done"
  BY <1>1 DEF Strikes, NoStepTimeout
<1>4. BatonInv'
  <2>1. NoStepTimeout' => \A q \in Procs : Holds(q)' => Holds(q)
    BY <1>2, <1>3, HoldsSame, HoldingLabels DEF Holds
  <2> QED BY <1>1, <1>2, <2>1, BatonKept DEF BatonInv
<1>5. FreshInv'
  <2> SUFFICES ASSUME NoStepTimeout, dispatch.status # "cancelled", NEW q \in Procs,
                      seen'[q].dispatch # None,
                      \/ pc'[q] \in Holding
                      \/ pc'[q] \in Deciding /\ Outstanding(about[q])'
               PROVE  seen'[q].dispatch = dispatch
    BY <1>1, <1>2 DEF FreshInv
  <2>1. q # p
    BY DEF Strikes, Blank
  <2>2. pc'[q] \in Deciding => about'[q] \in Requests
    BY DEF IInv, Knows, Concerns, Deciding
  <2> QED BY <1>2, <2>1, <2>2 DEF FreshInv, OthersSame
<1>6. AnswerableInv'
  <2>1. pc[p] # "expired" /\ pc'[p] # "expired"
    BY DEF Strikes
  <2>2. \A g \in Requests : Outstanding(g) => Outstanding(g)'
    BY <1>2, <2>1 DEF Outstanding, OthersSame
  <2>3. run.active_hitl_request_id \in Requests \/ run.status # "waiting_hitl"
    BY DEF IInv, TypeOK, RunRow, Row, RowOK
  <2> QED BY <1>1, <1>2, <2>1, <2>2, <2>3 DEF AnswerableInv, Undisturbed, OthersSame
<1>7. CalmInv'
  BY <1>1 DEF CalmInv, Calm
<1> QED BY <1>4, <1>5, <1>6, <1>7

\* A question is expired: it is outstanding as before.
LEMMA ExpireKeeps ==
  ASSUME IInv, IInv', BInv, NEW c \in Clients, Expire(c)
  PROVE  BInv'
<1> USE DEF BInv
<1>1. PICK h \in Requests : /\ hitl[h] = "pending"
                            /\ hitl' = [hitl EXCEPT ![h] = "timed_out"]
                            /\ about' = [about EXCEPT ![c] = h]
  BY HitlAssumption DEF Expire
<1>2. /\ c \in Procs /\ OthersSame(c) /\ ChannelsSame(c) /\ pc[c] = "sweep" /\ pc'[c] = "expired"
      /\ seen'[c] = Blank /\ about'[c] = h
      /\ UNCHANGED <<run, dispatch, registry, inbox, up, timeouts, crashes>>
      /\ (NoStepTimeout' <=> NoStepTimeout)
  BY <1>1, Constants
     DEF Expire, At, Goto, OthersSame, ChannelsSame, live, env, IInv, TypeOK, NoStepTimeout
<1>3. \A g \in Requests : Outstanding(g)' <=> Outstanding(g)
  BY <1>1, <1>2 DEF Outstanding, OthersSame, IInv, TypeOK
<1>4. \A q \in Procs : Holds(q)' <=> Holds(q)
  BY <1>2, HoldsSame, HoldingLabels DEF Holds
<1>5. BatonInv'
  BY <1>2, <1>3, <1>4, BatonKept
<1>6. FreshInv'
  <2> SUFFICES ASSUME NoStepTimeout, dispatch.status # "cancelled", NEW q \in Procs,
                      seen'[q].dispatch # None,
                      \/ pc'[q] \in Holding
                      \/ pc'[q] \in Deciding /\ Outstanding(about[q])'
               PROVE  seen'[q].dispatch = dispatch
    BY <1>2 DEF FreshInv
  <2>1. q # c
    BY <1>2 DEF Blank
  <2>2. pc'[q] \in Deciding => about'[q] \in Requests
    BY DEF IInv, Knows, Concerns, Deciding
  <2> QED BY <1>2, <1>3, <2>1, <2>2 DEF FreshInv, OthersSame
<1>7. AnswerableInv'
  <2>1. run.active_hitl_request_id \in Requests \/ run.status # "waiting_hitl"
    BY DEF IInv, TypeOK, RunRow, Row, RowOK
  <2> QED BY <1>2, <1>3, <2>1 DEF AnswerableInv, Undisturbed, OthersSame, Blank
<1>8. CalmInv'
  <2>1. Calm' => Calm
    BY <1>1, <1>2 DEF Calm, IInv, TypeOK
  <2>2. ASSUME Calm, NEW g \in Requests, registry[g] # None
        PROVE  Listening(g)' /\ inbox'[registry[g]] = None
    <3>1. Listening(g) /\ inbox[registry[g]] = None
      BY <2>2 DEF CalmInv
    <3>2. registry[g] # c /\ registry[g] \in Procs
      BY <1>2, <2>2, <3>1, Constants DEF Listening, IInv, TypeOK
    <3> QED BY <1>2, <3>1, <3>2 DEF Listening, OthersSame
  <2> QED BY <1>2, <1>4, <2>1, <2>2 DEF CalmInv
<1> QED BY <1>5, <1>6, <1>7, <1>8

\* After a crash nobody holds anything.
LEMMA CrashKeeps ==
  ASSUME IInv, IInv', BInv, Crash
  PROVE  BInv'
<1> USE DEF BInv
<1>1. /\ UNCHANGED <<run, dispatch, hitl, timeouts>>
      /\ crashes' # 0 /\ (NoStepTimeout' <=> NoStepTimeout)
      /\ \A q \in Procs : seen'[q] = Blank
  BY DEF Crash, durable, IInv, TypeOK, NoStepTimeout
<1>2. ASSUME NEW q \in Procs PROVE pc'[q] \in Actions \cup {"done"}
  BY Constants DEF Crash, AfterRestart, Procs
<1>3. \A q \in Procs : ~Holds(q)' /\ pc'[q] # "expired"
  BY <1>2 DEF Holds, Holding, Actions
<1>4. \A h \in Requests : Outstanding(h)' => Outstanding(h)
  BY <1>1, <1>3 DEF Outstanding
<1>5. BatonInv'
  BY <1>1, <1>3, <1>4, BatonKept
<1> QED BY <1>1, <1>5
        DEF FreshInv, Blank, AnswerableInv, Undisturbed, CalmInv, Calm

\* The recovery scan pauses a running run and touches nothing else.
LEMMA RecoverKeeps ==
  ASSUME IInv, IInv', BInv, Recover
  PROVE  BInv'
<1> USE DEF BInv
<1>1. UNCHANGED <<dispatch, hitl, registry, inbox, pc, about, seen, timeouts, crashes>>
  BY DEF Recover, live
<1>2. (run.status = "running" /\ run'.status = "paused") \/ run' = run
  BY CancelledFits DEF Recover, IInv, TypeOK, Fits
<1>3. BatonInv' /\ FreshInv'
  BY <1>1 DEF BatonInv, FreshInv, NoStepTimeout, OneHolder, WaitingUnheld, OutstandingWaits,
              Holds, Outstanding
<1>4. AnswerableInv'
  BY <1>1, <1>2 DEF AnswerableInv, Undisturbed, NoStepTimeout, Outstanding, IsTerminal, Terminal
<1>5. CalmInv'
  BY <1>1 DEF CalmInv, Calm, Recover
<1> QED BY <1>3, <1>4, <1>5

\* Nothing happens.
LEMMA StandsStill ==
  ASSUME BInv, UNCHANGED vars
  PROVE  BInv'
BY DEF vars, BInv, BatonInv, FreshInv, AnswerableInv, CalmInv, NoStepTimeout, OneHolder,
       WaitingUnheld, OutstandingWaits, Holds, Outstanding, Undisturbed, Calm, Listening

\* The invariant holds initially.
LEMMA InitBaton == Init => BInv
<1> SUFFICES ASSUME Init PROVE BInv
  OBVIOUS
<1>1. /\ \A q \in Procs : pc[q] \in Actions \cup {"ensure"} /\ (q # Main => pc[q] # "ensure")
      /\ \A q \in Procs : seen[q] = Blank /\ pc[q] \notin {"await", "expired"}
      /\ \A h \in Requests : hitl[h] = "none" /\ registry[h] = None
      /\ up /\ dispatch.status = "pending" /\ pc[Main] = "ensure"
  BY Constants DEF Init, Procs, Actions
<1>2. \A q \in Procs : Holds(q) <=> q = Main
  BY <1>1 DEF Holds, Holding, Actions
<1>3. \A h \in Requests : ~Outstanding(h)
  BY <1>1 DEF Outstanding
<1>4. BatonInv /\ FreshInv
  BY <1>1, <1>2, <1>3
     DEF BatonInv, OneHolder, WaitingUnheld, OutstandingWaits, FreshInv, Blank
<1>5. AnswerableInv
  BY <1>1 DEF AnswerableInv, Init, RunStarted, StepStarted
<1>6. CalmInv
  BY <1>1, <1>2, Constants DEF CalmInv
<1> QED BY <1>4, <1>5, <1>6 DEF BInv

--------------------------------------------------------------------------------
(***************************************************************************)
(* The theorems.                                                           *)
(***************************************************************************)
\* Every step keeps the invariant.
LEMMA BatonStep ==
  ASSUME IInv, BInv, [Next]_vars
  PROVE  IInv' /\ BInv'
<1>1. IInv' /\ DecisionsKept
  BY NextOK DEF StepOK
<1>2. StepKind
  BY EveryStep
<1>3. BInv'
  <2>1. CASE \E p \in Procs : \/ Moves(p) \/ WritesDispatch(p) \/ Asks(p) \/ Decides(p)
                              \/ CancelsDispatch(p) \/ Wakes(p) \/ Strikes(p)
    BY <1>1, <2>1, MovesKeep, WritesKeep, AsksKeep, DecidesKeep, CancelsKeep, WakesKeep,
       StrikesKeep
  <2>2. CASE \E c \in Clients : Expire(c)
    BY <1>1, <2>2, ExpireKeeps
  <2>3. CASE Crash
    BY <1>1, <2>3, CrashKeeps
  <2>4. CASE Recover
    BY <1>1, <2>4, RecoverKeeps
  <2>5. CASE UNCHANGED vars
    BY <2>5, StandsStill
  <2> QED BY <1>2, <2>1, <2>2, <2>3, <2>4, <2>5 DEF StepKind
<1> QED BY <1>1, <1>3

\* In every reachable state the baton is held once, and by the right one.
THEOREM BatonInvariant == Spec => [](IInv /\ BInv)
<1>1. Init => IInv /\ BInv
  BY InitInv, InitBaton
<1>2. IInv /\ BInv /\ [Next]_vars => (IInv /\ BInv)'
  BY BatonStep
<1> QED BY <1>1, <1>2, PTL DEF Spec

\* Until the timeout around a dispatch strikes, the agent is asked to continue by one
\* executor at a time: answers, expiries, cancellations, pauses and crashes, in any
\* number and order, never set two executors to work on one step.
THEOREM OneTurn == Spec => [](NoStepTimeout => AtMostOneTurn)
<1>1. IInv /\ BInv => (NoStepTimeout => AtMostOneTurn)
  BY Constants DEF BInv, BatonInv, OneHolder, Holds, Holding, AtMostOneTurn
<1> QED BY <1>1, BatonInvariant, PTL

\* A run that waits for a human can be answered, or a sweep is about to release it;
\* unless a step timeout, a crash or a cancellation of the dispatch cut in.
THEOREM Answerable == Spec => [](Undisturbed => WaitingIsAnswerable)
<1>1. ASSUME IInv, BInv, Undisturbed, run.status = "waiting_hitl"
      PROVE  WaitingIsAnswerable
  <2> DEFINE h == run.active_hitl_request_id
  <2>1. dispatch.status = "waiting_hitl" /\ Outstanding(h)
    BY <1>1 DEF BInv, AnswerableInv
  <2>2. hitl[h] = "pending" \/ \E c \in Doing("sweep") : pc[c] = "expired" /\ about[c] = h /\ hitl[h] = "timed_out"
    BY <1>1, <2>1 DEF Outstanding, IInv, Concerns
  <2> QED BY <2>1, <2>2 DEF WaitingIsAnswerable
<1>2. IInv /\ BInv => (Undisturbed => WaitingIsAnswerable)
  BY <1>1 DEF WaitingIsAnswerable
<1> QED BY <1>2, BatonInvariant, PTL

\* A running run has somebody who will move it, as long as no timer, no crash and no
\* cancelled question or dispatch took that somebody away.
THEOREM NotStranded == Spec => [](Calm => NoStrandedRun)
<1>1. IInv /\ BInv => (Calm => NoStrandedRun)
  BY HoldingLabels DEF BInv, CalmInv, Holds, NoStrandedRun
<1> QED BY <1>1, BatonInvariant, PTL

\* What a step may do to the dispatch row.
LegalStep ==
  /\ <<dispatch.status, dispatch'.status>> \in LegalMoves
  /\ dispatch'.attempt = IF dispatch'.status = "pending" THEN dispatch.attempt + 1
                                                         ELSE dispatch.attempt

\* Only a cancellation may write a dispatch that moved on since it was read.
LEMMA WritesAreLegal ==
  ASSUME IInv, BInv, StepKind, NoStepTimeout, dispatch'.status # "cancelled"
  PROVE  LegalStep \/ dispatch' = dispatch
<1> USE DEF BInv, LegalStep
<1>1. CASE \E p \in Procs : WritesDispatch(p)
  <2>1. PICK p \in Procs : WritesDispatch(p)
    BY <1>1
  <2>2. seen[p].dispatch = dispatch
    BY <2>1 DEF FreshInv, WritesDispatch
  <2> QED BY <2>1, <2>2 DEF WritesDispatch
<1>2. CASE \E p \in Procs : Asks(p)
  <2>1. PICK p \in Procs : Asks(p)
    BY <1>2
  <2>2. seen[p].dispatch = dispatch
    BY <2>1 DEF FreshInv, Asks, Holding
  <2> QED BY <2>1, <2>2 DEF Asks, LegalMoves
<1>3. CASE \E c \in Procs : Decides(c)
  <2>1. PICK c \in Procs : Decides(c)
    BY <1>3
  <2>2. seen[c].dispatch = dispatch
    BY <2>1 DEF FreshInv, Decides
  <2> QED BY <2>1, <2>2 DEF Decides, LegalMoves
<1>4. CASE \E p \in Procs : Moves(p) \/ Wakes(p) \/ Strikes(p)
  BY <1>4 DEF Moves, Wakes, Strikes
<1>5. CASE \/ \E c \in Procs : CancelsDispatch(c)
           \/ \E c \in Clients : Expire(c)
           \/ Crash \/ Recover \/ UNCHANGED vars
  BY <1>5 DEF CancelsDispatch, Expire, Crash, durable, Recover, vars
<1> QED BY <1>1, <1>2, <1>3, <1>4, <1>5 DEF StepKind

\* Until a step timeout strikes, every write of the dispatch but a cancellation is a
\* legal move with the attempt the row has at that moment, from whichever copy.
THEOREM WritesLegal ==
  Spec => [][NoStepTimeout /\ dispatch'.status # "cancelled" => LegalStep]_dispatch
<1>1. /\ IInv /\ BInv /\ [Next]_vars
      => [NoStepTimeout /\ dispatch'.status # "cancelled" => LegalStep]_dispatch
  BY EveryStep, WritesAreLegal
<1> QED BY <1>1, BatonInvariant, PTL DEF Spec

\* With nobody who cancels dispatches and no step timeout, every write is legal.
THEOREM DispatchLegal ==
  ASSUME "step" \notin Timers, Doing("cancelDispatch") = {}
  PROVE  Spec => DispatchIsLegal
<1>1. ASSUME IInv, BInv, [Next]_vars
      PROVE  LegalStep \/ dispatch' = dispatch
  <2>1. NoStepTimeout /\ StepKind
    BY <1>1, EveryStep DEF NoStepTimeout
  <2>2. CASE \E c \in Procs : CancelsDispatch(c)
    BY <1>1, <2>2 DEF CancelsDispatch, IInv, Concerns
  <2>3. CASE \A c \in Procs : ~CancelsDispatch(c)
    <3>1. CASE dispatch'.status # "cancelled"
      BY <1>1, <2>1, <3>1, WritesAreLegal
    <3>2. CASE dispatch'.status = "cancelled"
      BY <2>1, <2>3, <3>2
         DEF StepKind, Moves, WritesDispatch, Asks, Decides, Wakes, Strikes, Expire, Crash,
             durable, Recover, vars
    <3> QED BY <3>1, <3>2
  <2> QED BY <2>2, <2>3
<1>2. IInv /\ BInv /\ [Next]_vars
      => [LegalStep]_dispatch
  BY <1>1
<1> QED BY <1>2, BatonInvariant, PTL DEF Spec, DispatchIsLegal, LegalStep

================================================================================
