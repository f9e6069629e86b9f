----------------------------- MODULE Looper_proofs -----------------------------
(***************************************************************************)
(* Proofs about Looper, for any task and policy, any number of runtimes,   *)
(* operator requests, dispatches, shutdowns and crashes.                   *)
(*                                                                         *)
(* When starts do not overlap there is one runtime at a time, the one the  *)
(* token is of, and its copy of the execution view is the view but where   *)
(* it is about to write it.  What a runtime decides on its copy is then    *)
(* right when it acts on it.                                               *)
(***************************************************************************)
EXTENDS Looper, SequenceTheorems, FiniteSetTheorems, WellFoundedInduction, TLAPS

\* The requests that start the run, its creation and its resumes, do not overlap:
\* two that do start it twice (Overlap).  Requests that pause or cancel the run or
\* a dispatch may come between their steps at any time, from anyone.
OneStart == \A c, d \in Callers : call[c] # "free" /\ call[d] # "free" => c = d

AtWork ==
  {"load", "create", "repair", "top", "decide", "select", "mark", "link", "begin",
   "idle", "leave", "join", "settle", "settleRow", "settleSubtask"}

\* The subtask at hand has a dispatch: it is being given out, or settled.
Giving   == {"mark", "link", "begin"}
Settling == {"settle", "settleRow", "settleSubtask"}

\* Nothing is in flight.
Empty == {"load", "create", "repair", "idle", "leave"}

\* The copy of the view is at hand.
Viewing == AtWork \ {"load", "create", "leave"}

DispatchRows == [of : Subtasks, status : Terminal \union {"pending", "running"}]
ExecSteps    == {"none", "start", "turn", "finish", "ok", "err"}

Types ==
  /\ TypeOK
  /\ dispatch \in Seq(DispatchRows)
  /\ exec \in Seq(ExecSteps)
  /\ pc \in [Runtimes -> AtWork \union {"off"}]
  /\ seen \in [Runtimes -> RunStatus]
  /\ cursor \in [Runtimes -> 0..N]
  /\ stopped \subseteq Runtimes
  /\ call \in [Callers -> {"free", "seed", "fill", "check", "launch"}]
  /\ callSeen \in [Callers -> RunStatus]
  /\ daemon \in {"up", "stopping", "down"}
  /\ wanted \subseteq Subtasks /\ filled \subseteq wanted
  /\ crashes \in Nat /\ late \in Nat
  /\ turns \in [Subtasks -> Nat]

\* The token is that of the runtime that is there.
TokenInv ==
  \A r \in Runtimes :
    IF r = token THEN pc[r] # "off"
    ELSE pc[r] = "off" /\ inflight[r] = Idle /\ cursor[r] = None

\* The dispatch in flight for a subtask, if there is one.
InHand(s) == IF token = None THEN None ELSE inflight[token][s]

\* What a request has found out: nothing runs beside it but the runtime that a
\* resume finds at work, and nothing ran that was cancelled.  The status may have
\* changed since it was read.
CallInv ==
  \A c \in Callers :
    /\ call[c] \in {"seed", "fill", "launch"} => /\ token = None
                                               /\ status \in {"pending", "running", "paused", "cancelled"}
    /\ call[c] = "seed" => filled = {} /\ view = Absent /\ wanted # {}
    /\ call[c] = "fill" => filled # wanted /\ \A s \in Subtasks : view[s] # "absent" => s \in filled
    /\ call[c] = "check" => status # "absent"
    /\ call[c] = "launch" => /\ callSeen[c] \in {"pending", "running"}
                             /\ callSeen[c] = "running" => status # "pending"
                             /\ late = 0

RestInv ==
  /\ daemon = "down" => token = None /\ \A c \in Callers : call[c] = "free"
  /\ status = "absent" => /\ view = Absent /\ filled = {} /\ dispatch = <<>> /\ token = None
                          /\ \A c \in Callers : call[c] = "free"
  /\ status \in {"completed", "failed"} => Settled(view, "running") = {}

\* The run's status as a runtime knows it.
StatusFits(r) ==
  /\ pc[r] # "leave" => status \in {"running", "paused", "cancelled"}
  /\ pc[r] = "leave" => status \in Terminal \/ (seen[r] = "paused" /\ status \in {"paused", "running"})
  /\ pc[r] \in {"decide", "idle", "join"} => seen[r] \in {"running", "paused", "cancelled"}
  /\ pc[r] \in {"select"} \union Giving => seen[r] = "running"
  /\ pc[r] \in {"decide", "idle", "join", "leave"} /\ seen[r] = "cancelled" => status = "cancelled"

\* The view as a runtime knows it.
ViewFits(r) ==
  /\ pc[r] = "create" => \A s \in Subtasks :
       /\ mem[r][s] = InitialRow(subtask[s])
       /\ view[s] = IF s <= cursor[r] THEN mem[r][s] ELSE "absent"
  /\ pc[r] \in Viewing => \A s \in Subtasks :
       (pc[r] = "settleSubtask" /\ s = cursor[r]) \/ mem[r][s] = view[s]
  /\ pc[r] \notin {"load", "create", "repair"} => \A s \in Subtasks :
       view[s] = "running" <=>
         /\ inflight[r][s] # None
         /\ ~(pc[r] \in {"mark", "settleSubtask"} /\ s = cursor[r])

\* What is in flight, and how far it is.
FlightFits(r) ==
  /\ pc[r] \in Empty => inflight[r] = Idle
  /\ pc[r] \in Giving \union Settling => cursor[r] \in Subtasks /\ inflight[r][cursor[r]] # None
  /\ pc[r] \notin Giving \union Settling \union {"create"} => cursor[r] = None
  /\ pc[r] = "mark" => view[cursor[r]] = "pending"
  /\ pc[r] \in {"mark", "link"} => link[cursor[r]] = None
  /\ pc[r] = "settleSubtask" => view[cursor[r]] = Result(r)
  /\ pc[r] \in {"settleRow", "settleSubtask"} => ~Open(AtHand(r))
  /\ pc[r] \in Settling => exec[AtHand(r)] \in {"ok", "err"}
  /\ \A s \in Subtasks : inflight[r][s] # None =>
       /\ inflight[r][s] \in DOMAIN dispatch
       /\ dispatch[inflight[r][s]].of = s
       /\ exec[inflight[r][s]] = "none" <=> (pc[r] \in Giving /\ s = cursor[r])
       /\ link[s] = inflight[r][s] \/ (pc[r] \in {"mark", "link"} /\ s = cursor[r])

\* The policy, for what is in flight.
PolicyFits(r) ==
  /\ Cardinality(InFlight(r)) <= MaxParallel
  /\ InFlight(r) \subseteq Parallelizable \/ \E s \in Subtasks : InFlight(r) = {s}

\* Dispatches created after the cancellation are in flight, those of one round.
LateFits(r) ==
  pc[r] \in {"decide", "select"} \union Giving /\ seen[r] = "running"
    => late <= Cardinality(InFlight(r))

\* A runtime that gives up although the run runs was stopped, has a failed row, or
\* has no row that is ready.
IdleFits(r) ==
  pc[r] = "idle" /\ seen[r] = "running" =>
    \/ r \in stopped
    \/ Settled(mem[r], "failed") # {}
    \/ \A s \in Subtasks : ~Ready(mem[r], s)

Fits(r) ==
  StatusFits(r) /\ ViewFits(r) /\ FlightFits(r) /\ PolicyFits(r) /\ LateFits(r) /\ IdleFits(r)

RuntimeInv == \A r \in Runtimes : r = token => Fits(r)

\* Who works does so for the runtime, and a turn that succeeded is completed.
WorkInv ==
  \A d \in DOMAIN dispatch :
    /\ d \in Working => InHand(dispatch[d].of) = d
    /\ exec[d] = "ok" => dispatch[d].status = "completed"

\* A subtask that was not begun has no dispatch, and one without a row had no turn.
UnbegunInv ==
  \A s \in Subtasks :
    /\ view[s] \in {"absent", "pending"} => link[s] = None
    /\ view[s] = "absent" => turns[s] = 0

DependsInv ==
  \A s \in Subtasks : turns[s] > 0 \/ InHand(s) # None => \A t \in DependsOn[s] : view[t] = "completed"

\* A turn is counted when it begins: as long as it may begin again without a
\* crash, there is no more than one for each crash.
RepeatInv ==
  \A s \in Subtasks :
    /\ turns[s] <= 1 + crashes
    /\ view[s] \notin Terminal /\ InHand(s) = None => turns[s] <= crashes
    /\ InHand(s) # None /\ exec[InHand(s)] \in {"none", "start"} => turns[s] <= crashes

\* An open dispatch that no runtime has in flight, or will find at a repair.
Loose ==
  {d \in DOMAIN dispatch :
     /\ Open(d)
     /\ InHand(dispatch[d].of) # d
     /\ ~(view[dispatch[d].of] = "running" /\ link[dispatch[d].of] = d)}

\* A settled row whose subtask was not and will not be settled.
Dangling ==
  {s \in Subtasks :
     /\ view[s] \in Terminal /\ subtask[s] = "in_progress"
     /\ ~(token # None /\ pc[token] = "settleSubtask" /\ cursor[token] = s)}

LeftoverInv == Cardinality(Loose) <= crashes /\ Cardinality(Dangling) <= crashes

LateInv == late <= MaxParallel /\ (late > 0 => status \in Terminal)

\* With rows of the scope written, there are no others and none are created.
ScopeInv ==
  /\ \A s \in filled : view[s] # "absent"
  /\ filled # {} =>
       /\ \A s \in Subtasks : view[s] # "absent" => s \in wanted
       /\ \A r \in Runtimes : pc[r] # "create"

IInv ==
  /\ Types /\ TokenInv /\ CallInv /\ RestInv /\ RuntimeInv
  /\ WorkInv /\ UnbegunInv /\ DependsInv /\ RepeatInv /\ LeftoverInv /\ LateInv /\ ScopeInv

-----------------------------------------------------------------------------
(* Sets of subtasks                                                          *)

\* The subtasks and all sets of them are finite, with the numbers of a task.
LEMMA Finite ==
  ASSUME LooperAssumption, NEW S \in SUBSET Subtasks
  PROVE  /\ Subtasks \subseteq Nat \ {0} /\ None \notin Subtasks
         /\ IsFiniteSet(S) /\ Cardinality(S) \in 0..N
<1>1. IsFiniteSet(1..N) /\ Cardinality(1..N) = N
  BY FS_Interval DEF LooperAssumption
<1>2. IsFiniteSet(S) /\ Cardinality(S) <= N
  <2>1. S \in SUBSET (1..N)
    BY DEF Subtasks
  <2>2. IsFiniteSet(S) /\ Cardinality(S) <= Cardinality(1..N)
    BY <1>1, <2>1, FS_Subset
  <2>. QED BY <1>1, <2>2
<1>3. Cardinality(S) \in Nat
  BY <1>2, FS_CardinalityType
<1>. QED BY <1>2, <1>3 DEF LooperAssumption, Subtasks, None

\* The first of a set of numbers is one of them, and the least.
LEMMA First ==
  ASSUME NEW S \in SUBSET Nat, S # {}
  PROVE  Min(S) \in S /\ \A x \in S : Min(S) =< x
<1>. DEFINE R == OpToRel(LAMBDA x, y : x < y, Nat)
<1>1. PICK x \in S : \A y \in S : <<y, x>> \notin R
  BY NatLessThanWellFounded, WFMin, Zenon
<1>2. \A y \in S : x =< y
  <2>. SUFFICES ASSUME NEW y \in S PROVE x =< y
    OBVIOUS
  <2>1. ~(y < x)
    BY <1>1 DEF OpToRel
  <2>. QED BY <2>1
<1>. QED BY <1>2, Zenon DEF Min

\* A set with at most one more element has at most one more.
LEMMA OneMore ==
  ASSUME NEW S, IsFiniteSet(S), NEW x, NEW T \in SUBSET (S \union {x}),
         NEW n \in Nat, Cardinality(S) <= n
  PROVE  Cardinality(T) <= n + 1
<1>1. /\ IsFiniteSet(S \union {x}) /\ Cardinality(S \union {x}) <= Cardinality(S) + 1
      /\ Cardinality(S) \in Nat /\ Cardinality(S \union {x}) \in Nat
  BY FS_AddElement, FS_CardinalityType
<1>2. Cardinality(T) \in Nat /\ Cardinality(T) <= Cardinality(S \union {x})
  BY <1>1, FS_Subset, FS_CardinalityType
<1>. QED BY <1>1, <1>2

\* What the run row shows of a view fits the row.
LEMMA ProjectionFits ==
  ASSUME LooperAssumption, NEW v \in [Subtasks -> RowStatus]
  PROVE  Projection(v) \in [current : 0..N, completed : 0..N, failed : 0..N]
<1>1. \A st : Settled(v, st) \in SUBSET Subtasks /\ Cardinality(Settled(v, st)) \in 0..N
  <2>1. \A st : Settled(v, st) \in SUBSET Subtasks
    BY DEF Settled
  <2>. QED BY <2>1, Finite
<1>2. Settled(v, "running") # {} => Min(Settled(v, "running")) \in Subtasks
  BY <1>1, First, Finite
<1>3. Subtasks \subseteq 0..N /\ None \in 0..N
  BY DEF Subtasks, None, LooperAssumption
<1>. QED BY <1>1, <1>2, <1>3 DEF Projection

LEMMA CurrentCleared ==
  ASSUME LooperAssumption, Types
  PROVE  [shown EXCEPT !.current = None] \in [current : 0..N, completed : 0..N, failed : 0..N]
<1>1. None \in 0..N
  BY DEF None, LooperAssumption
<1>. QED BY <1>1 DEF Types, TypeOK

-----------------------------------------------------------------------------
(* Dispatches                                                                *)

\* A change of one dispatch's status.
LEMMA DispatchSet ==
  ASSUME Types, NEW d \in DOMAIN dispatch, NEW st \in Terminal \union {"pending", "running"},
         dispatch' = [dispatch EXCEPT ![d].status = st]
  PROVE  /\ dispatch' \in Seq(DispatchRows)
         /\ Len(dispatch') = Len(dispatch) /\ DOMAIN dispatch' = DOMAIN dispatch
         /\ \A e \in DOMAIN dispatch :
              /\ dispatch[e].of \in Subtasks /\ dispatch'[e].of = dispatch[e].of
              /\ dispatch'[e].status = IF e = d THEN st ELSE dispatch[e].status
<1>1. dispatch \in [1..Len(dispatch) -> DispatchRows] /\ Len(dispatch) \in Nat
  BY DEF Types
<1>2. DOMAIN dispatch = 1..Len(dispatch)
  BY <1>1
<1>3. dispatch' \in [1..Len(dispatch) -> DispatchRows]
  BY <1>1 DEF DispatchRows
<1>4. dispatch' \in Seq(DispatchRows)
  BY <1>1, <1>3
<1>5. Len(dispatch') = Len(dispatch)
  BY <1>1, <1>3, <1>4
<1>. QED BY <1>1, <1>2, <1>3, <1>4, <1>5 DEF DispatchRows

\* A change of one executor's step.
LEMMA ExecSet ==
  ASSUME Types, NEW d \in DOMAIN exec, NEW st \in ExecSteps, exec' = [exec EXCEPT ![d] = st]
  PROVE  /\ exec' \in Seq(ExecSteps)
         /\ Len(exec') = Len(exec) /\ DOMAIN exec' = DOMAIN exec
         /\ \A e \in DOMAIN exec : exec'[e] = IF e = d THEN st ELSE exec[e]
<1>1. exec \in [1..Len(exec) -> ExecSteps] /\ Len(exec) \in Nat
  BY DEF Types
<1>2. exec' \in [1..Len(exec) -> ExecSteps]
  BY <1>1
<1>. QED BY <1>1, <1>2 DEF Types

\* The dispatches and their executors have the same numbers.
LEMMA Numbered ==
  ASSUME Types
  PROVE  /\ DOMAIN dispatch = DOMAIN exec
         /\ DOMAIN dispatch = 1..Len(dispatch) /\ Len(dispatch) \in Nat
         /\ \A d \in DOMAIN dispatch :
              d # None /\ dispatch[d] \in DispatchRows /\ exec[d] \in ExecSteps
  BY DEF Types, TypeOK, None

-----------------------------------------------------------------------------
(* The runtime                                                               *)

\* Who is at work is the runtime of the token.
LEMMA AtWorkIsToken ==
  ASSUME LooperAssumption, IInv, NEW r \in Runtimes, pc[r] # "off"
  PROVE  /\ r = token /\ token # None /\ Fits(r)
         /\ \A s \in Subtasks : InHand(s) = inflight[r][s]
         /\ daemon # "down" /\ status # "absent"
         /\ \A c \in Callers : call[c] \notin {"seed", "fill", "launch"}
<1>1. r = token
  BY DEF IInv, TokenInv
<1>2. token # None
  BY <1>1 DEF LooperAssumption, None
<1>. QED BY <1>1, <1>2 DEF IInv, RuntimeInv, InHand, CallInv, RestInv

\* The token's own change: one runtime moves and keeps the token.
Moves(r) ==
  /\ UNCHANGED control
  /\ \A q \in Runtimes \ {r} :
       pc'[q] = pc[q] /\ inflight'[q] = inflight[q] /\ cursor'[q] = cursor[q]

\* What a runtime's step leaves of the rest: it keeps the token, and no request
\* has found out something that it changes.
LEMMA RuntimeMoves ==
  ASSUME LooperAssumption, IInv, NEW r \in Runtimes, pc[r] # "off",
         Moves(r), pc'[r] # "off", Fits(r)',
         status' # "absent",
         status' \in {"completed", "failed"} => Settled(view', "running") = {}
  PROVE  /\ TokenInv' /\ CallInv' /\ RestInv' /\ RuntimeInv'
<1>1. /\ r = token /\ token # None /\ daemon # "down"
      /\ \A c \in Callers : call[c] \notin {"seed", "fill", "launch"}
  BY AtWorkIsToken
<1>. USE DEF Moves, control
<1>2. TokenInv'
  BY <1>1 DEF IInv, TokenInv
<1>3. CallInv'
  BY <1>1 DEF CallInv
<1>4. RestInv'
  BY <1>1 DEF RestInv, Settled
<1>5. RuntimeInv'
  BY <1>1 DEF RuntimeInv
<1>. QED BY <1>2, <1>3, <1>4, <1>5

-----------------------------------------------------------------------------
(* What stays                                                                *)

\* The dispatches of a run are finite, so are those that were lost.
LEMMA FewerLeft ==
  ASSUME LooperAssumption, IInv, Loose' \subseteq Loose, Dangling' \subseteq Dangling,
         crashes' = crashes
  PROVE  LeftoverInv'
<1>1. IsFiniteSet(Loose)
  <2>1. Loose \in SUBSET (1..Len(dispatch)) /\ Len(dispatch) \in Nat
    BY Numbered DEF IInv, Loose
  <2>2. IsFiniteSet(1..Len(dispatch))
    BY <2>1, FS_Interval
  <2>. QED BY <2>1, <2>2, FS_Subset
<1>2. IsFiniteSet(Dangling)
  BY Finite DEF Dangling
<1>3. Cardinality(Loose') \in Nat /\ Cardinality(Loose') <= Cardinality(Loose)
      /\ Cardinality(Loose) \in Nat
  BY <1>1, FS_Subset, FS_CardinalityType
<1>4. Cardinality(Dangling') \in Nat /\ Cardinality(Dangling') <= Cardinality(Dangling)
      /\ Cardinality(Dangling) \in Nat
  BY <1>2, FS_Subset, FS_CardinalityType
<1>. QED BY <1>3, <1>4 DEF IInv, LeftoverInv, Types

\* Nothing happens to rows, dispatches and executors, nor to what is in flight.
LEMMA WorkStays ==
  ASSUME IInv, UNCHANGED <<view, link, dispatch, exec, turns, crashes>>,
         \A s \in Subtasks : InHand(s)' = InHand(s)
  PROVE  WorkInv' /\ UnbegunInv' /\ DependsInv' /\ RepeatInv' /\ Loose' = Loose
<1>1. \A d \in DOMAIN dispatch : dispatch[d].of \in Subtasks
  BY Numbered DEF IInv, DispatchRows
<1>2. WorkInv'
  BY <1>1 DEF IInv, WorkInv, Working
<1>3. UnbegunInv' /\ DependsInv'
  BY DEF IInv, UnbegunInv, DependsInv
<1>4. RepeatInv'
  BY DEF IInv, RepeatInv
<1>5. Loose' = Loose
  BY <1>1 DEF Loose, Open
<1>. QED BY <1>2, <1>3, <1>4, <1>5

\* A runtime takes a step of its own: it writes no row, but perhaps the outcome.
LEMMA LocalStep ==
  ASSUME LooperAssumption, IInv, NEW r \in Runtimes, pc[r] \notin {"off", "settleSubtask"},
         Moves(r), UNCHANGED <<view, link, subtask, dispatch, exec, history>>,
         \A s \in Subtasks : inflight'[r][s] = inflight[r][s],
         pc'[r] # "off",
         pc'[r] = "create" => filled = {},
         \/ status' = status
         \/ status' \in Terminal /\ Settled(view, "running") = {},
         status \notin {"completed", "failed"},
         Types', Fits(r)'
  PROVE  IInv'
<1>1. /\ r = token /\ token # None /\ status # "absent"
      /\ \A s \in Subtasks : InHand(s) = inflight[r][s]
  BY AtWorkIsToken
<1>2. TokenInv' /\ CallInv' /\ RestInv' /\ RuntimeInv'
  <2>1. status' # "absent"
    BY <1>1 DEF Terminal
  <2>2. status' \in {"completed", "failed"} => Settled(view', "running") = {}
    OBVIOUS
  <2>. QED BY <2>1, <2>2, RuntimeMoves
<1>3. UNCHANGED <<token, crashes, turns, late, wanted, filled>>
  BY DEF Moves, control, history
<1>4. \A s \in Subtasks : InHand(s)' = InHand(s)
  BY <1>1, <1>3 DEF InHand
<1>5. WorkInv' /\ UnbegunInv' /\ DependsInv' /\ RepeatInv' /\ Loose' = Loose
  BY <1>3, <1>4, WorkStays
<1>6. LeftoverInv'
  <2>1. Dangling' \subseteq Dangling
    BY <1>1, <1>3 DEF Dangling
  <2>. QED BY <1>3, <1>5, <2>1, FewerLeft
<1>7. LateInv'
  BY <1>3 DEF IInv, LateInv
<1>8. ScopeInv'
  BY <1>3 DEF IInv, ScopeInv, Moves
<1>. QED BY <1>2, <1>5, <1>6, <1>7, <1>8 DEF IInv

-----------------------------------------------------------------------------
(* Steps of a runtime that write no row                                      *)

\* The rest of a runtime's memory is that of the others.
LEMMA Went ==
  ASSUME IInv, NEW r \in Runtimes, NEW l \in AtWork, Goto(r, l)
  PROVE  /\ pc' \in [Runtimes -> AtWork \union {"off"}] /\ pc'[r] = l
         /\ \A q \in Runtimes \ {r} : pc'[q] = pc[q]
  BY DEF IInv, Types, Goto

LEMMA LoadKeeps ==
  ASSUME LooperAssumption, IInv, NEW r \in Runtimes, Load(r)
  PROVE  IInv'
<1>. DEFINE fresh == view = Absent
<1>1. /\ pc[r] = "load" /\ Fits(r) /\ r = token
  BY AtWorkIsToken DEF Load
<1>2. /\ UNCHANGED <<status, shown, view, link, subtask, dispatch, exec, seen, inflight, cursor,
                     control, history>>
      /\ mem' = [mem EXCEPT ![r] = [s \in Subtasks |-> IF fresh THEN InitialRow(subtask[s])
                                                       ELSE view[s]]]
      /\ Goto(r, IF fresh THEN "create" ELSE "repair")
  BY DEF Load, durable
<1>3. /\ pc' \in [Runtimes -> AtWork \union {"off"}]
      /\ pc'[r] = IF fresh THEN "create" ELSE "repair"
      /\ \A q \in Runtimes \ {r} : pc'[q] = pc[q]
  BY <1>2, Went DEF AtWork
<1>4. \A s \in Subtasks : mem'[r][s] = IF fresh THEN InitialRow(subtask[s]) ELSE view[s]
  BY <1>2 DEF IInv, Types, TypeOK
<1>5. cursor[r] = None /\ inflight[r] = Idle /\ status \in {"running", "paused", "cancelled"}
  BY <1>1 DEF Fits, StatusFits, FlightFits, Empty, Giving, Settling
<1>6. Types'
  <2>1. mem' \in [Runtimes -> [Subtasks -> RowStatus]]
    BY <1>2 DEF IInv, Types, TypeOK, InitialRow, RowStatus, Terminal
  <2>. QED BY <1>2, <1>3, <2>1 DEF IInv, Types, TypeOK, control, history
<1>7. Fits(r)'
  <2>1. StatusFits(r)'
    BY <1>2, <1>3, <1>5 DEF StatusFits, Giving
  <2>2. ViewFits(r)'
    <3>1. fresh => \A s \in Subtasks : view[s] = "absent" /\ ~(s <= None)
      BY Finite DEF Absent, None, Subtasks
    <3>. QED BY <1>2, <1>3, <1>4, <1>5, <3>1 DEF ViewFits, Viewing, AtWork
  <2>3. FlightFits(r)'
    <3>1. \A s \in Subtasks : inflight[r][s] = None
      BY <1>5 DEF Idle
    <3>. QED BY <1>2, <1>3, <1>5, <3>1 DEF FlightFits, Giving, Settling, Empty
  <2>4. PolicyFits(r)'
    BY <1>1, <1>2 DEF Fits, PolicyFits, InFlight
  <2>5. LateFits(r)' /\ IdleFits(r)'
    BY <1>3 DEF LateFits, IdleFits, Giving
  <2>. QED BY <2>1, <2>2, <2>3, <2>4, <2>5 DEF Fits
<1>8. fresh => filled = {}
  <2>1. fresh => \A s \in Subtasks : view[s] = "absent"
    BY DEF Absent
  <2>2. filled \subseteq Subtasks
    BY DEF IInv, Types
  <2>. QED BY <2>1, <2>2 DEF IInv, ScopeInv
<1>. QED
  BY <1>1, <1>2, <1>3, <1>5, <1>6, <1>7, <1>8, LocalStep DEF Moves

LEMMA TopKeeps ==
  ASSUME LooperAssumption, IInv, NEW r \in Runtimes, Top(r)
  PROVE  IInv'
<1>1. /\ pc[r] = "top" /\ Fits(r) /\ r = token
  BY AtWorkIsToken DEF Top
<1>2. /\ UNCHANGED <<status, view, link, subtask, dispatch, exec, mem, inflight, cursor,
                     control, history>>
      /\ seen' = [seen EXCEPT ![r] = status]
      /\ shown' = Projection(mem[r])
      /\ Goto(r, "decide")
  BY DEF Top, Sync
<1>3. /\ pc' \in [Runtimes -> AtWork \union {"off"}] /\ pc'[r] = "decide"
      /\ \A q \in Runtimes \ {r} : pc'[q] = pc[q]
  BY <1>2, Went DEF AtWork
<1>4. seen'[r] = status /\ status \in {"running", "paused", "cancelled"}
  BY <1>1, <1>2 DEF Fits, StatusFits, IInv, Types
<1>5. Types'
  <2>1. seen' \in [Runtimes -> RunStatus]
    BY <1>2 DEF IInv, Types, TypeOK
  <2>2. shown' \in [current : 0..N, completed : 0..N, failed : 0..N]
    BY <1>2, ProjectionFits DEF IInv, Types, TypeOK
  <2>. QED BY <1>2, <1>3, <2>1, <2>2 DEF IInv, Types, TypeOK, control, history
<1>6. Fits(r)'
  <2>1. StatusFits(r)'
    BY <1>2, <1>3, <1>4 DEF StatusFits, Giving
  <2>2. ViewFits(r)'
    BY <1>1, <1>2, <1>3 DEF Fits, ViewFits, Viewing, AtWork
  <2>3. FlightFits(r)'
    BY <1>1, <1>2, <1>3 DEF Fits, FlightFits, Giving, Settling, Empty
  <2>4. PolicyFits(r)'
    BY <1>1, <1>2 DEF Fits, PolicyFits, InFlight
  <2>5. LateFits(r)'
    <3>1. status = "running" => late = 0
      BY DEF IInv, LateInv, Types, Terminal
    <3>2. Cardinality(InFlight(r)) \in Nat
      BY Finite DEF InFlight
    <3>. QED BY <1>2, <1>3, <1>4, <3>1, <3>2 DEF LateFits, history, InFlight
  <2>6. IdleFits(r)'
    BY <1>3 DEF IdleFits
  <2>. QED BY <2>1, <2>2, <2>3, <2>4, <2>5, <2>6 DEF Fits
<1>. QED
  BY <1>1, <1>2, <1>3, <1>4, <1>5, <1>6, LocalStep DEF Moves

\* A runtime that stops giving out has nothing in flight, or joins.
LEMMA Stops ==
  ASSUME LooperAssumption, IInv, NEW r \in Runtimes, pc[r] \in {"decide", "select"},
         Goto(r, WaitOrStop(r)),
         UNCHANGED <<durable, exec, mem, seen, inflight, cursor, control, history>>,
         seen[r] = "running" /\ InFlight(r) = {} =>
           \/ r \in stopped
           \/ Settled(mem[r], "failed") # {}
           \/ \A s \in Subtasks : ~Ready(mem[r], s)
  PROVE  IInv'
<1>1. Fits(r) /\ r = token
  BY AtWorkIsToken
<1>2. UNCHANGED <<status, shown, view, link, subtask, dispatch, exec, mem, seen, inflight, cursor,
                  stopped, control, history>>
  BY DEF durable, control
<1>3. /\ pc' \in [Runtimes -> AtWork \union {"off"}]
      /\ pc'[r] = IF InFlight(r) = {} THEN "idle" ELSE "join"
      /\ \A q \in Runtimes \ {r} : pc'[q] = pc[q]
  BY Went DEF AtWork, WaitOrStop
<1>4. Types'
  BY <1>2, <1>3 DEF IInv, Types, TypeOK, control, history
<1>5. Fits(r)'
  <2>1. StatusFits(r)'
    BY <1>1, <1>2, <1>3 DEF Fits, StatusFits, Giving
  <2>2. ViewFits(r)'
    BY <1>1, <1>2, <1>3 DEF Fits, ViewFits, Viewing, AtWork
  <2>3. FlightFits(r)'
    <3>1. InFlight(r) = {} => inflight[r] = Idle
      BY DEF IInv, Types, TypeOK, InFlight, Idle
    <3>. QED BY <1>1, <1>2, <1>3, <3>1 DEF Fits, FlightFits, Giving, Settling, Empty
  <2>4. PolicyFits(r)'
    BY <1>1, <1>2 DEF Fits, PolicyFits, InFlight
  <2>5. LateFits(r)'
    BY <1>3 DEF LateFits, Giving
  <2>6. IdleFits(r)'
    BY <1>2, <1>3 DEF IdleFits, Settled, Ready
  <2>. QED BY <2>1, <2>2, <2>3, <2>4, <2>5, <2>6 DEF Fits
<1>6. status \in {"running", "paused", "cancelled"}
  BY <1>1 DEF Fits, StatusFits
<1>. QED
  BY <1>1, <1>2, <1>3, <1>4, <1>5, <1>6, LocalStep DEF Moves

LEMMA DecideKeeps ==
  ASSUME LooperAssumption, IInv, NEW r \in Runtimes, Decide(r)
  PROVE  IInv'
<1>1. /\ pc[r] = "decide" /\ Fits(r) /\ r = token
  BY AtWorkIsToken DEF Decide
<1>2. CASE ~MayDispatch(r)
  BY <1>1, <1>2, Stops DEF Decide, MayDispatch
<1>3. CASE MayDispatch(r)
  <2>1. UNCHANGED <<status, shown, view, link, subtask, dispatch, exec, mem, seen, inflight,
                    cursor, control, history>>
    BY DEF Decide, durable
  <2>2. /\ pc' \in [Runtimes -> AtWork \union {"off"}] /\ pc'[r] = "select"
        /\ \A q \in Runtimes \ {r} : pc'[q] = pc[q]
    BY <1>3, Went DEF Decide, AtWork
  <2>3. Types'
    BY <2>1, <2>2 DEF IInv, Types, TypeOK, control, history
  <2>4. Fits(r)'
    <3>1. StatusFits(r)'
      BY <1>1, <1>3, <2>1, <2>2 DEF Fits, StatusFits, Giving, MayDispatch
    <3>2. ViewFits(r)'
      BY <1>1, <2>1, <2>2 DEF Fits, ViewFits, Viewing, AtWork
    <3>3. FlightFits(r)'
      BY <1>1, <2>1, <2>2 DEF Fits, FlightFits, Giving, Settling, Empty
    <3>4. PolicyFits(r)'
      BY <1>1, <2>1 DEF Fits, PolicyFits, InFlight
    <3>5. LateFits(r)'
      BY <1>1, <2>1, <2>2 DEF Fits, LateFits, Giving, history, InFlight
    <3>6. IdleFits(r)'
      BY <2>2 DEF IdleFits
    <3>. QED BY <3>1, <3>2, <3>3, <3>4, <3>5, <3>6 DEF Fits
  <2>5. status \in {"running", "paused", "cancelled"}
    BY <1>1 DEF Fits, StatusFits
  <2>. QED
    BY <1>1, <2>1, <2>2, <2>3, <2>4, <2>5, LocalStep DEF Moves
<1>. QED BY <1>2, <1>3

LEMMA FinishKeeps ==
  ASSUME LooperAssumption, IInv, NEW r \in Runtimes, Finish(r)
  PROVE  IInv'
<1>1. /\ pc[r] = "idle" /\ Fits(r) /\ r = token
  BY AtWorkIsToken DEF Finish
<1>2. /\ UNCHANGED <<view, link, subtask, dispatch, exec, mem, seen, inflight, cursor,
                     control, history>>
      /\ status' = Outcome(r)
      /\ shown' = [shown EXCEPT !.current = None]
      /\ Goto(r, "leave")
  BY DEF Finish
<1>3. /\ pc' \in [Runtimes -> AtWork \union {"off"}] /\ pc'[r] = "leave"
      /\ \A q \in Runtimes \ {r} : pc'[q] = pc[q]
  BY <1>2, Went DEF AtWork
<1>4. /\ status \in {"running", "paused", "cancelled"}
      /\ seen[r] \in {"running", "paused", "cancelled"}
      /\ seen[r] = "cancelled" => status = "cancelled"
      /\ \A s \in Subtasks : inflight[r][s] = None
  BY <1>1 DEF Fits, StatusFits, FlightFits, Empty, Idle
<1>5. /\ seen[r] \in {"paused", "cancelled"} => status' = status
      /\ seen[r] = "running" => status' \in {"completed", "failed"}
  BY <1>2, <1>4 DEF Outcome
<1>6. Settled(view, "running") = {}
  BY <1>1, <1>4 DEF Fits, ViewFits, Settled
<1>7. Types'
  <2>1. status' \in RunStatus
    BY <1>4, <1>5 DEF RunStatus, Terminal
  <2>2. shown' \in [current : 0..N, completed : 0..N, failed : 0..N]
    BY <1>2, CurrentCleared DEF IInv
  <2>. QED BY <1>2, <1>3, <2>1, <2>2 DEF IInv, Types, TypeOK, control, history
<1>8. Fits(r)'
  <2>1. StatusFits(r)'
    BY <1>2, <1>3, <1>4, <1>5 DEF StatusFits, Giving, Terminal
  <2>2. ViewFits(r)'
    BY <1>1, <1>2, <1>3 DEF Fits, ViewFits, Viewing, AtWork
  <2>3. FlightFits(r)'
    BY <1>1, <1>2, <1>3 DEF Fits, FlightFits, Giving, Settling, Empty
  <2>4. PolicyFits(r)'
    BY <1>1, <1>2 DEF Fits, PolicyFits, InFlight
  <2>5. LateFits(r)' /\ IdleFits(r)'
    BY <1>3 DEF LateFits, IdleFits, Giving
  <2>. QED BY <2>1, <2>2, <2>3, <2>4, <2>5 DEF Fits
<1>9. \/ status' = status
      \/ status' \in Terminal /\ Settled(view, "running") = {}
  BY <1>4, <1>5, <1>6 DEF Terminal
<1>. QED
  BY <1>1, <1>2, <1>3, <1>4, <1>7, <1>8, <1>9, LocalStep DEF Moves

LEMMA JoinKeeps ==
  ASSUME LooperAssumption, IInv, NEW r \in Runtimes, Join(r)
  PROVE  IInv'
<1>1. /\ pc[r] = "join" /\ Fits(r) /\ r = token
  BY AtWorkIsToken DEF Join
<1>2. PICK s \in InFlight(r) :
        /\ exec[inflight[r][s]] \in {"ok", "err"}
        /\ cursor' = [cursor EXCEPT ![r] = s]
  BY DEF Join
<1>3. /\ UNCHANGED <<status, shown, view, link, subtask, dispatch, exec, mem, seen, inflight,
                     control, history>>
      /\ Goto(r, "settle")
  BY DEF Join, durable
<1>4. /\ pc' \in [Runtimes -> AtWork \union {"off"}] /\ pc'[r] = "settle"
      /\ \A q \in Runtimes \ {r} : pc'[q] = pc[q]
  BY <1>3, Went DEF AtWork
<1>5. /\ s \in Subtasks /\ inflight[r][s] # None
      /\ cursor' \in [Runtimes -> 0..N] /\ cursor'[r] = s
      /\ \A q \in Runtimes \ {r} : cursor'[q] = cursor[q]
  BY <1>2 DEF InFlight, Subtasks, IInv, Types, LooperAssumption
<1>6. Types'
  BY <1>3, <1>4, <1>5 DEF IInv, Types, TypeOK, control, history
<1>7. Fits(r)'
  <2>1. StatusFits(r)'
    BY <1>1, <1>3, <1>4 DEF Fits, StatusFits, Giving
  <2>2. ViewFits(r)'
    BY <1>1, <1>3, <1>4 DEF Fits, ViewFits, Viewing, AtWork
  <2>3. FlightFits(r)'
    BY <1>1, <1>2, <1>3, <1>4, <1>5 DEF Fits, FlightFits, Giving, Settling, Empty, AtHand
  <2>4. PolicyFits(r)'
    BY <1>1, <1>3 DEF Fits, PolicyFits, InFlight
  <2>5. LateFits(r)' /\ IdleFits(r)'
    BY <1>4 DEF LateFits, IdleFits, Giving
  <2>. QED BY <2>1, <2>2, <2>3, <2>4, <2>5 DEF Fits
<1>8. status \in {"running", "paused", "cancelled"}
  BY <1>1 DEF Fits, StatusFits
<1>. QED
  BY <1>1, <1>3, <1>4, <1>5, <1>6, <1>7, <1>8, LocalStep DEF Moves

\* A runtime that leaves has nothing in flight.
LEMMA LeaveKeeps ==
  ASSUME LooperAssumption, IInv, NEW r \in Runtimes, Leave(r)
  PROVE  IInv'
<1>1. /\ pc[r] = "leave" /\ Fits(r) /\ r = token /\ token # None
      /\ daemon # "down" /\ status # "absent"
      /\ \A s \in Subtasks : InHand(s) = inflight[r][s]
      /\ \A c \in Callers : call[c] \notin {"seed", "fill", "launch"}
  BY AtWorkIsToken DEF Leave
<1>2. /\ UNCHANGED <<status, shown, view, link, subtask, dispatch, exec, inflight, cursor,
                     call, callSeen, daemon, crashes, turns, late, wanted, filled>>
      /\ token' = None /\ stopped' = stopped \ {r}
      /\ mem' = [mem EXCEPT ![r] = Absent] /\ seen' = [seen EXCEPT ![r] = "pending"]
      /\ pc' = [pc EXCEPT ![r] = "off"]
  BY DEF Leave, durable, history, Goto
<1>3. inflight[r] = Idle /\ cursor[r] = None
  BY <1>1 DEF Fits, FlightFits, Empty, Giving, Settling
<1>4. Types'
  <2>1. Absent \in [Subtasks -> RowStatus] /\ "pending" \in RunStatus
    BY DEF Absent, RowStatus, RunStatus
  <2>. QED BY <1>2, <2>1 DEF IInv, Types, TypeOK
<1>5. TokenInv'
  BY <1>1, <1>2, <1>3 DEF IInv, Types, TokenInv, LooperAssumption, None
<1>6. CallInv' /\ RestInv'
  BY <1>1, <1>2 DEF IInv, CallInv, RestInv
<1>7. RuntimeInv'
  BY <1>2 DEF RuntimeInv, LooperAssumption, None
<1>8. \A s \in Subtasks : InHand(s)' = InHand(s)
  BY <1>1, <1>2, <1>3 DEF InHand, Idle
<1>9. WorkInv' /\ UnbegunInv' /\ DependsInv' /\ RepeatInv' /\ Loose' = Loose
  BY <1>2, <1>8, WorkStays
<1>10. LeftoverInv'
  <2>1. Dangling' \subseteq Dangling
    BY <1>1, <1>2 DEF Dangling
  <2>. QED BY <1>2, <1>9, <2>1, FewerLeft
<1>11. LateInv' /\ ScopeInv'
  BY <1>2 DEF IInv, Types, LateInv, ScopeInv
<1>. QED BY <1>4, <1>5, <1>6, <1>7, <1>9, <1>10, <1>11 DEF IInv

-----------------------------------------------------------------------------
(* Rows                                                                      *)

\* A row that is not completed is written.
LEMMA RowWritten ==
  ASSUME LooperAssumption, IInv, NEW s \in Subtasks, NEW st \in RowStatus \ {"absent"},
         SetRow(s, st), view[s] # "completed",
         UNCHANGED <<link, dispatch, exec, turns, crashes>>,
         \A t \in Subtasks : InHand(t)' = InHand(t),
         st = "pending" => link[s] = None,
         st \notin Terminal /\ InHand(s) = None => turns[s] <= crashes,
         view[s] = "running" => link[s] = None \/ link[s] = InHand(s)
  PROVE  /\ WorkInv' /\ UnbegunInv' /\ DependsInv' /\ RepeatInv' /\ Loose' \subseteq Loose
         /\ view' \in [Subtasks -> RowStatus] /\ view'[s] = st
         /\ \A t \in Subtasks \ {s} : view'[t] = view[t]
<1>1. /\ view' \in [Subtasks -> RowStatus] /\ view'[s] = st
      /\ \A t \in Subtasks \ {s} : view'[t] = view[t]
  BY DEF SetRow, IInv, Types, TypeOK
<1>2. \A d \in DOMAIN dispatch : d # None /\ dispatch[d].of \in Subtasks
  BY Numbered DEF IInv, DispatchRows
<1>3. WorkInv'
  BY <1>2 DEF IInv, WorkInv, Working
<1>4. UnbegunInv'
  BY <1>1 DEF IInv, UnbegunInv
<1>5. DependsInv'
  <2>1. \A t \in Subtasks : DependsOn[t] \subseteq Subtasks
    BY DEF LooperAssumption
  <2>. QED BY <1>1, <2>1 DEF IInv, DependsInv
<1>6. RepeatInv'
  BY <1>1 DEF IInv, RepeatInv
<1>7. Loose' \subseteq Loose
  BY <1>1, <1>2 DEF Loose, Open
<1>. QED BY <1>1, <1>3, <1>4, <1>5, <1>6, <1>7

\* The view is at hand, with no row running: the loop may begin.
LEMMA PreparedKeeps ==
  ASSUME LooperAssumption, IInv, NEW r \in Runtimes, pc[r] \in {"create", "repair"},
         Prepared(r), cursor' = [cursor EXCEPT ![r] = None],
         UNCHANGED <<status, subtask, exec, seen, inflight, control, history>>,
         \A s \in Subtasks : view[s] # "running"
  PROVE  IInv'
<1>1. Fits(r) /\ r = token
  BY AtWorkIsToken
<1>2. /\ UNCHANGED <<view, link, dispatch>>
      /\ mem' = [mem EXCEPT ![r] = view] /\ shown' = Projection(view)
      /\ Goto(r, "top")
  BY DEF Prepared, Sync
<1>3. /\ pc' \in [Runtimes -> AtWork \union {"off"}] /\ pc'[r] = "top"
      /\ \A q \in Runtimes \ {r} : pc'[q] = pc[q]
  BY <1>2, Went DEF AtWork
<1>4. /\ cursor' \in [Runtimes -> 0..N] /\ cursor'[r] = None
      /\ \A q \in Runtimes \ {r} : cursor'[q] = cursor[q]
  BY DEF IInv, Types, None, LooperAssumption
<1>5. mem' \in [Runtimes -> [Subtasks -> RowStatus]] /\ mem'[r] = view
  BY <1>2 DEF IInv, Types, TypeOK
<1>6. \A s \in Subtasks : inflight[r][s] = None
  BY <1>1 DEF Fits, FlightFits, Empty, Idle
<1>7. Types'
  <2>1. shown' \in [current : 0..N, completed : 0..N, failed : 0..N]
    BY <1>2, ProjectionFits DEF IInv, Types, TypeOK
  <2>. QED BY <1>2, <1>3, <1>4, <1>5, <2>1 DEF IInv, Types, TypeOK, control, history
<1>8. Fits(r)'
  <2>1. StatusFits(r)'
    BY <1>1, <1>2, <1>3 DEF Fits, StatusFits, Giving
  <2>2. ViewFits(r)'
    BY <1>2, <1>3, <1>5, <1>6 DEF ViewFits, Viewing, AtWork
  <2>3. FlightFits(r)'
    BY <1>2, <1>3, <1>4, <1>6 DEF FlightFits, Giving, Settling, Empty
  <2>4. PolicyFits(r)'
    BY <1>1, <1>2 DEF Fits, PolicyFits, InFlight
  <2>5. LateFits(r)' /\ IdleFits(r)'
    BY <1>3 DEF LateFits, IdleFits, Giving
  <2>. QED BY <2>1, <2>2, <2>3, <2>4, <2>5 DEF Fits
<1>9. status \in {"running", "paused", "cancelled"}
  BY <1>1 DEF Fits, StatusFits
<1>. QED
  BY <1>1, <1>2, <1>3, <1>4, <1>7, <1>8, <1>9, LocalStep DEF Moves

\* With the runtime at work nobody else adds a row, so no row is refused.
LEMMA CreateRowKeeps ==
  ASSUME LooperAssumption, IInv, NEW r \in Runtimes, CreateRow(r)
  PROVE  IInv'
<1>. DEFINE s == cursor[r] + 1
<1>1. /\ pc[r] = "create" /\ Fits(r) /\ r = token /\ status # "absent"
      /\ \A t \in Subtasks : InHand(t) = inflight[r][t]
      /\ UNCHANGED <<subtask, exec, seen, inflight, control, history>>
  BY AtWorkIsToken DEF CreateRow
<1>2. /\ \A t \in Subtasks : /\ mem[r][t] = InitialRow(subtask[t])
                             /\ view[t] = IF t <= cursor[r] THEN mem[r][t] ELSE "absent"
                             /\ inflight[r][t] = None
      /\ status \in {"running", "paused", "cancelled"}
  BY <1>1 DEF Fits, ViewFits, StatusFits, FlightFits, Empty, Idle
<1>3. cursor[r] \in 0..N /\ N \in Nat /\ Subtasks = 1..N
  BY DEF IInv, Types, LooperAssumption, Subtasks
<1>4. CASE cursor[r] = N
  <2>1. \A t \in Subtasks : view[t] # "running"
    BY <1>2, <1>3 DEF InitialRow, Terminal
  <2>2. /\ Prepared(r) /\ cursor' = [cursor EXCEPT ![r] = None]
        /\ UNCHANGED status
    BY <1>4 DEF CreateRow
  <2>. QED BY <1>1, <2>1, <2>2, PreparedKeeps
<1>5. CASE cursor[r] # N
  <2>1. s \in Subtasks /\ view[s] = "absent"
    BY <1>2, <1>3, <1>5
  <2>2. /\ SetRow(s, mem[r][s]) /\ cursor' = [cursor EXCEPT ![r] = s]
        /\ UNCHANGED <<status, shown, link, dispatch, pc, mem>>
    BY <1>5, <2>1 DEF CreateRow
  <2>3. /\ mem[r][s] \in RowStatus \ {"absent", "running"}
        /\ mem[r][s] \in Terminal => subtask[s] \in Terminal
    BY <1>2, <2>1 DEF InitialRow, RowStatus, Terminal
  <2>4. UNCHANGED <<token, crashes, turns, late, wanted, filled>>
    BY <1>1 DEF control, history
  <2>5. \A t \in Subtasks : InHand(t)' = InHand(t)
    BY <1>1, <2>4 DEF InHand
  <2>6. /\ WorkInv' /\ UnbegunInv' /\ DependsInv' /\ RepeatInv' /\ Loose' \subseteq Loose
        /\ view' \in [Subtasks -> RowStatus] /\ view'[s] = mem[r][s]
        /\ \A t \in Subtasks \ {s} : view'[t] = view[t]
    <3>1. "absent" \notin Terminal /\ "absent" # "completed" /\ "absent" # "running"
      BY DEF Terminal
    <3>2. link[s] = None /\ (InHand(s) = None => turns[s] <= crashes)
      BY <2>1, <3>1 DEF IInv, UnbegunInv, RepeatInv
    <3>. QED BY <1>1, <2>1, <2>2, <2>3, <2>4, <2>5, <3>1, <3>2, RowWritten
  <2>7. /\ cursor' \in [Runtimes -> 0..N] /\ cursor'[r] = s
        /\ \A q \in Runtimes \ {r} : cursor'[q] = cursor[q]
    BY <1>3, <2>1, <2>2 DEF IInv, Types
  <2>8. Types'
    BY <1>1, <2>2, <2>6, <2>7 DEF IInv, Types, TypeOK, control, history
  <2>9. Fits(r)'
    <3>1. StatusFits(r)'
      BY <1>1, <2>2 DEF Fits, StatusFits
    <3>2. ViewFits(r)'
      <4>1. \A t \in Subtasks : t <= s <=> t <= cursor[r] \/ t = s
        BY <1>3, <2>1
      <4>. QED BY <1>1, <1>2, <2>2, <2>6, <2>7, <4>1 DEF ViewFits, Viewing, AtWork
    <3>3. FlightFits(r)'
      BY <1>1, <1>2, <2>2 DEF Fits, FlightFits, Giving, Settling, Empty
    <3>4. PolicyFits(r)'
      BY <1>1 DEF Fits, PolicyFits, InFlight
    <3>5. LateFits(r)' /\ IdleFits(r)'
      BY <1>1, <2>2 DEF LateFits, IdleFits, Giving
    <3>. QED BY <3>1, <3>2, <3>3, <3>4, <3>5 DEF Fits
  <2>10. TokenInv' /\ CallInv' /\ RestInv' /\ RuntimeInv'
    <3>1. status' \notin {"absent", "completed", "failed"} /\ pc' = pc
      BY <1>2, <2>2
    <3>2. Moves(r)
      BY <1>1, <2>2, <2>7 DEF Moves
    <3>. QED BY <1>1, <2>9, <3>1, <3>2, RuntimeMoves
  <2>11. LeftoverInv'
    <3>1. Dangling' \subseteq Dangling
      <4>1. "in_progress" \notin Terminal
        BY DEF Terminal
      <4>2. \A t \in Subtasks : view'[t] \in Terminal /\ subtask[t] = "in_progress" => t # s
        BY <2>3, <2>6, <4>1
      <4>. QED BY <1>1, <2>2, <2>4, <2>6, <4>2 DEF Dangling
    <3>. QED BY <2>4, <2>6, <3>1, FewerLeft
  <2>12. LateInv'
    BY <2>2, <2>4 DEF IInv, LateInv
  <2>13. ScopeInv'
    <3>1. filled = {}
      BY <1>1 DEF IInv, ScopeInv
    <3>. QED BY <2>4, <3>1 DEF ScopeInv
  <2>. QED BY <2>6, <2>8, <2>10, <2>11, <2>12, <2>13 DEF IInv
<1>. QED BY <1>4, <1>5

\* A repair leaves no open dispatch of the row that it sets back.
LEMMA RepairRowKeeps ==
  ASSUME LooperAssumption, IInv, NEW r \in Runtimes, RepairRow(r)
  PROVE  IInv'
<1>. DEFINE broken == {t \in Subtasks : mem[r][t] = "running"}
            s == Min(broken)
<1>1. /\ pc[r] = "repair" /\ Fits(r) /\ r = token /\ status # "absent"
      /\ \A t \in Subtasks : InHand(t) = inflight[r][t]
      /\ UNCHANGED <<status, subtask, exec, seen, inflight, cursor, control, history>>
  BY AtWorkIsToken DEF RepairRow
<1>2. /\ \A t \in Subtasks : mem[r][t] = view[t] /\ inflight[r][t] = None
      /\ status \in {"running", "paused", "cancelled"} /\ cursor[r] = None
  BY <1>1 DEF Fits, ViewFits, StatusFits, FlightFits, Empty, Idle, Giving, Settling, Viewing, AtWork
<1>3. CASE broken = {}
  <2>1. \A t \in Subtasks : view[t] # "running"
    BY <1>2, <1>3
  <2>2. Prepared(r)
    BY <1>3 DEF RepairRow
  <2>3. cursor' = [cursor EXCEPT ![r] = None]
    BY <1>1, <1>2 DEF IInv, Types
  <2>. QED BY <1>1, <2>1, <2>2, <2>3, PreparedKeeps
<1>4. CASE broken # {}
  <2>1. s \in Subtasks /\ view[s] = "running"
    <3>1. broken \in SUBSET Nat
      BY Finite
    <3>. QED BY <1>2, <1>4, <3>1, First
  <2>2. /\ SetRow(s, "pending")
        /\ link' = [link EXCEPT ![s] = None]
        /\ dispatch' = IF link[s] # None /\ Open(link[s])
                       THEN [dispatch EXCEPT ![link[s]].status = "failed"] ELSE dispatch
        /\ mem' = [mem EXCEPT ![r][s] = "pending"]
        /\ UNCHANGED <<shown, pc>>
    BY <1>4 DEF RepairRow
  <2>3. UNCHANGED <<token, crashes, turns, late, wanted, filled>>
    BY <1>1 DEF control, history
  <2>4. /\ view' \in [Subtasks -> RowStatus] /\ view'[s] = "pending"
        /\ link' \in [Subtasks -> 0..Len(dispatch)] /\ link'[s] = None
        /\ \A t \in Subtasks \ {s} : view'[t] = view[t] /\ link'[t] = link[t]
    <3>1. view \in [Subtasks -> RowStatus] /\ "pending" \in RowStatus
      BY DEF IInv, Types, TypeOK, RowStatus
    <3>2. link \in [Subtasks -> 0..Len(dispatch)] /\ None \in 0..Len(dispatch)
      BY Numbered DEF IInv, Types, TypeOK, None
    <3>. QED BY <2>1, <2>2, <3>1, <3>2 DEF SetRow
  <2>5. /\ dispatch' \in Seq(DispatchRows)
        /\ Len(dispatch') = Len(dispatch) /\ DOMAIN dispatch' = DOMAIN dispatch
        /\ \A e \in DOMAIN dispatch :
             /\ dispatch[e].of \in Subtasks /\ dispatch'[e].of = dispatch[e].of
             /\ dispatch'[e].status = IF e = link[s] /\ Open(e) THEN "failed" ELSE dispatch[e].status
    <3>1. link[s] # None => link[s] \in DOMAIN dispatch
      BY <2>1, Numbered DEF IInv, Types, TypeOK, None
    <3>2. CASE link[s] # None /\ Open(link[s])
      <4>1. dispatch' = [dispatch EXCEPT ![link[s]].status = "failed"]
        BY <2>2, <3>2
      <4>2. "failed" \in Terminal \union {"pending", "running"}
        BY DEF Terminal
      <4>3. /\ dispatch' \in Seq(DispatchRows)
            /\ Len(dispatch') = Len(dispatch) /\ DOMAIN dispatch' = DOMAIN dispatch
            /\ \A e \in DOMAIN dispatch :
                 /\ dispatch[e].of \in Subtasks /\ dispatch'[e].of = dispatch[e].of
                 /\ dispatch'[e].status = IF e = link[s] THEN "failed" ELSE dispatch[e].status
        BY <3>1, <3>2, <4>1, <4>2, DispatchSet DEF IInv
      <4>. QED BY <3>2, <4>3
    <3>3. CASE ~(link[s] # None /\ Open(link[s]))
      <4>1. None \notin DOMAIN dispatch
        BY Numbered DEF IInv
      <4>. QED BY <2>2, <3>3, <4>1, Numbered DEF IInv, Types, DispatchRows
    <3>. QED BY <3>2, <3>3
  <2>6. \A t \in Subtasks : InHand(t)' = InHand(t) /\ InHand(t) = None
    BY <1>1, <1>2, <2>3 DEF InHand
  <2>7. Types'
    <3>1. mem' \in [Runtimes -> [Subtasks -> RowStatus]]
      BY <2>1, <2>2 DEF IInv, Types, TypeOK, RowStatus
    <3>. QED BY <1>1, <2>2, <2>4, <2>5, <3>1 DEF IInv, Types, TypeOK, control, history
  <2>8. Fits(r)'
    <3>1. StatusFits(r)'
      BY <1>1, <2>2 DEF Fits, StatusFits
    <3>2. ViewFits(r)'
      <4>1. mem'[r][s] = "pending" /\ \A t \in Subtasks \ {s} : mem'[r][t] = mem[r][t]
        BY <2>1, <2>2 DEF IInv, Types, TypeOK
      <4>2. \A t \in Subtasks : mem'[r][t] = view'[t]
        BY <1>2, <2>4, <4>1
      <4>3. pc'[r] = "repair"
        BY <1>1, <2>2
      <4>. QED BY <4>2, <4>3 DEF ViewFits
    <3>3. FlightFits(r)'
      BY <1>1, <1>2, <2>2 DEF Fits, FlightFits, Giving, Settling, Empty
    <3>4. PolicyFits(r)'
      BY <1>1 DEF Fits, PolicyFits, InFlight
    <3>5. LateFits(r)' /\ IdleFits(r)'
      BY <1>1, <2>2 DEF LateFits, IdleFits, Giving
    <3>. QED BY <3>1, <3>2, <3>3, <3>4, <3>5 DEF Fits
  <2>9. TokenInv' /\ CallInv' /\ RestInv' /\ RuntimeInv'
    <3>1. status' \notin {"absent", "completed", "failed"} /\ pc' = pc
      BY <1>1, <1>2, <2>2
    <3>2. Moves(r)
      BY <1>1, <2>2 DEF Moves
    <3>. QED BY <1>1, <2>8, <3>1, <3>2, RuntimeMoves
  <2>10. WorkInv'
    <3> SUFFICES ASSUME NEW e \in DOMAIN dispatch
                 PROVE  /\ e \in Working => InHand(dispatch[e].of)' = e
                        /\ exec[e] = "ok" => dispatch'[e].status = "completed"
      BY <1>1, <2>5 DEF WorkInv, Working, InHand
    <3>1. dispatch[e].of \in Subtasks /\ InHand(dispatch[e].of)' = InHand(dispatch[e].of)
      BY <2>5, <2>6
    <3>2. exec[e] = "ok" => dispatch[e].status = "completed" /\ ~Open(e)
      BY DEF IInv, WorkInv, Open
    <3>. QED BY <2>5, <3>1, <3>2 DEF IInv, WorkInv
  <2>11. UnbegunInv'
    BY <2>3, <2>4 DEF IInv, UnbegunInv
  <2>12. DependsInv'
    <3>1. \A t \in Subtasks : DependsOn[t] \subseteq Subtasks
      BY DEF LooperAssumption
    <3>. QED BY <2>1, <2>3, <2>4, <2>6, <3>1 DEF IInv, DependsInv
  <2>13. RepeatInv'
    BY <1>1, <2>1, <2>3, <2>4, <2>6 DEF IInv, RepeatInv, Terminal
  <2>14. LeftoverInv'
    <3>1. Loose' \subseteq Loose
      <4>1. \A d \in DOMAIN dispatch : d # None
        BY Numbered DEF IInv
      <4>2. SUFFICES ASSUME NEW e \in Loose' PROVE e \in Loose
        OBVIOUS
      <4>3. e \in DOMAIN dispatch /\ Open(e)' /\ dispatch'[e].of = dispatch[e].of
        BY <2>5 DEF Loose
      <4>4. Open(e) /\ e # link[s]
        BY <2>5, <4>3 DEF Open
      <4>5. InHand(dispatch[e].of) # e
        BY <2>5, <2>6, <4>3 DEF Loose
      <4>6. ~(view[dispatch[e].of] = "running" /\ link[dispatch[e].of] = e)
        BY <2>4, <2>5, <4>3, <4>4 DEF Loose
      <4>. QED BY <4>3, <4>4, <4>5, <4>6 DEF Loose
    <3>2. Dangling' \subseteq Dangling
      <4>1. "pending" \notin Terminal
        BY DEF Terminal
      <4>. QED BY <1>1, <2>2, <2>3, <2>4, <4>1 DEF Dangling
    <3>. QED BY <2>3, <3>1, <3>2, FewerLeft
  <2>15. LateInv'
    BY <1>1, <2>3 DEF IInv, LateInv
  <2>16. ScopeInv'
    <3>1. \A t \in Subtasks : view'[t] # "absent" => view[t] # "absent"
      BY <2>1, <2>4
    <3>2. \A t \in filled : view'[t] # "absent"
      BY <2>4 DEF IInv, Types, ScopeInv
    <3>. QED BY <2>2, <2>3, <3>1, <3>2 DEF IInv, ScopeInv
  <2>. QED BY <2>7, <2>9, <2>10, <2>11, <2>12, <2>13, <2>14, <2>15, <2>16 DEF IInv
<1>. QED BY <1>3, <1>4

-----------------------------------------------------------------------------
(* Giving out a subtask                                                      *)

\* What is selected is ready, not in flight, and there is room for it; nothing is
\* selected beside nothing only when no subtask is ready.
LEMMA SelectedFits ==
  ASSUME LooperAssumption, NEW r \in Runtimes
  PROVE  /\ Selected(r) # None =>
              /\ Selected(r) \in Subtasks \ InFlight(r)
              /\ Ready(mem[r], Selected(r))
              /\ Cardinality(InFlight(r)) < MaxParallel
              /\ InFlight(r) \subseteq Parallelizable
              /\ Selected(r) \in Parallelizable \/ InFlight(r) = {}
         /\ Selected(r) = None /\ InFlight(r) = {} => \A s \in Subtasks : ~Ready(mem[r], s)
<1>. DEFINE ready == {s \in Subtasks \ InFlight(r) : Ready(mem[r], s)}
<1>1. ready # {} => Min(ready) \in ready
  <2>1. ready \in SUBSET Nat
    BY Finite
  <2>. QED BY <2>1, First
<1>2. Cardinality(InFlight(r)) \in Nat /\ MaxParallel \in Nat \ {0} /\ None \notin Subtasks
  BY Finite DEF InFlight, LooperAssumption
<1>3. ASSUME Selected(r) # None
      PROVE  /\ Cardinality(InFlight(r)) < MaxParallel
             /\ InFlight(r) \subseteq Parallelizable
             /\ ready # {} /\ Selected(r) = Min(ready)
             /\ Selected(r) \in Parallelizable \/ InFlight(r) = {}
  BY <1>2, <1>3 DEF Selected
<1>4. ASSUME Selected(r) = None, InFlight(r) = {} PROVE ready = {}
  <2>1. Cardinality(InFlight(r)) = 0
    BY <1>4, FS_EmptySet
  <2>2. ready # {} => Min(ready) # None
    BY <1>1, <1>2
  <2>. QED BY <1>2, <1>4, <2>1, <2>2 DEF Selected
<1>5. ASSUME Selected(r) # None
      PROVE  Selected(r) \in Subtasks \ InFlight(r) /\ Ready(mem[r], Selected(r))
  BY <1>1, <1>3, <1>5
<1>6. ASSUME Selected(r) = None, InFlight(r) = {} PROVE \A s \in Subtasks : ~Ready(mem[r], s)
  BY <1>4, <1>6
<1>. QED BY <1>3, <1>5, <1>6

\* A dispatch is added to the others.
LEMMA DispatchAdded ==
  ASSUME Types, NEW s \in Subtasks,
         dispatch' = Append(dispatch, [of |-> s, status |-> "pending"]),
         exec' = Append(exec, "none")
  PROVE  LET n == Len(dispatch) + 1
         IN  /\ Len(dispatch') = n /\ Len(exec') = n
             /\ dispatch' \in Seq(DispatchRows) /\ exec' \in Seq(ExecSteps)
             /\ n \in Nat \ {0} /\ n \notin DOMAIN dispatch
             /\ DOMAIN dispatch' = DOMAIN dispatch \union {n}
             /\ DOMAIN exec' = DOMAIN dispatch \union {n}
             /\ dispatch'[n].of = s /\ exec'[n] = "none"
             /\ \A e \in DOMAIN dispatch : /\ dispatch[e].of \in Subtasks
                                           /\ dispatch'[e] = dispatch[e] /\ exec'[e] = exec[e]
<1>1. [of |-> s, status |-> "pending"] \in DispatchRows /\ "none" \in ExecSteps
  BY DEF DispatchRows, ExecSteps
<1>2. /\ dispatch \in Seq(DispatchRows) /\ exec \in Seq(ExecSteps) /\ Len(dispatch) = Len(exec)
  BY DEF Types, TypeOK
<1>3. \A e \in DOMAIN dispatch : dispatch[e].of \in Subtasks
  BY Numbered DEF DispatchRows
<1>. QED BY <1>1, <1>2, <1>3

LEMMA SelectKeeps ==
  ASSUME LooperAssumption, IInv, NEW r \in Runtimes, Select(r)
  PROVE  IInv'
<1>. DEFINE n == Len(dispatch) + 1
<1>1. /\ pc[r] = "select" /\ Fits(r) /\ r = token /\ status # "absent"
      /\ \A t \in Subtasks : InHand(t) = inflight[r][t]
      /\ UNCHANGED <<status, shown, view, link, subtask, mem, seen, control, turns, wanted, filled>>
  BY AtWorkIsToken DEF Select
<1>2. CASE Selected(r) = None
  <2>1. /\ Goto(r, WaitOrStop(r))
        /\ UNCHANGED <<dispatch, exec, inflight, cursor, late>>
    BY <1>2 DEF Select
  <2>2. InFlight(r) = {} => \A t \in Subtasks : ~Ready(mem[r], t)
    BY <1>2, SelectedFits
  <2>. QED BY <1>1, <2>1, <2>2, Stops DEF durable, history
<1>3. CASE Selected(r) # None
  <2>0. PICK s \in Subtasks : s = Selected(r) /\ s # None
    BY <1>3, SelectedFits
  <2>1. /\ Len(dispatch) < MaxDispatches
        /\ dispatch' = Append(dispatch, [of |-> s, status |-> "pending"])
        /\ exec' = Append(exec, "none")
        /\ inflight' = [inflight EXCEPT ![r][s] = Len(dispatch')]
        /\ cursor' = [cursor EXCEPT ![r] = s]
        /\ late' = late + (IF status = "cancelled" THEN 1 ELSE 0)
        /\ Goto(r, "mark")
    BY <2>0 DEF Select
  <2>2. /\ s \in Subtasks \ InFlight(r) /\ Ready(mem[r], s)
        /\ Cardinality(InFlight(r)) < MaxParallel
        /\ InFlight(r) \subseteq Parallelizable
        /\ s \in Parallelizable \/ InFlight(r) = {}
    BY <2>0, SelectedFits
  <2>3. /\ Len(dispatch') = n /\ Len(exec') = n
        /\ dispatch' \in Seq(DispatchRows) /\ exec' \in Seq(ExecSteps)
        /\ n \in Nat \ {0} /\ n \notin DOMAIN dispatch
        /\ DOMAIN dispatch' = DOMAIN dispatch \union {n}
        /\ DOMAIN exec' = DOMAIN dispatch \union {n}
        /\ dispatch'[n].of = s /\ exec'[n] = "none"
        /\ \A e \in DOMAIN dispatch : /\ dispatch[e].of \in Subtasks
                                      /\ dispatch'[e] = dispatch[e] /\ exec'[e] = exec[e]
    BY <2>1, <2>2, DispatchAdded DEF IInv
  <2>4. /\ pc' \in [Runtimes -> AtWork \union {"off"}] /\ pc'[r] = "mark"
        /\ \A q \in Runtimes \ {r} : pc'[q] = pc[q]
    BY <2>1, Went DEF AtWork
  <2>5. /\ inflight'[r][s] = n
        /\ \A t \in Subtasks \ {s} : inflight'[r][t] = inflight[r][t]
        /\ \A q \in Runtimes \ {r} : inflight'[q] = inflight[q]
        /\ inflight' \in [Runtimes -> [Subtasks -> 0..n]]
    <3>0. inflight \in [Runtimes -> [Subtasks -> 0..Len(dispatch)]] /\ Len(dispatch) \in Nat
      BY Numbered DEF IInv, Types, TypeOK
    <3>1. inflight \in [Runtimes -> [Subtasks -> 0..Len(dispatch)]] /\ 0..Len(dispatch) \subseteq 0..n
          /\ n \in 0..n
      BY <3>0
    <3>2. inflight' = [inflight EXCEPT ![r] = [inflight[r] EXCEPT ![s] = n]]
      BY <2>1, <2>3, <3>1
    <3>3. [inflight[r] EXCEPT ![s] = n] \in [Subtasks -> 0..n]
      BY <2>2, <3>1
    <3>. QED BY <2>2, <3>1, <3>2, <3>3
  <2>6. /\ cursor' \in [Runtimes -> 0..N] /\ cursor'[r] = s
        /\ \A q \in Runtimes \ {r} : cursor'[q] = cursor[q]
    BY <2>1, <2>2 DEF Subtasks, IInv, Types, LooperAssumption
  <2>7. UNCHANGED <<token, crashes, turns, wanted, filled>>
    BY <1>1 DEF control
  <2>8. \A t \in Subtasks : InHand(t)' = inflight'[r][t]
    BY <1>1, <2>7, AtWorkIsToken DEF InHand
  <2>9. /\ InHand(s) = None /\ InHand(s)' = n
        /\ \A t \in Subtasks \ {s} : InHand(t)' = InHand(t)
    BY <1>1, <2>2, <2>5, <2>8 DEF InFlight
  <2>10. /\ \A t \in Subtasks : mem[r][t] = view[t]
         /\ view[s] = "pending" /\ \A t \in DependsOn[s] : view[t] = "completed"
         /\ link[s] = None /\ turns[s] <= crashes
         /\ seen[r] = "running"
    <3>1. \A t \in Subtasks : mem[r][t] = view[t]
      BY <1>1 DEF Fits, ViewFits, Viewing, AtWork
    <3>2. view[s] = "pending" /\ \A t \in DependsOn[s] : view[t] = "completed"
      BY <2>2, <3>1 DEF Ready, LooperAssumption
    <3>3. link[s] = None /\ turns[s] <= crashes
      BY <2>2, <2>9, <3>2 DEF IInv, UnbegunInv, RepeatInv, Terminal
    <3>. QED BY <1>1, <3>1, <3>2, <3>3 DEF Fits, StatusFits
  <2>11. /\ InFlight(r)' = InFlight(r) \union {s} /\ IsFiniteSet(InFlight(r))
         /\ Cardinality(InFlight(r)') = Cardinality(InFlight(r)) + 1
         /\ Cardinality(InFlight(r)) \in Nat
    <3>1. IsFiniteSet(InFlight(r)) /\ Cardinality(InFlight(r)) \in Nat
      BY Finite DEF InFlight
    <3>2. InFlight(r)' = InFlight(r) \union {s}
      BY <2>2, <2>3, <2>5 DEF InFlight, None
    <3>. QED BY <2>2, <3>1, <3>2, FS_AddElement
  <2>12. /\ late \in Nat /\ late <= Cardinality(InFlight(r))
         /\ late' \in Nat /\ late' <= late + 1 /\ (late' > 0 => late > 0 \/ status = "cancelled")
    <3>1. late \in Nat
      BY DEF IInv, Types
    <3>2. late <= Cardinality(InFlight(r))
      BY <1>1, <2>10 DEF Fits, LateFits
    <3>3. (late' = late + 1 /\ status = "cancelled") \/ late' = late
      BY <2>1, <3>1
    <3>. QED BY <3>1, <3>2, <3>3
  <2>13. Types'
    <3>1. link \in [Subtasks -> 0..n]
      <4>1. 0..Len(dispatch) \subseteq 0..n
        BY <2>3, Numbered DEF IInv
      <4>. QED BY <4>1 DEF IInv, Types, TypeOK
    <3>2. n <= MaxDispatches
      BY <2>1, Numbered DEF IInv, LooperAssumption
    <3>. QED
      BY <1>1, <2>3, <2>4, <2>5, <2>6, <2>12, <3>1, <3>2 DEF IInv, Types, TypeOK, control
  <2>14. Fits(r)'
    <3>1. StatusFits(r)'
      BY <1>1, <2>4 DEF Fits, StatusFits, Giving
    <3>2. ViewFits(r)'
      BY <1>1, <2>3, <2>4, <2>5, <2>6, <2>10 DEF Fits, ViewFits, Viewing, AtWork
    <3>3. FlightFits(r)'
      <4>1. \A t \in Subtasks \ {s} : inflight[r][t] # None =>
              /\ inflight[r][t] \in DOMAIN dispatch /\ dispatch[inflight[r][t]].of = t
              /\ exec[inflight[r][t]] # "none" /\ link[t] = inflight[r][t]
        BY <1>1 DEF Fits, FlightFits, Giving
      <4>2. \A t \in Subtasks \ {s} : inflight'[r][t] # None =>
              /\ inflight'[r][t] \in DOMAIN dispatch' /\ dispatch'[inflight'[r][t]].of = t
              /\ exec'[inflight'[r][t]] # "none" /\ link[t] = inflight'[r][t]
        BY <2>3, <2>5, <4>1
      <4>. QED
        BY <1>1, <2>2, <2>3, <2>4, <2>5, <2>6, <2>10, <4>2
           DEF FlightFits, Giving, Settling, Empty, None
    <3>4. PolicyFits(r)'
      <4>1. Cardinality(InFlight(r)') <= MaxParallel
        BY <2>2, <2>11 DEF LooperAssumption
      <4>. QED BY <2>2, <2>11, <4>1 DEF PolicyFits
    <3>5. LateFits(r)'
      BY <2>11, <2>12 DEF LateFits
    <3>6. IdleFits(r)'
      BY <2>4 DEF IdleFits
    <3>. QED BY <3>1, <3>2, <3>3, <3>4, <3>5, <3>6 DEF Fits
  <2>15. TokenInv' /\ CallInv' /\ RestInv' /\ RuntimeInv'
    <3>1. status' \notin {"absent", "completed", "failed"}
      BY <1>1 DEF Fits, StatusFits
    <3>2. Moves(r)
      BY <1>1, <2>4, <2>5, <2>6 DEF Moves
    <3>. QED BY <1>1, <2>4, <2>14, <3>1, <3>2, RuntimeMoves
  <2>16. WorkInv'
    <3>. SUFFICES ASSUME NEW d \in DOMAIN dispatch'
                  PROVE  /\ d \in Working' => InHand(dispatch[d].of)' = d
                         /\ exec'[d] = "ok" => dispatch'[d].status = "completed"
      BY DEF WorkInv
    <3>1. CASE d = n
      BY <2>3, <3>1 DEF Working
    <3>2. CASE d \in DOMAIN dispatch
      <4>1. /\ d \in Working' <=> d \in Working
            /\ dispatch'[d] = dispatch[d] /\ exec'[d] = exec[d] /\ dispatch[d].of \in Subtasks
            /\ d # None
        BY <2>3, <3>2, Numbered DEF Working, IInv
      <4>. QED BY <2>9, <3>2, <4>1 DEF IInv, WorkInv
    <3>. QED BY <2>3, <3>1, <3>2
  <2>17. UnbegunInv'
    BY <1>1 DEF IInv, UnbegunInv
  <2>18. DependsInv'
    BY <1>1, <2>9, <2>10 DEF IInv, DependsInv
  <2>19. RepeatInv'
    <3>1. \A t \in Subtasks \ {s} : InHand(t) # None => exec'[InHand(t)] = exec[InHand(t)]
      BY <1>1, <2>3 DEF Fits, FlightFits
    <3>2. n # None
      BY <2>3 DEF None
    <3>. QED BY <1>1, <2>3, <2>7, <2>9, <2>10, <3>1, <3>2 DEF IInv, RepeatInv
  <2>20. LeftoverInv'
    <3>1. Loose' \subseteq Loose
      <4>1. \A d \in DOMAIN dispatch : d # None
        BY Numbered DEF IInv
      <4>. QED BY <1>1, <2>3, <2>9, <4>1 DEF Loose, Open
    <3>2. Dangling' \subseteq Dangling
      BY <1>1, <2>7 DEF Dangling
    <3>. QED BY <2>7, <3>1, <3>2, FewerLeft
  <2>21. LateInv'
    BY <1>1, <2>2, <2>11, <2>12 DEF IInv, LateInv, Terminal, LooperAssumption
  <2>22. ScopeInv'
    BY <1>1, <2>4 DEF IInv, ScopeInv
  <2>. QED
    BY <2>13, <2>15, <2>16, <2>17, <2>18, <2>19, <2>20, <2>21, <2>22 DEF IInv
<1>. QED BY <1>2, <1>3

\* What is known of the subtask at hand.
LEMMA HandFits ==
  ASSUME LooperAssumption, IInv, NEW r \in Runtimes, pc[r] \in Giving \union Settling
  PROVE  /\ Fits(r) /\ r = token /\ status \in {"running", "paused", "cancelled"}
         /\ cursor[r] \in Subtasks
         /\ AtHand(r) = inflight[r][cursor[r]] /\ AtHand(r) # None
         /\ AtHand(r) \in DOMAIN dispatch /\ AtHand(r) \in DOMAIN exec
         /\ dispatch[AtHand(r)].of = cursor[r]
         /\ \A t \in Subtasks : InHand(t) = inflight[r][t]
<1>1. /\ Fits(r) /\ r = token
      /\ \A t \in Subtasks : InHand(t) = inflight[r][t]
  BY AtWorkIsToken DEF Giving, Settling
<1>2. cursor[r] \in Subtasks /\ AtHand(r) = inflight[r][cursor[r]] /\ AtHand(r) # None
      /\ status \in {"running", "paused", "cancelled"}
  BY <1>1 DEF Fits, FlightFits, StatusFits, AtHand, Giving, Settling
<1>3. AtHand(r) \in DOMAIN dispatch /\ dispatch[AtHand(r)].of = cursor[r]
  BY <1>1, <1>2 DEF Fits, FlightFits
<1>. QED BY <1>1, <1>2, <1>3, Numbered DEF IInv

LEMMA MarkRunningKeeps ==
  ASSUME LooperAssumption, IInv, NEW r \in Runtimes, MarkRunning(r)
  PROVE  IInv'
<1>1. PICK s \in Subtasks :
        /\ s = cursor[r] /\ inflight[r][s] # None
        /\ pc[r] = "mark" /\ Fits(r) /\ r = token /\ status \in {"running", "paused", "cancelled"}
        /\ \A t \in Subtasks : InHand(t) = inflight[r][t]
  BY HandFits DEF MarkRunning, Giving
<1>2. /\ UNCHANGED <<status, shown, link, subtask, dispatch, exec, seen, inflight, cursor, control,
                     history>>
      /\ SetRow(s, "running")
      /\ mem' = [mem EXCEPT ![r][s] = "running"]
      /\ Goto(r, "link")
  BY <1>1 DEF MarkRunning
<1>3. /\ pc' \in [Runtimes -> AtWork \union {"off"}] /\ pc'[r] = "link"
      /\ \A q \in Runtimes \ {r} : pc'[q] = pc[q]
  BY <1>2, Went DEF AtWork
<1>4. view[s] = "pending" /\ link[s] = None
  BY <1>1 DEF Fits, FlightFits
<1>5. UNCHANGED <<token, crashes, turns, late, wanted, filled>>
  BY <1>2 DEF control, history
<1>6. \A t \in Subtasks : InHand(t)' = InHand(t)
  BY <1>1, <1>2, <1>5 DEF InHand
<1>7. /\ WorkInv' /\ UnbegunInv' /\ DependsInv' /\ RepeatInv' /\ Loose' \subseteq Loose
      /\ view' \in [Subtasks -> RowStatus] /\ view'[s] = "running"
      /\ \A t \in Subtasks \ {s} : view'[t] = view[t]
  <2>1. "running" \in RowStatus \ {"absent"}
    BY DEF RowStatus
  <2>. QED BY <1>1, <1>2, <1>4, <1>5, <1>6, <2>1, RowWritten
<1>8. /\ mem' \in [Runtimes -> [Subtasks -> RowStatus]] /\ mem'[r][s] = "running"
      /\ \A t \in Subtasks \ {s} : mem'[r][t] = mem[r][t]
  BY <1>2 DEF IInv, Types, TypeOK, RowStatus
<1>9. Types'
  BY <1>2, <1>3, <1>7, <1>8 DEF IInv, Types, TypeOK, control, history
<1>10. Fits(r)'
  <2>1. StatusFits(r)'
    BY <1>1, <1>2, <1>3 DEF Fits, StatusFits, Giving
  <2>2. ViewFits(r)'
    BY <1>1, <1>2, <1>3, <1>7, <1>8 DEF Fits, ViewFits, Viewing, AtWork
  <2>3. FlightFits(r)'
    BY <1>1, <1>2, <1>3 DEF Fits, FlightFits, Giving, Settling, Empty
  <2>4. PolicyFits(r)'
    BY <1>1, <1>2 DEF Fits, PolicyFits, InFlight
  <2>5. LateFits(r)' /\ IdleFits(r)'
    BY <1>1, <1>2, <1>3, <1>5 DEF Fits, LateFits, IdleFits, Giving, InFlight
  <2>. QED BY <2>1, <2>2, <2>3, <2>4, <2>5 DEF Fits
<1>11. TokenInv' /\ CallInv' /\ RestInv' /\ RuntimeInv'
  <2>1. status' \notin {"absent", "completed", "failed"} /\ Moves(r)
    BY <1>1, <1>2, <1>3 DEF Moves
  <2>. QED BY <1>1, <1>3, <1>10, <2>1, RuntimeMoves
<1>12. LeftoverInv'
  <2>1. Dangling' \subseteq Dangling
    <3>1. "running" \notin Terminal
      BY DEF Terminal
    <3>. QED BY <1>1, <1>2, <1>5, <1>7, <3>1 DEF Dangling
  <2>. QED BY <1>5, <1>7, <2>1, FewerLeft
<1>13. LateInv'
  BY <1>2, <1>5 DEF IInv, LateInv
<1>14. ScopeInv'
  BY <1>3, <1>4, <1>5, <1>7 DEF IInv, Types, ScopeInv
<1>. QED BY <1>7, <1>9, <1>11, <1>12, <1>13, <1>14 DEF IInv

LEMMA SetDispatchKeeps ==
  ASSUME LooperAssumption, IInv, NEW r \in Runtimes, SetDispatch(r)
  PROVE  IInv'
<1>1. PICK s \in Subtasks :
        /\ s = cursor[r] /\ AtHand(r) = inflight[r][s] /\ inflight[r][s] # None
        /\ AtHand(r) \in DOMAIN dispatch /\ dispatch[AtHand(r)].of = s
        /\ pc[r] = "link" /\ Fits(r) /\ r = token /\ status \in {"running", "paused", "cancelled"}
        /\ \A t \in Subtasks : InHand(t) = inflight[r][t]
  BY HandFits DEF SetDispatch, Giving
<1>2. /\ UNCHANGED <<status, shown, view, subtask, dispatch, exec, mem, seen, inflight, cursor,
                     control, history>>
      /\ link' = [link EXCEPT ![s] = inflight[r][s]]
      /\ Goto(r, "begin")
  BY <1>1 DEF SetDispatch
<1>3. /\ pc' \in [Runtimes -> AtWork \union {"off"}] /\ pc'[r] = "begin"
      /\ \A q \in Runtimes \ {r} : pc'[q] = pc[q]
  BY <1>2, Went DEF AtWork
<1>4. view[s] = "running" /\ link[s] = None
  BY <1>1 DEF Fits, FlightFits, ViewFits
<1>5. UNCHANGED <<token, crashes, turns, late, wanted, filled>>
  BY <1>2 DEF control, history
<1>6. \A t \in Subtasks : InHand(t)' = InHand(t)
  BY <1>1, <1>2, <1>5 DEF InHand
<1>7. /\ link' \in [Subtasks -> 0..Len(dispatch)] /\ link'[s] = inflight[r][s]
      /\ \A t \in Subtasks \ {s} : link'[t] = link[t]
  BY <1>2 DEF IInv, Types, TypeOK
<1>8. Types'
  BY <1>2, <1>3, <1>7 DEF IInv, Types, TypeOK, control, history
<1>9. Fits(r)'
  <2>1. StatusFits(r)'
    BY <1>1, <1>2, <1>3 DEF Fits, StatusFits, Giving
  <2>2. ViewFits(r)'
    BY <1>1, <1>2, <1>3 DEF Fits, ViewFits, Viewing, AtWork
  <2>3. FlightFits(r)'
    BY <1>1, <1>2, <1>3, <1>7 DEF Fits, FlightFits, Giving, Settling, Empty
  <2>4. PolicyFits(r)'
    BY <1>1, <1>2 DEF Fits, PolicyFits, InFlight
  <2>5. LateFits(r)' /\ IdleFits(r)'
    BY <1>1, <1>2, <1>3, <1>5 DEF Fits, LateFits, IdleFits, Giving, InFlight
  <2>. QED BY <2>1, <2>2, <2>3, <2>4, <2>5 DEF Fits
<1>10. TokenInv' /\ CallInv' /\ RestInv' /\ RuntimeInv'
  <2>1. status' \notin {"absent", "completed", "failed"} /\ Moves(r)
    BY <1>1, <1>2, <1>3 DEF Moves
  <2>. QED BY <1>1, <1>3, <1>9, <2>1, RuntimeMoves
<1>11. \A d \in DOMAIN dispatch : d # None /\ dispatch[d].of \in Subtasks
  BY Numbered DEF IInv, DispatchRows
<1>12. WorkInv'
  BY <1>2, <1>6, <1>11 DEF IInv, WorkInv, Working
<1>13. UnbegunInv'
  BY <1>2, <1>4, <1>5, <1>7 DEF IInv, UnbegunInv
<1>14. DependsInv' /\ RepeatInv'
  BY <1>2, <1>5, <1>6 DEF IInv, DependsInv, RepeatInv
<1>15. LeftoverInv'
  <2>1. Loose' \subseteq Loose
    BY <1>2, <1>4, <1>6, <1>7, <1>11 DEF Loose, Open
  <2>2. Dangling' \subseteq Dangling
    BY <1>1, <1>2, <1>5 DEF Dangling
  <2>. QED BY <1>5, <2>1, <2>2, FewerLeft
<1>16. LateInv'
  BY <1>2, <1>5 DEF IInv, LateInv
<1>17. ScopeInv'
  BY <1>2, <1>3, <1>5 DEF IInv, ScopeInv
<1>. QED BY <1>8, <1>10, <1>12, <1>13, <1>14, <1>15, <1>16, <1>17 DEF IInv

LEMMA BeginKeeps ==
  ASSUME LooperAssumption, IInv, NEW r \in Runtimes, Begin(r)
  PROVE  IInv'
<1>1. PICK s \in Subtasks :
        /\ s = cursor[r] /\ AtHand(r) = inflight[r][s] /\ inflight[r][s] # None
        /\ AtHand(r) \in DOMAIN dispatch /\ AtHand(r) \in DOMAIN exec
        /\ dispatch[AtHand(r)].of = s
        /\ pc[r] = "begin" /\ Fits(r) /\ r = token /\ status \in {"running", "paused", "cancelled"}
        /\ \A t \in Subtasks : InHand(t) = inflight[r][t]
  BY HandFits DEF Begin, Giving
<1>2. PICK d \in DOMAIN exec : d = inflight[r][s] /\ d \in DOMAIN dispatch /\ dispatch[d].of = s
  BY <1>1
<1>3. /\ UNCHANGED <<status, view, link, dispatch, mem, seen, inflight, control, history>>
      /\ subtask' = [subtask EXCEPT ![s] = "in_progress"]
      /\ exec' = [exec EXCEPT ![d] = "start"]
      /\ shown' = Projection(mem[r])
      /\ cursor' = [cursor EXCEPT ![r] = None]
      /\ Goto(r, "select")
  BY <1>1, <1>2 DEF Begin, Sync
<1>4. /\ pc' \in [Runtimes -> AtWork \union {"off"}] /\ pc'[r] = "select"
      /\ \A q \in Runtimes \ {r} : pc'[q] = pc[q]
  BY <1>3, Went DEF AtWork
<1>5. /\ exec' \in Seq(ExecSteps)
      /\ Len(exec') = Len(exec) /\ DOMAIN exec' = DOMAIN exec
      /\ \A e \in DOMAIN exec : exec'[e] = IF e = d THEN "start" ELSE exec[e]
  <2>1. "start" \in ExecSteps
    BY DEF ExecSteps
  <2>. QED BY <1>3, <2>1, ExecSet DEF IInv
<1>6. /\ cursor' \in [Runtimes -> 0..N] /\ cursor'[r] = None
      /\ \A q \in Runtimes \ {r} : cursor'[q] = cursor[q]
  BY <1>3 DEF IInv, Types, None, LooperAssumption
<1>7. /\ subtask' \in [Subtasks -> Terminal \union {"planned", "in_progress"}]
      /\ \A t \in Subtasks \ {s} : subtask'[t] = subtask[t]
  BY <1>3 DEF IInv, Types, TypeOK
<1>8. /\ view[s] = "running" /\ exec[d] = "none" /\ link[s] = d
      /\ seen[r] = "running"
  BY <1>1, <1>2 DEF Fits, FlightFits, ViewFits, StatusFits, Giving
<1>9. UNCHANGED <<token, crashes, turns, late, wanted, filled>>
  BY <1>3 DEF control, history
<1>10. \A t \in Subtasks : InHand(t)' = InHand(t)
  BY <1>1, <1>3, <1>9 DEF InHand
<1>11. Types'
  <2>1. shown' \in [current : 0..N, completed : 0..N, failed : 0..N]
    BY <1>3, ProjectionFits DEF IInv, Types, TypeOK
  <2>. QED BY <1>3, <1>4, <1>5, <1>6, <1>7, <2>1 DEF IInv, Types, TypeOK, control, history
<1>12. Fits(r)'
  <2>1. StatusFits(r)'
    BY <1>1, <1>3, <1>4 DEF Fits, StatusFits, Giving
  <2>2. ViewFits(r)'
    BY <1>1, <1>3, <1>4, <1>6 DEF Fits, ViewFits, Viewing, AtWork
  <2>3. FlightFits(r)'
    <3>1. \A t \in Subtasks : inflight[r][t] # None =>
            /\ inflight[r][t] \in DOMAIN dispatch /\ dispatch[inflight[r][t]].of = t
            /\ link[t] = inflight[r][t] /\ inflight[r][t] \in DOMAIN exec
            /\ t # s => exec[inflight[r][t]] # "none"
      BY <1>1, Numbered DEF Fits, FlightFits, Giving, IInv
    <3>2. \A t \in Subtasks : inflight[r][t] # None => exec'[inflight[r][t]] # "none"
      BY <1>2, <1>5, <3>1
    <3>. QED
      BY <1>3, <1>4, <1>6, <3>1, <3>2 DEF FlightFits, Giving, Settling, Empty
  <2>4. PolicyFits(r)'
    BY <1>1, <1>3 DEF Fits, PolicyFits, InFlight
  <2>5. LateFits(r)' /\ IdleFits(r)'
    BY <1>1, <1>3, <1>4, <1>9 DEF Fits, LateFits, IdleFits, Giving, InFlight
  <2>. QED BY <2>1, <2>2, <2>3, <2>4, <2>5 DEF Fits
<1>13. TokenInv' /\ CallInv' /\ RestInv' /\ RuntimeInv'
  <2>1. status' \notin {"absent", "completed", "failed"} /\ Moves(r)
    BY <1>1, <1>3, <1>4, <1>6 DEF Moves
  <2>. QED BY <1>1, <1>4, <1>12, <2>1, RuntimeMoves
<1>14. WorkInv'
  <2>1. \A e \in DOMAIN dispatch : dispatch[e].of \in Subtasks /\ e \in DOMAIN exec
    BY Numbered DEF IInv, DispatchRows
  <2>2. \A e \in DOMAIN dispatch : e # d => (e \in Working' <=> e \in Working)
    BY <1>5 DEF Working
  <2>. QED BY <1>1, <1>2, <1>3, <1>5, <1>10, <2>1, <2>2 DEF IInv, WorkInv
<1>15. UnbegunInv' /\ DependsInv'
  BY <1>3, <1>9, <1>10 DEF IInv, UnbegunInv, DependsInv
<1>16. RepeatInv'
  <2>1. \A t \in Subtasks : InHand(t) # None => InHand(t) \in DOMAIN exec /\ (InHand(t) = d => t = s)
    BY <1>1, <1>2, Numbered DEF Fits, FlightFits, IInv
  <2>. QED BY <1>1, <1>2, <1>3, <1>5, <1>8, <1>9, <1>10, <2>1 DEF IInv, RepeatInv
<1>17. LeftoverInv'
  <2>1. Loose' \subseteq Loose
    <3>1. \A e \in DOMAIN dispatch : dispatch[e].of \in Subtasks
      BY Numbered DEF IInv, DispatchRows
    <3>. QED BY <1>3, <1>10, <3>1 DEF Loose, Open
  <2>2. Dangling' \subseteq Dangling
    <3>1. "running" \notin Terminal
      BY DEF Terminal
    <3>. QED BY <1>1, <1>3, <1>7, <1>8, <1>9, <3>1 DEF Dangling
  <2>. QED BY <1>9, <2>1, <2>2, FewerLeft
<1>18. LateInv'
  BY <1>3, <1>9 DEF IInv, LateInv
<1>19. ScopeInv'
  BY <1>3, <1>4, <1>9 DEF IInv, ScopeInv
<1>. QED BY <1>11, <1>13, <1>14, <1>15, <1>16, <1>17, <1>18, <1>19 DEF IInv

-----------------------------------------------------------------------------
(* Settling a subtask                                                        *)

LEMMA SettleDispatchKeeps ==
  ASSUME LooperAssumption, IInv, NEW r \in Runtimes, SettleDispatch(r)
  PROVE  IInv'
<1>1. PICK s \in Subtasks :
        /\ s = cursor[r] /\ AtHand(r) = inflight[r][s] /\ inflight[r][s] # None
        /\ AtHand(r) \in DOMAIN dispatch /\ dispatch[AtHand(r)].of = s
        /\ pc[r] = "settle" /\ Fits(r) /\ r = token /\ status \in {"running", "paused", "cancelled"}
        /\ \A t \in Subtasks : InHand(t) = inflight[r][t]
  BY HandFits DEF SettleDispatch, Settling
<1>2. PICK d \in DOMAIN dispatch :
        d = inflight[r][s] /\ d = AtHand(r) /\ dispatch[d].of = s /\ exec[d] \in {"ok", "err"}
  BY <1>1 DEF Fits, FlightFits, Settling
<1>3. /\ UNCHANGED <<status, shown, view, link, subtask, exec, mem, seen, inflight, cursor,
                     control, history>>
      /\ dispatch' = IF exec[d] # "ok" /\ Open(d)
                     THEN [dispatch EXCEPT ![d].status = "failed"] ELSE dispatch
      /\ Goto(r, "settleRow")
  BY <1>2 DEF SettleDispatch, Succeeded
<1>4. /\ pc' \in [Runtimes -> AtWork \union {"off"}] /\ pc'[r] = "settleRow"
      /\ \A q \in Runtimes \ {r} : pc'[q] = pc[q]
  BY <1>3, Went DEF AtWork
<1>5. UNCHANGED <<token, crashes, turns, late, wanted, filled>>
  BY <1>3 DEF control, history
<1>6. \A t \in Subtasks : InHand(t)' = InHand(t)
  BY <1>1, <1>3, <1>5 DEF InHand
<1>7. /\ dispatch' \in Seq(DispatchRows)
      /\ Len(dispatch') = Len(dispatch) /\ DOMAIN dispatch' = DOMAIN dispatch
      /\ \A e \in DOMAIN dispatch :
           /\ dispatch[e].of \in Subtasks /\ dispatch'[e].of = dispatch[e].of
           /\ dispatch'[e].status = IF e = d /\ exec[d] # "ok" /\ Open(d) THEN "failed"
                                    ELSE dispatch[e].status
  <2>1. CASE exec[d] # "ok" /\ Open(d)
    <3>1. dispatch' = [dispatch EXCEPT ![d].status = "failed"]
      BY <1>3, <2>1
    <3>2. "failed" \in Terminal \union {"pending", "running"}
      BY DEF Terminal
    <3>3. /\ dispatch' \in Seq(DispatchRows)
          /\ Len(dispatch') = Len(dispatch) /\ DOMAIN dispatch' = DOMAIN dispatch
          /\ \A e \in DOMAIN dispatch :
               /\ dispatch[e].of \in Subtasks /\ dispatch'[e].of = dispatch[e].of
               /\ dispatch'[e].status = IF e = d THEN "failed" ELSE dispatch[e].status
      BY <3>1, <3>2, DispatchSet DEF IInv
    <3>. QED BY <2>1, <3>3
  <2>2. CASE ~(exec[d] # "ok" /\ Open(d))
    BY <1>3, <2>2, Numbered DEF IInv, Types, DispatchRows
  <2>. QED BY <2>1, <2>2
<1>8. Types'
  BY <1>3, <1>4, <1>7 DEF IInv, Types, TypeOK, control, history
<1>9. Fits(r)'
  <2>1. StatusFits(r)'
    BY <1>1, <1>3, <1>4 DEF Fits, StatusFits, Giving
  <2>2. ViewFits(r)'
    BY <1>1, <1>3, <1>4 DEF Fits, ViewFits, Viewing, AtWork
  <2>3. FlightFits(r)'
    <3>1. ~Open(AtHand(r))'
      <4>1. exec[d] = "ok" => ~Open(d)
        BY DEF IInv, WorkInv, Open
      <4>. QED BY <1>1, <1>2, <1>3, <1>7, <4>1 DEF Open, AtHand
    <3>2. (exec[AtHand(r)] \in {"ok", "err"})'
      BY <1>2, <1>3 DEF AtHand
    <3>. QED BY <1>1, <1>3, <1>4, <1>7, <3>1, <3>2 DEF Fits, FlightFits, Giving, Settling, Empty
  <2>4. PolicyFits(r)'
    BY <1>1, <1>3 DEF Fits, PolicyFits, InFlight
  <2>5. LateFits(r)' /\ IdleFits(r)'
    BY <1>4 DEF LateFits, IdleFits, Giving
  <2>. QED BY <2>1, <2>2, <2>3, <2>4, <2>5 DEF Fits
<1>10. TokenInv' /\ CallInv' /\ RestInv' /\ RuntimeInv'
  <2>1. status' \notin {"absent", "completed", "failed"} /\ Moves(r)
    BY <1>1, <1>3, <1>4 DEF Moves
  <2>. QED BY <1>1, <1>4, <1>9, <2>1, RuntimeMoves
<1>11. WorkInv'
  BY <1>3, <1>6, <1>7 DEF IInv, WorkInv, Working
<1>12. UnbegunInv' /\ DependsInv' /\ RepeatInv'
  BY <1>3, <1>5, <1>6 DEF IInv, UnbegunInv, DependsInv, RepeatInv
<1>13. LeftoverInv'
  <2>1. Loose' \subseteq Loose
    BY <1>3, <1>6, <1>7 DEF Loose, Open
  <2>2. Dangling' \subseteq Dangling
    BY <1>1, <1>3, <1>5 DEF Dangling
  <2>. QED BY <1>5, <2>1, <2>2, FewerLeft
<1>14. LateInv' /\ ScopeInv'
  BY <1>3, <1>4, <1>5 DEF IInv, LateInv, ScopeInv
<1>. QED BY <1>8, <1>10, <1>11, <1>12, <1>13, <1>14 DEF IInv

LEMMA SettleRowKeeps ==
  ASSUME LooperAssumption, IInv, NEW r \in Runtimes, SettleRow(r)
  PROVE  IInv'
<1>1. PICK s \in Subtasks :
        /\ s = cursor[r] /\ AtHand(r) = inflight[r][s] /\ inflight[r][s] # None
        /\ pc[r] = "settleRow" /\ Fits(r) /\ r = token
        /\ status \in {"running", "paused", "cancelled"}
        /\ \A t \in Subtasks : InHand(t) = inflight[r][t]
  BY HandFits DEF SettleRow, Settling
<1>2. PICK st \in {"completed", "failed"} : st = Result(r)
  BY DEF Result
<1>3. /\ UNCHANGED <<status, shown, link, subtask, dispatch, exec, mem, seen, inflight, cursor, control,
                     history>>
      /\ SetRow(s, st)
      /\ Goto(r, "settleSubtask")
  BY <1>1, <1>2 DEF SettleRow
<1>4. /\ pc' \in [Runtimes -> AtWork \union {"off"}] /\ pc'[r] = "settleSubtask"
      /\ \A q \in Runtimes \ {r} : pc'[q] = pc[q]
  BY <1>3, Went DEF AtWork
<1>5. view[s] = "running" /\ link[s] = InHand(s)
  BY <1>1 DEF Fits, ViewFits, FlightFits
<1>6. UNCHANGED <<token, crashes, turns, late, wanted, filled>>
  BY <1>3 DEF control, history
<1>7. \A t \in Subtasks : InHand(t)' = InHand(t)
  BY <1>1, <1>3, <1>6 DEF InHand
<1>8. /\ WorkInv' /\ UnbegunInv' /\ DependsInv' /\ RepeatInv' /\ Loose' \subseteq Loose
      /\ view' \in [Subtasks -> RowStatus] /\ view'[s] = st
      /\ \A t \in Subtasks \ {s} : view'[t] = view[t]
  <2>1. st \in RowStatus \ {"absent"} /\ st \in Terminal /\ st # "pending"
    BY DEF RowStatus, Terminal
  <2>. QED BY <1>1, <1>3, <1>5, <1>6, <1>7, <2>1, RowWritten
<1>9. Types'
  BY <1>3, <1>4, <1>8 DEF IInv, Types, TypeOK, control, history
<1>10. Fits(r)'
  <2>1. StatusFits(r)'
    BY <1>1, <1>3, <1>4 DEF Fits, StatusFits, Giving
  <2>2. ViewFits(r)'
    BY <1>1, <1>3, <1>4, <1>8 DEF Fits, ViewFits, Viewing, AtWork
  <2>3. FlightFits(r)'
    <3>1. (view[cursor[r]] = Result(r))'
      BY <1>1, <1>2, <1>3, <1>8 DEF Result, Succeeded, AtHand
    <3>2. (exec[AtHand(r)] \in {"ok", "err"})' /\ ~Open(AtHand(r))'
      BY <1>1, <1>3 DEF Fits, FlightFits, AtHand, Open, Settling
    <3>. QED
      BY <1>1, <1>3, <1>4, <3>1, <3>2 DEF Fits, FlightFits, Giving, Settling, Empty
  <2>4. PolicyFits(r)'
    BY <1>1, <1>3 DEF Fits, PolicyFits, InFlight
  <2>5. LateFits(r)' /\ IdleFits(r)'
    BY <1>4 DEF LateFits, IdleFits, Giving
  <2>. QED BY <2>1, <2>2, <2>3, <2>4, <2>5 DEF Fits
<1>11. TokenInv' /\ CallInv' /\ RestInv' /\ RuntimeInv'
  <2>1. status' \notin {"absent", "completed", "failed"} /\ Moves(r)
    BY <1>1, <1>3, <1>4 DEF Moves
  <2>. QED BY <1>1, <1>4, <1>10, <2>1, RuntimeMoves
<1>12. LeftoverInv'
  <2>1. Dangling' \subseteq Dangling
    <3>1. token' # None /\ token' = r /\ cursor'[r] = s
      BY <1>1, <1>3, <1>6, AtWorkIsToken
    <3>. QED BY <1>1, <1>3, <1>4, <1>8, <3>1 DEF Dangling
  <2>. QED BY <1>6, <1>8, <2>1, FewerLeft
<1>13. LateInv'
  BY <1>3, <1>6 DEF IInv, LateInv
<1>14. ScopeInv'
  <2>1. st # "absent" /\ view[s] # "absent"
    BY <1>5
  <2>. QED BY <1>4, <1>6, <1>8, <2>1 DEF IInv, Types, ScopeInv
<1>. QED BY <1>8, <1>9, <1>11, <1>12, <1>13, <1>14 DEF IInv

LEMMA SettleSubtaskKeeps ==
  ASSUME LooperAssumption, IInv, NEW r \in Runtimes, SettleSubtask(r)
  PROVE  IInv'
<1>1. PICK s \in Subtasks :
        /\ s = cursor[r] /\ AtHand(r) = inflight[r][s] /\ inflight[r][s] # None
        /\ AtHand(r) \in DOMAIN exec
        /\ pc[r] = "settleSubtask" /\ Fits(r) /\ r = token /\ token # None
        /\ status \in {"running", "paused", "cancelled"}
        /\ \A t \in Subtasks : InHand(t) = inflight[r][t]
  BY HandFits, AtWorkIsToken DEF SettleSubtask, Settling
<1>2. PICK st \in {"completed", "failed"} : st = Result(r)
  BY DEF Result
<1>3. /\ UNCHANGED <<status, shown, view, link, dispatch, exec, seen, control, history>>
      /\ subtask' = [subtask EXCEPT ![s] = st]
      /\ inflight' = [inflight EXCEPT ![r][s] = None]
      /\ mem' = [mem EXCEPT ![r] = view]
      /\ cursor' = [cursor EXCEPT ![r] = None]
      /\ Goto(r, "top")
  BY <1>1, <1>2 DEF SettleSubtask
<1>4. /\ pc' \in [Runtimes -> AtWork \union {"off"}] /\ pc'[r] = "top"
      /\ \A q \in Runtimes \ {r} : pc'[q] = pc[q]
  BY <1>3, Went DEF AtWork
<1>5. /\ inflight' \in [Runtimes -> [Subtasks -> 0..Len(dispatch)]] /\ inflight'[r][s] = None
      /\ \A t \in Subtasks \ {s} : inflight'[r][t] = inflight[r][t]
      /\ \A q \in Runtimes \ {r} : inflight'[q] = inflight[q]
  <2>1. inflight \in [Runtimes -> [Subtasks -> 0..Len(dispatch)]] /\ None \in 0..Len(dispatch)
    BY Numbered DEF IInv, Types, TypeOK, None
  <2>2. inflight' = [inflight EXCEPT ![r] = [inflight[r] EXCEPT ![s] = None]]
    BY <1>3, <2>1
  <2>3. [inflight[r] EXCEPT ![s] = None] \in [Subtasks -> 0..Len(dispatch)]
    BY <2>1
  <2>. QED BY <2>1, <2>2, <2>3
<1>6. /\ cursor' \in [Runtimes -> 0..N] /\ cursor'[r] = None
      /\ \A q \in Runtimes \ {r} : cursor'[q] = cursor[q]
  BY <1>3 DEF IInv, Types, None, LooperAssumption
<1>7. /\ subtask' \in [Subtasks -> Terminal \union {"planned", "in_progress"}] /\ subtask'[s] = st
      /\ \A t \in Subtasks \ {s} : subtask'[t] = subtask[t]
  BY <1>3 DEF IInv, Types, TypeOK, Terminal
<1>8. mem' \in [Runtimes -> [Subtasks -> RowStatus]] /\ mem'[r] = view
  BY <1>3 DEF IInv, Types, TypeOK
<1>9. /\ view[s] = st /\ ~Open(AtHand(r)) /\ exec[AtHand(r)] \in {"ok", "err"}
      /\ link[s] = inflight[r][s]
  BY <1>1, <1>2 DEF Fits, ViewFits, FlightFits, Settling
<1>10. UNCHANGED <<token, crashes, turns, late, wanted, filled>>
  BY <1>3 DEF control, history
<1>11. /\ InHand(s)' = None
       /\ \A t \in Subtasks \ {s} : InHand(t)' = InHand(t)
  BY <1>1, <1>5, <1>10 DEF InHand
<1>12. Types'
  BY <1>3, <1>4, <1>5, <1>6, <1>7, <1>8 DEF IInv, Types, TypeOK, control, history
<1>13. Fits(r)'
  <2>1. StatusFits(r)'
    BY <1>1, <1>3, <1>4 DEF Fits, StatusFits, Giving
  <2>2. ViewFits(r)'
    BY <1>1, <1>3, <1>4, <1>5, <1>8, <1>9 DEF Fits, ViewFits, Viewing, AtWork
  <2>3. FlightFits(r)'
    BY <1>1, <1>3, <1>4, <1>5, <1>6 DEF Fits, FlightFits, Giving, Settling, Empty
  <2>4. PolicyFits(r)'
    <3>1. InFlight(r)' = InFlight(r) \ {s} /\ IsFiniteSet(InFlight(r))
      BY <1>5, Finite DEF InFlight
    <3>2. InFlight(r)' \in SUBSET InFlight(r)
      BY <3>1
    <3>3. /\ Cardinality(InFlight(r)') <= Cardinality(InFlight(r))
          /\ Cardinality(InFlight(r)') \in Nat /\ Cardinality(InFlight(r)) \in Nat
      BY <3>1, <3>2, FS_Subset, FS_CardinalityType
    <3>4. Cardinality(InFlight(r)') <= MaxParallel
      BY <1>1, <3>3 DEF Fits, PolicyFits, LooperAssumption
    <3>5. s \in InFlight(r)
      BY <1>1 DEF InFlight
    <3>. QED BY <1>1, <3>1, <3>4, <3>5 DEF Fits, PolicyFits
  <2>5. LateFits(r)' /\ IdleFits(r)'
    BY <1>4 DEF LateFits, IdleFits, Giving
  <2>. QED BY <2>1, <2>2, <2>3, <2>4, <2>5 DEF Fits
<1>14. TokenInv' /\ CallInv' /\ RestInv' /\ RuntimeInv'
  <2>1. status' \notin {"absent", "completed", "failed"} /\ Moves(r)
    BY <1>1, <1>3, <1>4, <1>5, <1>6 DEF Moves
  <2>. QED BY <1>1, <1>4, <1>13, <2>1, RuntimeMoves
<1>15. \A d \in DOMAIN dispatch : d # None /\ dispatch[d].of \in Subtasks
  BY Numbered DEF IInv, DispatchRows
<1>16. WorkInv'
  <2>1. AtHand(r) \notin Working
    BY <1>9 DEF Working
  <2>. QED BY <1>1, <1>3, <1>11, <1>15, <2>1 DEF IInv, WorkInv, Working
<1>17. UnbegunInv'
  BY <1>3, <1>10 DEF IInv, UnbegunInv
<1>18. DependsInv'
  BY <1>3, <1>10, <1>11 DEF IInv, DependsInv
<1>19. RepeatInv'
  BY <1>3, <1>9, <1>10, <1>11 DEF IInv, RepeatInv, Terminal
<1>20. LeftoverInv'
  <2>1. Loose' \subseteq Loose
    BY <1>1, <1>3, <1>9, <1>11, <1>15 DEF Loose, Open
  <2>2. Dangling' \subseteq Dangling
    BY <1>1, <1>3, <1>4, <1>7, <1>10 DEF Dangling
  <2>. QED BY <1>10, <2>1, <2>2, FewerLeft
<1>21. LateInv' /\ ScopeInv'
  BY <1>3, <1>4, <1>10 DEF IInv, LateInv, ScopeInv
<1>. QED BY <1>12, <1>14, <1>16, <1>17, <1>18, <1>19, <1>20, <1>21 DEF IInv

LEMMA RuntimeKeeps ==
  ASSUME LooperAssumption, IInv, NEW r \in Runtimes, Runtime(r)
  PROVE  IInv'
BY LoadKeeps, CreateRowKeeps, RepairRowKeeps, TopKeeps, DecideKeeps, SelectKeeps, MarkRunningKeeps,
   SetDispatchKeeps, BeginKeeps, FinishKeeps, LeaveKeeps, JoinKeeps, SettleDispatchKeeps,
   SettleRowKeeps, SettleSubtaskKeeps DEF Runtime

-----------------------------------------------------------------------------
(* The executors                                                             *)

\* An executor goes on, works for the runtime, and begins a turn only where it
\* has not begun one.
LEMMA ExecutorMoves ==
  ASSUME LooperAssumption, IInv, NEW d \in DOMAIN exec, exec[d] \in {"start", "turn", "finish"},
         NEW l \in {"turn", "finish", "ok", "err"}, ExecTo(d, l),
         \/ UNCHANGED dispatch /\ l # "ok"
         \/ \E st \in Terminal \union {"running"} :
              DispatchTo(d, st) /\ (l = "ok" => st = "completed"),
         \/ UNCHANGED turns
         \/ /\ exec[d] = "start" /\ l = "turn"
            /\ turns' = [turns EXCEPT ![dispatch[d].of] = @ + 1],
         UNCHANGED <<status, shown, view, link, subtask, local, control, late, wanted, filled>>
  PROVE  IInv'
<1>1. /\ d \in DOMAIN dispatch /\ d # None /\ dispatch[d] \in DispatchRows
      /\ \A e \in DOMAIN dispatch : e # None /\ e \in DOMAIN exec /\ dispatch[e].of \in Subtasks
  BY Numbered DEF IInv, DispatchRows
<1>2. PICK s \in Subtasks : s = dispatch[d].of
  BY <1>1
<1>3. InHand(s) = d /\ token # None
  BY <1>1, <1>2 DEF IInv, WorkInv, Working, InHand
<1>4. PICK r \in Runtimes : r = token
  BY <1>3 DEF IInv, Types, TypeOK
<1>5. /\ Fits(r) /\ status # "absent" /\ daemon # "down"
      /\ \A t \in Subtasks : InHand(t) = inflight[r][t]
      /\ inflight[r][s] = d
  <2>1. pc[r] # "off"
    BY <1>4 DEF IInv, TokenInv
  <2>. QED BY <1>3, <2>1, AtWorkIsToken
<1>6. UNCHANGED <<status, shown, view, link, subtask, pc, mem, seen, inflight, cursor, token,
                  stopped, call, callSeen, daemon, crashes, controls, late, wanted, filled>>
  BY DEF local, control
<1>7. /\ exec' \in Seq(ExecSteps)
      /\ Len(exec') = Len(exec) /\ DOMAIN exec' = DOMAIN exec
      /\ \A e \in DOMAIN exec : exec'[e] = IF e = d THEN l ELSE exec[e]
  BY ExecSet DEF ExecTo, IInv, ExecSteps
<1>8. /\ dispatch' \in Seq(DispatchRows)
      /\ Len(dispatch') = Len(dispatch) /\ DOMAIN dispatch' = DOMAIN dispatch
      /\ \A e \in DOMAIN dispatch :
           /\ dispatch'[e].of = dispatch[e].of
           /\ e # d => dispatch'[e].status = dispatch[e].status
      /\ l = "ok" => dispatch'[d].status = "completed"
  <2>1. CASE UNCHANGED dispatch /\ l # "ok"
    BY <2>1 DEF IInv, Types
  <2>2. CASE \E st \in Terminal \union {"running"} :
               DispatchTo(d, st) /\ (l = "ok" => st = "completed")
    <3>1. PICK st \in Terminal \union {"pending", "running"} :
            /\ dispatch' = [dispatch EXCEPT ![d].status = st]
            /\ l = "ok" => st = "completed"
      BY <2>2 DEF DispatchTo
    <3>2. /\ dispatch' \in Seq(DispatchRows)
          /\ Len(dispatch') = Len(dispatch) /\ DOMAIN dispatch' = DOMAIN dispatch
          /\ \A e \in DOMAIN dispatch :
               /\ dispatch'[e].of = dispatch[e].of
               /\ dispatch'[e].status = IF e = d THEN st ELSE dispatch[e].status
      BY <1>1, <3>1, DispatchSet DEF IInv
    <3>. QED BY <1>1, <3>1, <3>2
  <2>. QED BY <2>1, <2>2
<1>9. /\ turns' \in [Subtasks -> Nat]
      /\ \A t \in Subtasks \ {s} : turns'[t] = turns[t]
      /\ turns'[s] = turns[s] \/ (exec[d] = "start" /\ l = "turn" /\ turns'[s] = turns[s] + 1)
  BY <1>2 DEF IInv, Types
<1>10. Types'
  <2>1. Len(dispatch') = Len(exec') /\ Len(exec') <= MaxDispatches
    BY <1>7, <1>8 DEF IInv, Types, TypeOK
  <2>2. TypeOK'
    BY <1>6, <1>8, <2>1 DEF IInv, Types, TypeOK
  <2>. QED BY <1>6, <1>7, <1>8, <1>9, <2>2 DEF IInv, Types
<1>11. TokenInv' /\ CallInv' /\ RestInv'
  <2>1. TokenInv'
    BY <1>6 DEF IInv, TokenInv
  <2>2. CallInv'
    BY <1>6 DEF IInv, CallInv
  <2>3. RestInv'
    BY <1>5, <1>6 DEF IInv, RestInv
  <2>. QED BY <2>1, <2>2, <2>3
<1>12. RuntimeInv'
  <2>1. StatusFits(r)'
    BY <1>5, <1>6 DEF Fits, StatusFits
  <2>2. ViewFits(r)'
    BY <1>5, <1>6 DEF Fits, ViewFits
  <2>3. FlightFits(r)'
    <3>1. \A t \in Subtasks : inflight[r][t] # None =>
            /\ inflight[r][t] \in DOMAIN dispatch /\ dispatch[inflight[r][t]].of = t
            /\ inflight[r][t] = d => t = s
            /\ exec[inflight[r][t]] = "none" <=> exec'[inflight[r][t]] = "none"
      <4>1. \A t \in Subtasks : inflight[r][t] # None =>
              inflight[r][t] \in DOMAIN dispatch /\ dispatch[inflight[r][t]].of = t
        BY <1>5 DEF Fits, FlightFits
      <4>. QED BY <1>1, <1>2, <1>7, <4>1
    <3>2. ASSUME pc[r] \in Settling
          PROVE  /\ AtHand(r) # d /\ AtHand(r)' = AtHand(r) /\ AtHand(r) \in DOMAIN dispatch
                 /\ exec'[AtHand(r)] = exec[AtHand(r)]
      <4>1. AtHand(r) \in DOMAIN dispatch /\ exec[AtHand(r)] \in {"ok", "err"}
        BY <1>5, <3>2, HandFits DEF Fits, FlightFits
      <4>. QED BY <1>1, <1>6, <1>7, <4>1 DEF AtHand
    <3>3. ASSUME pc[r] = "settleSubtask" PROVE Result(r)' = Result(r)
      BY <3>2, <3>3 DEF Result, Succeeded, Settling
    <3>4. ASSUME pc[r] \in {"settleRow", "settleSubtask"} PROVE Open(AtHand(r))' = Open(AtHand(r))
      BY <1>8, <3>2, <3>4 DEF Open, Settling
    <3>5. pc[r] \in Settling => (exec[AtHand(r)] \in {"ok", "err"})'
      BY <1>5, <1>6, <3>2 DEF Fits, FlightFits
    <3>. QED
      BY <1>5, <1>6, <1>8, <3>1, <3>3, <3>4, <3>5 DEF Fits, FlightFits
  <2>4. PolicyFits(r)'
    BY <1>5, <1>6 DEF Fits, PolicyFits, InFlight
  <2>5. LateFits(r)'
    BY <1>5, <1>6 DEF Fits, LateFits, InFlight
  <2>6. IdleFits(r)'
    BY <1>5, <1>6 DEF Fits, IdleFits, Settled, Ready
  <2>. QED BY <1>4, <1>6, <2>1, <2>2, <2>3, <2>4, <2>5, <2>6 DEF RuntimeInv, Fits
<1>13. \A t \in Subtasks : InHand(t)' = InHand(t)
  BY <1>6 DEF InHand
<1>14. WorkInv'
  <2>1. d \in Working
    BY DEF Working
  <2>2. \A e \in DOMAIN dispatch : e # d => (e \in Working' <=> e \in Working)
    BY <1>7 DEF Working
  <2>. QED BY <1>1, <1>2, <1>3, <1>7, <1>8, <1>13, <2>1, <2>2 DEF IInv, WorkInv
<1>15. UnbegunInv'
  <2>1. view[s] # "absent"
    <3>1. inflight[r] # Idle /\ exec[d] # "none"
      BY <1>1, <1>5 DEF Idle
    <3>2. pc[r] \notin {"load", "create", "repair"}
      BY <1>5, <3>1 DEF Fits, FlightFits, Empty
    <3>3. ~(pc[r] = "mark" /\ s = cursor[r])
      BY <1>1, <1>5, <3>1 DEF Fits, FlightFits, Giving
    <3>4. pc[r] = "settleSubtask" /\ s = cursor[r] => view[s] = Result(r)
      BY <1>5 DEF Fits, FlightFits
    <3>. QED BY <1>1, <1>5, <3>2, <3>3, <3>4 DEF Fits, ViewFits, Result
  <2>. QED BY <1>6, <1>9, <2>1 DEF IInv, UnbegunInv
<1>16. DependsInv'
  BY <1>1, <1>3, <1>6, <1>9, <1>13 DEF IInv, DependsInv
<1>17. RepeatInv'
  <2>1. \A t \in Subtasks \ {s} : InHand(t) # None => InHand(t) \in DOMAIN exec /\ InHand(t) # d
    BY <1>1, <1>2, <1>5 DEF Fits, FlightFits
  <2>2. \A t \in Subtasks \ {s} : /\ turns'[t] <= 1 + crashes
                                  /\ view[t] \notin Terminal /\ InHand(t) = None => turns'[t] <= crashes
                                  /\ InHand(t) # None /\ exec'[InHand(t)] \in {"none", "start"}
                                       => turns'[t] <= crashes
    BY <1>7, <1>9, <2>1 DEF IInv, RepeatInv
  <2>3. turns'[s] <= 1 + crashes
    BY <1>1, <1>3, <1>9 DEF IInv, RepeatInv, Types
  <2>. QED BY <1>1, <1>3, <1>6, <1>7, <1>13, <2>2, <2>3 DEF RepeatInv
<1>18. LeftoverInv'
  <2>1. Loose' \subseteq Loose
    <3>1. d \notin Loose'
      BY <1>1, <1>2, <1>3, <1>8, <1>13 DEF Loose
    <3>. QED BY <1>1, <1>6, <1>8, <1>13, <3>1 DEF Loose, Open
  <2>2. Dangling' \subseteq Dangling
    BY <1>6 DEF Dangling
  <2>. QED BY <1>6, <2>1, <2>2, FewerLeft
<1>19. LateInv' /\ ScopeInv'
  BY <1>6 DEF IInv, LateInv, ScopeInv
<1>. QED BY <1>10, <1>11, <1>12, <1>14, <1>15, <1>16, <1>17, <1>18, <1>19 DEF IInv

LEMMA ExecutorKeeps ==
  ASSUME LooperAssumption, IInv, NEW d \in DOMAIN exec, Executor(d)
  PROVE  IInv'
<1>1. CASE StartTurn(d)
  <2>1. exec[d] = "start"
        /\ UNCHANGED <<status, shown, view, link, subtask, local, control, late, wanted, filled>>
    BY <1>1 DEF StartTurn
  <2>2. CASE ExecTo(d, "err") /\ UNCHANGED <<dispatch, turns>>
    BY <2>1, <2>2, ExecutorMoves
  <2>3. CASE /\ DispatchTo(d, "running") /\ ExecTo(d, "turn")
             /\ turns' = [turns EXCEPT ![dispatch[d].of] = @ + 1]
    BY <2>1, <2>3, ExecutorMoves
  <2>. QED BY <1>1, <2>2, <2>3 DEF StartTurn
<1>2. CASE EndTurn(d)
  <2>1. exec[d] = "turn" /\ UNCHANGED turns
        /\ UNCHANGED <<status, shown, view, link, subtask, local, control, late, wanted, filled>>
    BY <1>2 DEF EndTurn, history
  <2>2. CASE ExecTo(d, "finish") /\ UNCHANGED dispatch
    BY <2>1, <2>2, ExecutorMoves
  <2>3. CASE ExecTo(d, "err") /\ DispatchTo(d, "failed")
    BY <2>1, <2>3, ExecutorMoves DEF Terminal
  <2>4. CASE ExecTo(d, "err") /\ UNCHANGED dispatch
    BY <2>1, <2>4, ExecutorMoves
  <2>. QED BY <1>2, <2>2, <2>3, <2>4 DEF EndTurn
<1>3. CASE Finalize(d)
  <2>1. exec[d] = "finish" /\ UNCHANGED turns
        /\ UNCHANGED <<status, shown, view, link, subtask, local, control, late, wanted, filled>>
    BY <1>3 DEF Finalize, history
  <2>2. CASE DispatchTo(d, "completed") /\ ExecTo(d, "ok")
    BY <2>1, <2>2, ExecutorMoves DEF Terminal
  <2>3. CASE ExecTo(d, "err") /\ UNCHANGED dispatch
    BY <2>1, <2>3, ExecutorMoves
  <2>. QED BY <1>3, <2>2, <2>3 DEF Finalize
<1>. QED BY <1>1, <1>2, <1>3 DEF Executor

-----------------------------------------------------------------------------
(* Requests                                                                  *)

\* A request, or a shutdown, leaves the runtime and its dispatches alone: what the
\* runtime knows of the status remains true.
LEMMA RequestMoves ==
  ASSUME LooperAssumption, IInv, Types', CallInv', RestInv',
         UNCHANGED <<view, link, dispatch, exec, local, token, crashes, turns, late, filled>>,
         stopped \subseteq stopped',
         Dangling' \subseteq Dangling,
         \A r \in Runtimes : r = token => StatusFits(r)',
         late = 0 \/ status' \in Terminal,
         filled = {} \/ UNCHANGED wanted,
         token = None \/ UNCHANGED subtask
  PROVE  IInv'
<1>1. UNCHANGED <<pc, mem, seen, inflight, cursor>>
  BY DEF local
<1>2. TokenInv'
  BY <1>1 DEF IInv, TokenInv
<1>3. RuntimeInv'
  <2>. SUFFICES ASSUME NEW r \in Runtimes, r = token PROVE Fits(r)'
    BY DEF RuntimeInv
  <2>1. Fits(r)
    BY DEF IInv, RuntimeInv
  <2>2. ViewFits(r)'
    <3>1. UNCHANGED subtask
      BY DEF LooperAssumption, None
    <3>. QED BY <1>1, <2>1, <3>1 DEF Fits, ViewFits
  <2>3. FlightFits(r)'
    BY <1>1, <2>1 DEF Fits, FlightFits, Result, Succeeded, AtHand, Open
  <2>4. PolicyFits(r)'
    BY <1>1, <2>1 DEF Fits, PolicyFits, InFlight
  <2>5. LateFits(r)'
    BY <1>1, <2>1 DEF Fits, LateFits, InFlight
  <2>6. IdleFits(r)'
    BY <1>1, <2>1 DEF Fits, IdleFits, Settled, Ready
  <2>. QED BY <2>2, <2>3, <2>4, <2>5, <2>6 DEF Fits
<1>4. \A s \in Subtasks : InHand(s)' = InHand(s)
  BY <1>1 DEF InHand
<1>5. WorkInv' /\ UnbegunInv' /\ DependsInv' /\ RepeatInv' /\ Loose' = Loose
  BY <1>4, WorkStays
<1>6. LeftoverInv'
  BY <1>5, FewerLeft
<1>7. LateInv'
  BY DEF IInv, LateInv, Types
<1>8. ScopeInv'
  BY <1>1 DEF IInv, ScopeInv, Types
<1>. QED BY <1>2, <1>3, <1>5, <1>6, <1>7, <1>8 DEF IInv

LEMMA CreateKeeps ==
  ASSUME LooperAssumption, OneStart', IInv, NEW c \in Callers, Create(c)
  PROVE  IInv'
<1>1. /\ call[c] = "free" /\ daemon = "up" /\ status = "absent" /\ status' = "pending"
      /\ subtask' \in Plans /\ wanted' \in Scopes
      /\ call' = [call EXCEPT ![c] = IF wanted' = {} THEN "check" ELSE "seed"]
      /\ UNCHANGED <<shown, view, link, dispatch, exec, local, token, stopped, callSeen,
                     daemon, crashes, controls, turns, late, filled>>
  BY DEF Create, CallTo
<1>2. view = Absent /\ filled = {} /\ token = None /\ dispatch = <<>>
  BY <1>1 DEF IInv, RestInv
<1>3. call' \in [Callers -> {"free", "seed", "fill", "check", "launch"}]
      /\ call'[c] = IF wanted' = {} THEN "check" ELSE "seed"
  BY <1>1 DEF IInv, Types
<1>4. Types'
  <2>1. subtask' \in [Subtasks -> Terminal \union {"planned", "in_progress"}]
    <3>1. Plans \subseteq [Subtasks -> Terminal \union {"planned", "in_progress"}]
      BY DEF LooperAssumption, Terminal
    <3>. QED BY <1>1, <3>1
  <2>2. wanted' \subseteq Subtasks
    BY <1>1 DEF LooperAssumption
  <2>3. status' \in RunStatus
    BY <1>1 DEF RunStatus
  <2>. QED BY <1>1, <1>2, <1>3, <2>1, <2>2, <2>3 DEF IInv, Types, TypeOK, local
<1>5. CallInv'
  BY <1>1, <1>2, <1>3 DEF OneStart, CallInv
<1>6. RestInv'
  BY <1>1 DEF IInv, RestInv
<1>7. Dangling' \subseteq Dangling
  <2>1. \A s \in Subtasks : view'[s] \notin Terminal
    BY <1>1, <1>2 DEF Absent, Terminal
  <2>. QED BY <2>1 DEF Dangling
<1>8. \A r \in Runtimes : r # token
  BY <1>2 DEF LooperAssumption, None
<1>9. late = 0
  BY <1>1 DEF IInv, LateInv, Types, Terminal
<1>. QED BY <1>1, <1>2, <1>4, <1>5, <1>6, <1>7, <1>8, <1>9, RequestMoves

\* A request that finds out something while it has the run to itself.
LEMMA CallMoves ==
  ASSUME LooperAssumption, IInv, CallInv',
         call' \in [Callers -> {"free", "seed", "fill", "check", "launch"}],
         callSeen' \in [Callers -> RunStatus],
         daemon # "down",
         status # "absent",
         UNCHANGED <<durable, exec, local, token, stopped, daemon, crashes, controls, history>>
  PROVE  IInv'
<1>1. UNCHANGED <<status, shown, view, link, subtask, dispatch, pc, mem, seen, inflight, cursor,
                  turns, late, wanted, filled>>
  BY DEF durable, local, history
<1>2. Types'
  BY <1>1 DEF IInv, Types, TypeOK
<1>3. RestInv'
  BY <1>1 DEF IInv, RestInv
<1>4. Dangling' \subseteq Dangling
  BY <1>1 DEF Dangling
<1>5. ASSUME NEW r \in Runtimes, r = token PROVE StatusFits(r)'
  BY <1>1, <1>5 DEF IInv, RuntimeInv, Fits, StatusFits
<1>6. late = 0 \/ status' \in Terminal
  BY <1>1 DEF IInv, LateInv, Types
<1>. QED BY <1>1, <1>2, <1>3, <1>4, <1>5, <1>6, RequestMoves

LEMMA SeedKeeps ==
  ASSUME LooperAssumption, OneStart, IInv, NEW c \in Callers, Seed(c)
  PROVE  IInv'
<1>1. /\ call[c] = "seed" /\ call' \in [Callers -> {"free", "seed", "fill", "check", "launch"}]
      /\ call'[c] \in {"fill", "free"} /\ \A d \in Callers : d # c => call'[d] = call[d]
      /\ UNCHANGED <<durable, exec, local, token, stopped, callSeen, daemon, crashes, controls, history>>
  BY DEF Seed, CallTo, IInv, Types
<1>2. /\ token = None /\ status \in {"pending", "running", "paused", "cancelled"}
      /\ filled = {} /\ view = Absent /\ wanted # {} /\ daemon # "down"
  BY <1>1 DEF IInv, CallInv, RestInv
<1>3. UNCHANGED <<status, view, wanted, filled>>
  BY <1>1 DEF durable, history
<1>4. CallInv'
  <2>1. \A s \in Subtasks : view[s] = "absent"
    BY <1>2 DEF Absent
  <2>. QED BY <1>1, <1>2, <1>3, <2>1 DEF CallInv, OneStart
<1>5. callSeen' \in [Callers -> RunStatus]
  BY <1>1 DEF IInv, Types
<1>. QED BY <1>1, <1>2, <1>4, <1>5, CallMoves

LEMMA CheckStartKeeps ==
  ASSUME LooperAssumption, OneStart, IInv, NEW c \in Callers, CheckStart(c)
  PROVE  IInv'
<1>. DEFINE refused == token # None \/ status \in Terminal \union {"paused"}
<1>1. /\ call[c] = "check"
      /\ call' = [call EXCEPT ![c] = IF refused THEN "free" ELSE "launch"]
      /\ callSeen' = [callSeen EXCEPT ![c] = IF refused THEN @ ELSE status]
      /\ UNCHANGED <<durable, exec, local, token, stopped, daemon, crashes, controls, history>>
  BY DEF CheckStart, CallTo
<1>2. /\ call' \in [Callers -> {"free", "seed", "fill", "check", "launch"}]
      /\ call'[c] = IF refused THEN "free" ELSE "launch"
      /\ callSeen' \in [Callers -> RunStatus]
      /\ ~refused => callSeen'[c] = status
  BY <1>1 DEF IInv, Types, TypeOK
<1>3. status # "absent" /\ daemon # "down"
  BY <1>1 DEF IInv, CallInv, RestInv
<1>4. UNCHANGED <<status, view, wanted, filled, late>>
  BY <1>1 DEF durable, history
<1>5. ~refused => status \in {"pending", "running"} /\ late = 0
  BY <1>3 DEF IInv, Types, TypeOK, RunStatus, LateInv, Terminal
<1>6. CallInv'
  BY <1>1, <1>2, <1>4, <1>5 DEF CallInv, OneStart
<1>. QED BY <1>1, <1>2, <1>3, <1>6, CallMoves

\* A request changes the status under those that start the run, and a resume
\* begins where there is none.
LEMMA RequestFits ==
  ASSUME LooperAssumption, IInv, NEW c \in Callers, Request(c), status # "absent",
         UNCHANGED <<view, wanted, filled, token, callSeen, daemon, late>>,
         \/ UNCHANGED <<call, status>>
         \/ UNCHANGED call /\ status' \in {"paused", "cancelled"}
         \/ OneStart' /\ status' # "absent" /\ call' = [call EXCEPT ![c] = "check"]
  PROVE  CallInv' /\ daemon # "down"
<1>1. call[c] = "free" /\ daemon = "up"
  BY DEF Request
<1>2. CASE UNCHANGED call /\ (UNCHANGED status \/ status' \in {"paused", "cancelled"})
  BY <1>1, <1>2 DEF IInv, CallInv
<1>3. CASE OneStart' /\ status' # "absent" /\ call' = [call EXCEPT ![c] = "check"]
  <2>1. call'[c] = "check" /\ \A d \in Callers : d # c => call'[d] = "free"
    <3>1. call \in [Callers -> {"free", "seed", "fill", "check", "launch"}]
      BY DEF IInv, Types
    <3>. QED BY <1>3, <3>1 DEF OneStart
  <2>. QED BY <1>1, <1>3, <2>1 DEF CallInv
<1>. QED BY <1>1, <1>2, <1>3

LEMMA PauseKeeps ==
  ASSUME LooperAssumption, IInv, NEW c \in Callers, Pause(c)
  PROVE  IInv'
<1>1. /\ Request(c) /\ call[c] = "free" /\ status \in {"pending", "running"} /\ status' = "paused"
      /\ shown' = shown \/ shown' = [shown EXCEPT !.current = None]
      /\ UNCHANGED <<view, link, subtask, dispatch, exec, local,
                     token, stopped, call, callSeen, daemon, crashes, history>>
  BY DEF Pause, ClearCurrent, Request
<1>2. UNCHANGED <<pc, mem, seen, inflight, cursor, turns, late, wanted, filled>>
  BY <1>1 DEF local, history
<1>3. Types'
  <2>1. status' \in RunStatus
    BY <1>1 DEF RunStatus
  <2>2. shown' \in [current : 0..N, completed : 0..N, failed : 0..N]
    BY <1>1, CurrentCleared DEF IInv, Types, TypeOK
  <2>. QED BY <1>1, <1>2, <2>1, <2>2 DEF IInv, Types, TypeOK
<1>4. CallInv' /\ daemon # "down"
  BY <1>1, <1>2, RequestFits DEF IInv, Types
<1>5. RestInv'
  BY <1>1, <1>4 DEF RestInv
<1>6. ASSUME NEW r \in Runtimes, r = token PROVE StatusFits(r)'
  BY <1>1, <1>2, <1>6 DEF IInv, RuntimeInv, Fits, StatusFits, Terminal
<1>7. Dangling' \subseteq Dangling
  BY <1>1, <1>2 DEF Dangling
<1>8. late = 0
  BY <1>1 DEF IInv, LateInv, Types, Terminal
<1>. QED BY <1>1, <1>2, <1>3, <1>4, <1>5, <1>6, <1>7, <1>8, RequestMoves

LEMMA ResumeKeeps ==
  ASSUME LooperAssumption, OneStart', IInv, NEW c \in Callers, Resume(c)
  PROVE  IInv'
<1>1. /\ Request(c) /\ call[c] = "free" /\ status = "paused" /\ status' = "running"
      /\ call' = [call EXCEPT ![c] = "check"]
      /\ UNCHANGED <<shown, view, link, subtask, dispatch, exec, local,
                     token, stopped, callSeen, daemon, crashes, history>>
  BY DEF Resume, Request, CallTo
<1>2. UNCHANGED <<pc, mem, seen, inflight, cursor, turns, late, wanted, filled>>
  BY <1>1 DEF local, history
<1>3. call' \in [Callers -> {"free", "seed", "fill", "check", "launch"}] /\ call'[c] = "check"
  BY <1>1 DEF IInv, Types
<1>4. Types'
  BY <1>1, <1>2, <1>3 DEF IInv, Types, TypeOK, RunStatus
<1>5. CallInv' /\ daemon # "down"
  BY <1>1, <1>2, <1>3, RequestFits
<1>6. RestInv'
  BY <1>1, <1>5 DEF RestInv
<1>7. ASSUME NEW r \in Runtimes, r = token PROVE StatusFits(r)'
  BY <1>1, <1>2, <1>7 DEF IInv, RuntimeInv, Fits, StatusFits, Terminal
<1>8. Dangling' \subseteq Dangling
  BY <1>1, <1>2 DEF Dangling
<1>9. late = 0
  BY <1>1 DEF IInv, LateInv, Types, Terminal
<1>. QED BY <1>1, <1>2, <1>4, <1>5, <1>6, <1>7, <1>8, <1>9, RequestMoves

LEMMA CancelKeeps ==
  ASSUME LooperAssumption, IInv, NEW c \in Callers, Cancel(c)
  PROVE  IInv'
<1>1. /\ Request(c) /\ call[c] = "free" /\ status \notin Terminal \union {"absent"}
      /\ status' = "cancelled"
      /\ shown' = shown \/ shown' = [shown EXCEPT !.current = None]
      /\ stopped' = stopped \union ({token} \ {None})
      /\ UNCHANGED <<view, link, subtask, dispatch, exec, local,
                     token, call, callSeen, daemon, crashes, history>>
  BY DEF Cancel, ClearCurrent, Request
<1>2. UNCHANGED <<pc, mem, seen, inflight, cursor, turns, late, wanted, filled>>
  BY <1>1 DEF local, history
<1>3. Types'
  <2>1. status' \in RunStatus
    BY <1>1 DEF RunStatus, Terminal
  <2>2. shown' \in [current : 0..N, completed : 0..N, failed : 0..N]
    BY <1>1, CurrentCleared DEF IInv, Types, TypeOK
  <2>3. stopped' \subseteq Runtimes
    BY <1>1 DEF IInv, Types, TypeOK
  <2>. QED BY <1>1, <1>2, <2>1, <2>2, <2>3 DEF IInv, Types, TypeOK
<1>4. CallInv' /\ daemon # "down"
  BY <1>1, <1>2, RequestFits DEF IInv, Types
<1>5. RestInv'
  BY <1>1, <1>4 DEF RestInv
<1>6. ASSUME NEW r \in Runtimes, r = token PROVE StatusFits(r)'
  BY <1>1, <1>2, <1>6 DEF IInv, RuntimeInv, Fits, StatusFits, Terminal
<1>7. Dangling' \subseteq Dangling
  BY <1>1, <1>2 DEF Dangling
<1>8. status' \in Terminal
  BY <1>1 DEF Terminal
<1>. QED BY <1>1, <1>2, <1>3, <1>4, <1>5, <1>6, <1>7, <1>8, RequestMoves

\* A cancelled dispatch is one that was open: what is settled stays settled.
LEMMA CancelDispatchKeeps ==
  ASSUME LooperAssumption, IInv, NEW c \in Callers, NEW d \in DOMAIN dispatch,
         CancelDispatch(c, d)
  PROVE  IInv'
<1>1. /\ Request(c) /\ call[c] = "free" /\ Open(d)
      /\ dispatch' = [dispatch EXCEPT ![d].status = "cancelled"]
      /\ UNCHANGED <<status, shown, view, link, subtask, exec, local,
                     token, stopped, call, callSeen, daemon, crashes, history>>
  BY DEF CancelDispatch, Request, DispatchTo
<1>2. UNCHANGED <<pc, mem, seen, inflight, cursor, turns, late, wanted, filled>>
  BY <1>1 DEF local, history
<1>3. /\ dispatch' \in Seq(DispatchRows)
      /\ Len(dispatch') = Len(dispatch) /\ DOMAIN dispatch' = DOMAIN dispatch
      /\ \A e \in DOMAIN dispatch :
           /\ dispatch[e].of \in Subtasks /\ dispatch'[e].of = dispatch[e].of
           /\ dispatch'[e].status = IF e = d THEN "cancelled" ELSE dispatch[e].status
  <2>1. "cancelled" \in Terminal \union {"pending", "running"}
    BY DEF Terminal
  <2>. QED BY <1>1, <2>1, DispatchSet DEF IInv
<1>4. Types'
  BY <1>1, <1>2, <1>3 DEF IInv, Types, TypeOK
<1>5. status # "absent"
  <2>1. dispatch # <<>>
    OBVIOUS
  <2>. QED BY <2>1 DEF IInv, RestInv
<1>6. CallInv' /\ daemon # "down"
  BY <1>1, <1>2, <1>5, RequestFits DEF IInv, Types
<1>7. TokenInv' /\ RestInv'
  BY <1>1, <1>2, <1>5, <1>6 DEF IInv, TokenInv, RestInv
<1>8. \A e \in DOMAIN dispatch : Open(e)' => Open(e)
  BY <1>3 DEF Open
<1>9. RuntimeInv'
  <2>. SUFFICES ASSUME NEW r \in Runtimes, r = token PROVE Fits(r)'
    BY <1>1 DEF RuntimeInv
  <2>1. Fits(r)
    BY DEF IInv, RuntimeInv
  <2>2. StatusFits(r)' /\ ViewFits(r)'
    BY <1>1, <1>2, <2>1 DEF Fits, StatusFits, ViewFits
  <2>3. FlightFits(r)'
    <3>1. pc[r] \in {"settleRow", "settleSubtask"} => ~Open(AtHand(r))'
      <4>1. pc[r] \in Settling => AtHand(r) \in DOMAIN dispatch
        BY HandFits
      <4>. QED BY <1>2, <1>8, <2>1, <4>1 DEF Fits, FlightFits, AtHand, Settling
    <3>. QED BY <1>1, <1>2, <1>3, <2>1, <3>1 DEF Fits, FlightFits, Result, Succeeded, AtHand
  <2>4. PolicyFits(r)' /\ LateFits(r)' /\ IdleFits(r)'
    BY <1>1, <1>2, <2>1 DEF Fits, PolicyFits, LateFits, IdleFits, InFlight, Settled, Ready
  <2>. QED BY <2>2, <2>3, <2>4 DEF Fits
<1>10. \A s \in Subtasks : InHand(s)' = InHand(s)
  BY <1>1, <1>2 DEF InHand
<1>11. WorkInv'
  <2>1. exec[d] # "ok"
    BY <1>1 DEF IInv, WorkInv, Open
  <2>. QED BY <1>1, <1>3, <1>10, <2>1 DEF IInv, WorkInv, Working
<1>12. UnbegunInv' /\ DependsInv' /\ RepeatInv'
  BY <1>1, <1>2, <1>10 DEF IInv, UnbegunInv, DependsInv, RepeatInv
<1>13. LeftoverInv'
  <2>1. Loose' \subseteq Loose
    BY <1>1, <1>3, <1>8, <1>10 DEF Loose
  <2>2. Dangling' \subseteq Dangling
    BY <1>1, <1>2 DEF Dangling
  <2>. QED BY <1>1, <2>1, <2>2, FewerLeft
<1>14. LateInv' /\ ScopeInv'
  BY <1>1, <1>2 DEF IInv, LateInv, ScopeInv
<1>. QED BY <1>4, <1>6, <1>7, <1>9, <1>11, <1>12, <1>13, <1>14 DEF IInv

\* The rows of a scope are written before anything runs, so none is refused.
LEMMA FillKeeps ==
  ASSUME LooperAssumption, OneStart, IInv, NEW c \in Callers, Fill(c)
  PROVE  IInv'
<1>1. /\ call[c] = "fill" /\ token = None /\ filled # wanted
      /\ status \in {"pending", "running", "paused", "cancelled"}
      /\ \A s \in Subtasks : view[s] # "absent" => s \in filled
      /\ filled \subseteq wanted /\ wanted \subseteq Subtasks /\ daemon # "down"
  BY DEF Fill, IInv, CallInv, Types, RestInv
<1>2. PICK s \in wanted \ filled : s = Min(wanted \ filled)
  <2>1. wanted \ filled \in SUBSET Nat /\ wanted \ filled # {}
    BY <1>1, Finite
  <2>. QED BY <2>1, First
<1>3. s \in Subtasks /\ view[s] = "absent"
  BY <1>1, <1>2
<1>4. /\ SetRow(s, "pending") /\ filled' = filled \union {s}
      /\ IF filled' = wanted THEN call' = [call EXCEPT ![c] = "check"] ELSE UNCHANGED call
      /\ UNCHANGED <<status, shown, link, subtask, dispatch, exec, local, token, stopped, callSeen,
                     daemon, crashes, controls, turns, late, wanted>>
  BY <1>2, <1>3 DEF Fill, CallTo
<1>5. UNCHANGED <<pc, mem, seen, inflight, cursor>>
  BY <1>4 DEF local
<1>6. \A t \in Subtasks : InHand(t)' = InHand(t) /\ InHand(t) = None
  BY <1>1, <1>4, <1>5 DEF InHand
<1>7. /\ WorkInv' /\ UnbegunInv' /\ DependsInv' /\ RepeatInv' /\ Loose' \subseteq Loose
      /\ view' \in [Subtasks -> RowStatus] /\ view'[s] = "pending"
      /\ \A t \in Subtasks \ {s} : view'[t] = view[t]
  <2>1. "pending" \in RowStatus \ {"absent"} /\ "absent" \notin Terminal
    BY DEF RowStatus, Terminal
  <2>2. link[s] = None /\ turns[s] <= crashes
    BY <1>3, <1>6, <2>1 DEF IInv, UnbegunInv, RepeatInv
  <2>. QED BY <1>3, <1>4, <1>6, <2>1, <2>2, RowWritten
<1>8. call' \in [Callers -> {"free", "seed", "fill", "check", "launch"}]
      /\ call'[c] = IF filled' = wanted THEN "check" ELSE "fill"
  BY <1>1, <1>4 DEF IInv, Types
<1>9. Types'
  BY <1>1, <1>2, <1>3, <1>4, <1>5, <1>7, <1>8 DEF IInv, Types, TypeOK
<1>10. CallInv'
  BY <1>1, <1>4, <1>7, <1>8 DEF CallInv, OneStart
<1>11. TokenInv' /\ RestInv' /\ RuntimeInv'
  BY <1>1, <1>4, <1>5 DEF IInv, TokenInv, RestInv, RuntimeInv, LooperAssumption, None
<1>12. LeftoverInv'
  <2>1. Dangling' \subseteq Dangling
    <3>1. "pending" \notin Terminal
      BY DEF Terminal
    <3>. QED BY <1>1, <1>4, <1>7, <3>1 DEF Dangling
  <2>. QED BY <1>4, <1>7, <2>1, FewerLeft
<1>13. LateInv'
  BY <1>4 DEF IInv, LateInv
<1>14. ScopeInv'
  <2>1. \A r \in Runtimes : pc[r] # "create"
    BY <1>1 DEF IInv, TokenInv, LooperAssumption, None
  <2>. QED BY <1>1, <1>2, <1>4, <1>5, <1>7, <2>1 DEF IInv, ScopeInv
<1>. QED BY <1>7, <1>9, <1>10, <1>11, <1>12, <1>13, <1>14 DEF IInv

-----------------------------------------------------------------------------
(* Start, shutdown, crash and boot                                           *)

\* A runtime begins with nothing in flight, where there is none.
LEMMA SpawnKeeps ==
  ASSUME LooperAssumption, IInv, token = None, Spawn,
         status # "absent", status' \in {"running", "paused", "cancelled"}, late = 0,
         call' \in [Callers -> {"free", "seed", "fill", "check", "launch"}],
         callSeen' \in [Callers -> RunStatus],
         \A c \in Callers : call'[c] = "free",
         daemon' \in {"up", "stopping"},
         UNCHANGED <<shown, view, link, subtask, dispatch, exec, mem, seen, inflight, cursor,
                     crashes, history>>
  PROVE  IInv'
<1>1. PICK r \in Runtimes :
        /\ pc[r] = "off" /\ token' = r /\ Goto(r, "load")
        /\ stopped' = stopped \/ stopped' = stopped \union {r}
  <2>1. Unused \in SUBSET Nat /\ Unused # {}
    BY DEF Unused, Spawn, LooperAssumption
  <2>2. Min(Unused) \in Unused
    BY <2>1, First
  <2>. QED BY <2>2 DEF Spawn, Unused
<1>2. UNCHANGED <<turns, late, wanted, filled>>
  BY DEF history
<1>3. \A q \in Runtimes : pc[q] = "off" /\ inflight[q] = Idle /\ cursor[q] = None
  BY DEF IInv, TokenInv, LooperAssumption, None
<1>4. /\ pc' \in [Runtimes -> AtWork \union {"off"}] /\ pc'[r] = "load"
      /\ \A q \in Runtimes \ {r} : pc'[q] = "off"
  BY <1>1, <1>3, Went DEF AtWork
<1>5. Types'
  <2>1. status' \in RunStatus /\ stopped' \subseteq Runtimes
    BY <1>1 DEF RunStatus, Terminal, IInv, Types
  <2>. QED BY <1>1, <1>2, <1>4, <2>1 DEF IInv, Types, TypeOK
<1>6. TokenInv' /\ CallInv' /\ RestInv'
  BY <1>1, <1>3, <1>4 DEF TokenInv, CallInv, RestInv
<1>7. RuntimeInv'
  <2>1. StatusFits(r)' /\ LateFits(r)' /\ IdleFits(r)'
    BY <1>4 DEF StatusFits, LateFits, IdleFits, Giving
  <2>2. ViewFits(r)'
    BY <1>4 DEF ViewFits, Viewing, AtWork
  <2>3. \A s \in Subtasks : inflight[r][s] = None
    <3>1. inflight[r] = Idle
      BY <1>3
    <3>. QED BY <3>1 DEF Idle
  <2>4. FlightFits(r)'
    BY <1>3, <1>4, <2>3 DEF FlightFits, Giving, Settling, Empty
  <2>5. PolicyFits(r)'
    <3>1. InFlight(r)' = {}
      BY <2>3 DEF InFlight
    <3>2. Cardinality({}) = 0
      BY FS_EmptySet
    <3>. QED BY <3>1, <3>2 DEF PolicyFits, LooperAssumption
  <2>. QED BY <1>1, <2>1, <2>2, <2>4, <2>5 DEF RuntimeInv, Fits
<1>8. \A s \in Subtasks : InHand(s)' = InHand(s)
  BY <1>1, <1>3 DEF InHand, Idle
<1>9. WorkInv' /\ UnbegunInv' /\ DependsInv' /\ RepeatInv' /\ Loose' = Loose
  BY <1>2, <1>8, WorkStays
<1>10. LeftoverInv'
  <2>1. Dangling' \subseteq Dangling
    BY DEF Dangling
  <2>. QED BY <1>9, <2>1, FewerLeft
<1>11. LateInv'
  BY <1>2 DEF IInv, LateInv, Types, Terminal
<1>12. ScopeInv'
  BY <1>2, <1>4 DEF IInv, ScopeInv
<1>. QED BY <1>5, <1>6, <1>7, <1>9, <1>10, <1>11, <1>12 DEF IInv

LEMMA LaunchKeeps ==
  ASSUME LooperAssumption, OneStart, IInv, NEW c \in Callers, Launch(c)
  PROVE  IInv'
<1>1. /\ call[c] = "launch" /\ Spawn
      /\ status' = IF callSeen[c] = "pending" THEN "running" ELSE status
      /\ call' = [call EXCEPT ![c] = "free"]
      /\ callSeen' = [callSeen EXCEPT ![c] = "pending"]
      /\ UNCHANGED <<shown, view, link, subtask, dispatch, exec, mem, seen, inflight, cursor,
                     daemon, crashes, controls, history>>
  BY DEF Launch, CallTo
<1>2. /\ token = None /\ status # "absent" /\ status' \in {"running", "paused", "cancelled"}
      /\ late = 0 /\ daemon \in {"up", "stopping"}
  BY <1>1 DEF IInv, Types, CallInv, RestInv
<1>3. /\ call' \in [Callers -> {"free", "seed", "fill", "check", "launch"}]
      /\ \A e \in Callers : call'[e] = "free"
      /\ callSeen' \in [Callers -> RunStatus]
  BY <1>1 DEF IInv, Types, OneStart, RunStatus
<1>. QED BY <1>1, <1>2, <1>3, SpawnKeeps

LEMMA BootKeeps ==
  ASSUME LooperAssumption, IInv, Boot
  PROVE  IInv'
<1>1. /\ daemon = "down" /\ daemon' = "up"
      /\ UNCHANGED <<durable, exec, mem, seen, inflight, cursor, call, callSeen, crashes, controls,
                     history>>
      /\ token = None /\ \A c \in Callers : call[c] = "free"
  BY DEF Boot, IInv, RestInv
<1>2. UNCHANGED <<status, shown, view, link, subtask, dispatch, turns, late, wanted, filled>>
  BY <1>1 DEF durable, history
<1>3. CASE status = "running"
  <2>1. late = 0
    BY <1>3 DEF IInv, LateInv, Types, Terminal
  <2>. QED BY <1>1, <1>2, <1>3, <2>1, SpawnKeeps DEF Boot, IInv, Types
<1>4. CASE status # "running"
  <2>1. UNCHANGED <<pc, token, stopped>>
    BY <1>4 DEF Boot
  <2>2. Types'
    BY <1>1, <1>2, <2>1 DEF IInv, Types, TypeOK
  <2>3. CallInv' /\ RestInv'
    BY <1>1, <1>2, <2>1 DEF IInv, CallInv, RestInv
  <2>4. Dangling' \subseteq Dangling
    BY <1>1, <1>2, <2>1 DEF Dangling
  <2>5. \A r \in Runtimes : r # token
    BY <1>1 DEF LooperAssumption, None
  <2>6. late = 0 \/ status' \in Terminal
    BY <1>2 DEF IInv, LateInv, Types
  <2>. QED BY <1>1, <1>2, <2>1, <2>2, <2>3, <2>4, <2>5, <2>6, RequestMoves DEF local
<1>. QED BY <1>3, <1>4

LEMMA ShutdownKeeps ==
  ASSUME LooperAssumption, IInv, Shutdown
  PROVE  IInv'
<1>1. /\ daemon = "up" /\ daemon' = "stopping"
      /\ stopped' = stopped \union {r \in Runtimes : pc[r] # "off"}
      /\ UNCHANGED <<durable, exec, local, token, call, callSeen, crashes, controls, history>>
  BY DEF Shutdown
<1>2. UNCHANGED <<status, shown, view, link, subtask, dispatch, pc, mem, seen, inflight, cursor,
                  turns, late, wanted, filled>>
  BY <1>1 DEF durable, local, history
<1>3. Types'
  BY <1>1, <1>2 DEF IInv, Types, TypeOK
<1>4. CallInv' /\ RestInv'
  BY <1>1, <1>2 DEF IInv, CallInv, RestInv
<1>5. Dangling' \subseteq Dangling
  BY <1>1, <1>2 DEF Dangling
<1>6. ASSUME NEW r \in Runtimes, r = token PROVE StatusFits(r)'
  BY <1>2, <1>6 DEF IInv, RuntimeInv, Fits, StatusFits
<1>7. late = 0 \/ status' \in Terminal
  BY <1>2 DEF IInv, LateInv, Types
<1>. QED BY <1>1, <1>2, <1>3, <1>4, <1>5, <1>6, <1>7, RequestMoves

\* A crash leaves no more than what the runtime had in its hand: the dispatch of
\* the subtask it was giving out, or the subtask it was settling.
LEMMA ExitKeeps ==
  ASSUME LooperAssumption, IInv, Exit
  PROVE  IInv'
<1>1. /\ status # "absent" /\ crashes' = crashes + 1 /\ daemon' = "down"
      /\ exec' = [d \in DOMAIN exec |-> "none"]
      /\ pc' = [r \in Runtimes |-> "off"]
      /\ mem' = [r \in Runtimes |-> Absent]
      /\ seen' = [r \in Runtimes |-> "pending"]
      /\ inflight' = [r \in Runtimes |-> Idle]
      /\ cursor' = [r \in Runtimes |-> None]
      /\ token' = None /\ stopped' = {}
      /\ call' = [c \in Callers |-> "free"]
      /\ callSeen' = [c \in Callers |-> "pending"]
      /\ UNCHANGED <<status, shown, view, link, subtask, dispatch, turns, late, wanted, filled>>
  BY DEF Exit, durable, history
<1>2. /\ DOMAIN dispatch = DOMAIN exec /\ DOMAIN exec = 1..Len(dispatch) /\ Len(dispatch) \in Nat
      /\ \A d \in DOMAIN dispatch : d # None /\ dispatch[d].of \in Subtasks
  BY Numbered DEF IInv, DispatchRows
<1>3. /\ exec' \in Seq(ExecSteps) /\ Len(exec') = Len(dispatch) /\ DOMAIN exec' = DOMAIN exec
      /\ \A d \in DOMAIN exec : exec'[d] = "none"
  BY <1>1, <1>2 DEF ExecSteps
<1>4. Types'
  <2>1. /\ Absent \in [Subtasks -> RowStatus] /\ "pending" \in RunStatus
        /\ Idle \in [Subtasks -> 0..Len(dispatch)] /\ None \in 0..N
    BY <1>2 DEF Absent, RowStatus, RunStatus, Idle, None, LooperAssumption
  <2>2. Len(exec') <= MaxDispatches /\ Len(dispatch) = Len(exec')
    BY <1>3 DEF IInv, Types, TypeOK
  <2>. QED BY <1>1, <1>3, <2>1, <2>2 DEF IInv, Types, TypeOK
<1>5. TokenInv' /\ CallInv' /\ RestInv' /\ RuntimeInv'
  BY <1>1 DEF IInv, TokenInv, CallInv, RestInv, RuntimeInv, LooperAssumption, None
<1>6. \A s \in Subtasks : InHand(s)' = None
  BY <1>1 DEF InHand
<1>7. WorkInv'
  BY <1>1, <1>2, <1>3 DEF WorkInv, Working
<1>8. UnbegunInv' /\ DependsInv'
  BY <1>1, <1>6 DEF IInv, UnbegunInv, DependsInv
<1>9. RepeatInv'
  BY <1>1, <1>6 DEF IInv, Types, RepeatInv
<1>10. crashes \in Nat /\ crashes' = crashes + 1
  BY <1>1 DEF IInv, Types
<1>11. Cardinality(Loose') <= crashes'
  <2>1. Loose' \subseteq Loose \union {AtHand(token)}
    <3>. SUFFICES ASSUME NEW d \in Loose', d \notin Loose PROVE d = AtHand(token)
      OBVIOUS
    <3>1. PICK s \in Subtasks : s = dispatch[d].of /\ d \in DOMAIN dispatch
      BY <1>1, <1>2 DEF Loose
    <3>2. Open(d) /\ InHand(s) = d /\ ~(view[s] = "running" /\ link[s] = d)
      BY <1>1, <1>2, <3>1 DEF Loose, Open
    <3>3. token # None
      BY <1>2, <3>1, <3>2 DEF InHand
    <3>4. PICK r \in Runtimes : r = token
      BY <3>3 DEF IInv, Types, TypeOK
    <3>5. Fits(r) /\ inflight[r][s] = d /\ d # None
      BY <1>2, <3>1, <3>2, <3>3, <3>4 DEF IInv, RuntimeInv, InHand
    <3>6. inflight[r] # Idle
      BY <3>5 DEF Idle
    <3>7. pc[r] \notin {"load", "create", "repair"}
      BY <3>5, <3>6 DEF Fits, FlightFits, Empty
    <3>8. s = cursor[r]
      BY <3>2, <3>5, <3>7 DEF Fits, ViewFits, FlightFits
    <3>. QED BY <3>4, <3>5, <3>8 DEF AtHand
  <2>2. IsFiniteSet(Loose)
    <3>1. Loose \in SUBSET (1..Len(dispatch))
      BY <1>2 DEF Loose
    <3>2. IsFiniteSet(1..Len(dispatch))
      BY <1>2, FS_Interval
    <3>. QED BY <3>1, <3>2, FS_Subset
  <2>. QED BY <1>10, <2>1, <2>2, OneMore DEF IInv, LeftoverInv
<1>12. Cardinality(Dangling') <= crashes'
  <2>1. Dangling' \subseteq Dangling \union {cursor[token]}
    BY <1>1 DEF Dangling
  <2>2. IsFiniteSet(Dangling)
    BY Finite DEF Dangling
  <2>. QED BY <1>10, <2>1, <2>2, OneMore DEF IInv, LeftoverInv
<1>13. LateInv' /\ ScopeInv'
  BY <1>1 DEF IInv, LateInv, ScopeInv
<1>. QED BY <1>4, <1>5, <1>7, <1>8, <1>9, <1>11, <1>12, <1>13 DEF IInv, LeftoverInv

-----------------------------------------------------------------------------
(* The invariant                                                             *)

LEMMA InitHolds ==
  ASSUME LooperAssumption, Init
  PROVE  IInv
<1>. USE DEF Init
<1>1. Types
  <2>1. Absent \in [Subtasks -> RowStatus]
    BY DEF Absent, RowStatus
  <2>2. shown \in [current : 0..N, completed : 0..N, failed : 0..N]
    BY <2>1, ProjectionFits
  <2>3. dispatch = <<>> /\ exec = <<>> /\ Len(dispatch) = 0 /\ Len(exec) = 0
    OBVIOUS
  <2>. QED
    BY <2>1, <2>2, <2>3 DEF Types, TypeOK, RunStatus, Terminal, Idle, None, LooperAssumption
<1>2. TokenInv /\ CallInv /\ RestInv /\ RuntimeInv
  BY DEF TokenInv, CallInv, RestInv, RuntimeInv, LooperAssumption, None
<1>3. \A s \in Subtasks : InHand(s) = None /\ view[s] = "absent"
  BY DEF InHand, Absent
<1>4. WorkInv /\ UnbegunInv /\ DependsInv /\ RepeatInv
  BY <1>3 DEF WorkInv, UnbegunInv, DependsInv, RepeatInv, Idle, None
<1>5. LeftoverInv
  <2>1. Loose = {}
    BY DEF Loose
  <2>2. Dangling = {}
    BY <1>3 DEF Dangling, Terminal
  <2>. QED BY <2>1, <2>2, FS_EmptySet DEF LeftoverInv
<1>6. LateInv /\ ScopeInv
  BY DEF LateInv, ScopeInv, LooperAssumption
<1>. QED BY <1>1, <1>2, <1>4, <1>5, <1>6 DEF IInv

LEMMA StutterKeeps ==
  ASSUME LooperAssumption, IInv, UNCHANGED vars
  PROVE  IInv'
<1>1. /\ UNCHANGED <<durable, exec, local, control, history>>
      /\ UNCHANGED <<status, shown, view, link, subtask, dispatch, pc, mem, seen, inflight, cursor,
                     token, stopped, call, callSeen, daemon, crashes, controls,
                     turns, late, wanted, filled>>
  BY DEF vars, durable, local, control, history
<1>2. Types' /\ CallInv' /\ RestInv'
  BY <1>1 DEF IInv, Types, TypeOK, CallInv, RestInv
<1>3. Dangling' \subseteq Dangling
  BY <1>1 DEF Dangling
<1>4. ASSUME NEW r \in Runtimes, r = token PROVE StatusFits(r)'
  BY <1>1, <1>4 DEF IInv, RuntimeInv, Fits, StatusFits
<1>5. late = 0 \/ status' \in Terminal
  BY <1>1 DEF IInv, LateInv, Types
<1>. QED BY <1>1, <1>2, <1>3, <1>4, <1>5, RequestMoves

LEMMA NextKeeps ==
  ASSUME LooperAssumption, OneStart, OneStart', IInv, [Next]_vars
  PROVE  IInv'
<1>1. CASE \E r \in Runtimes : Runtime(r)
  BY <1>1, RuntimeKeeps
<1>2. CASE \E d \in DOMAIN exec : Executor(d)
  BY <1>2, ExecutorKeeps
<1>3. ASSUME NEW c \in Callers,
             \/ Create(c) \/ Seed(c) \/ Fill(c) \/ Pause(c) \/ Resume(c) \/ Cancel(c)
             \/ CheckStart(c) \/ Launch(c)
             \/ \E d \in DOMAIN dispatch : CancelDispatch(c, d)
      PROVE  IInv'
  BY <1>3, CreateKeeps, SeedKeeps, FillKeeps, PauseKeeps, ResumeKeeps, CancelKeeps, CheckStartKeeps,
     LaunchKeeps, CancelDispatchKeeps
<1>4. CASE Shutdown \/ Exit \/ Boot
  BY <1>4, ShutdownKeeps, ExitKeeps, BootKeeps
<1>5. CASE Rest \/ UNCHANGED vars
  BY <1>5, StutterKeeps DEF Rest
<1>. QED BY <1>1, <1>2, <1>3, <1>4, <1>5 DEF Next

\* The inductive invariant of a looper run whose starts do not overlap.
THEOREM Invariant ==
  ASSUME LooperAssumption
  PROVE  Spec /\ []OneStart => []IInv
<1>1. Init => IInv
  BY InitHolds
<1>2. IInv /\ OneStart /\ OneStart' /\ [Next]_vars => IInv'
  BY NextKeeps
<1>. QED BY <1>1, <1>2, PTL DEF Spec

\* The rows and the runtimes' memory have their types.
THEOREM TypeCorrect ==
  ASSUME LooperAssumption
  PROVE  Spec /\ []OneStart => []TypeOK
<1>1. IInv => TypeOK
  BY DEF IInv, Types
<1>. QED BY <1>1, Invariant, PTL

-----------------------------------------------------------------------------
(* What the invariant implies                                                *)

\* Who works does so on a subtask that the one runtime has in flight, and each on
\* another: the policy that the runtime keeps for its dispatches holds of them.
LEMMA PolicyHolds ==
  ASSUME LooperAssumption, IInv
  PROVE  WithinPolicy
<1>1. /\ IsFiniteSet(Working)
      /\ \A d \in Working : d # None /\ dispatch[d].of \in Subtasks /\ InHand(dispatch[d].of) = d
  <2>1. Working \in SUBSET (1..Len(dispatch)) /\ Len(dispatch) \in Nat
    BY Numbered DEF IInv, Working
  <2>2. IsFiniteSet(1..Len(dispatch))
    BY <2>1, FS_Interval
  <2>3. IsFiniteSet(Working)
    BY <2>1, <2>2, FS_Subset
  <2>. QED BY <2>3, Numbered DEF IInv, WorkInv, Working, DispatchRows
<1>2. IsFiniteSet(WorkingOn) /\ Cardinality(WorkingOn) = Cardinality(Working)
  <2>. DEFINE f == [d \in Working |-> dispatch[d].of]
  <2>1. f \in Bijection(Working, WorkingOn)
    <3>1. f \in [Working -> WorkingOn]
      BY DEF WorkingOn
    <3>2. \A d, e \in Working : f[d] = f[e] => d = e
      BY <1>1
    <3>3. \A s \in WorkingOn : \E d \in Working : f[d] = s
      BY DEF WorkingOn
    <3>. HIDE DEF f
    <3>. QED BY <3>1, <3>2, <3>3, Zenon DEF Bijection, Injection, Surjection, IsInjective
  <2>2. ExistsBijection(Working, WorkingOn)
    BY <2>1 DEF ExistsBijection
  <2>. QED BY <1>1, <2>2, FS_Bijection
<1>3. CASE Working = {}
  BY <1>2, <1>3, FS_EmptySet DEF WithinPolicy, LooperAssumption
<1>4. CASE Working # {}
  <2>1. token # None
    BY <1>1, <1>4 DEF InHand
  <2>2. PICK r \in Runtimes : r = token
    BY <2>1 DEF IInv, Types, TypeOK
  <2>3. PolicyFits(r) /\ \A d \in Working : dispatch[d].of \in InFlight(r)
    BY <1>1, <2>1, <2>2 DEF IInv, RuntimeInv, Fits, InHand, InFlight
  <2>4. WorkingOn \in SUBSET InFlight(r) /\ IsFiniteSet(InFlight(r)) /\ WorkingOn # {}
    BY <1>4, <2>3, Finite DEF WorkingOn, InFlight
  <2>5. Cardinality(WorkingOn) <= MaxParallel
    <3>1. /\ Cardinality(WorkingOn) <= Cardinality(InFlight(r))
          /\ Cardinality(WorkingOn) \in Nat /\ Cardinality(InFlight(r)) \in Nat
      BY <1>2, <2>4, FS_Subset, FS_CardinalityType
    <3>. QED BY <2>3, <3>1 DEF PolicyFits, LooperAssumption
  <2>6. ASSUME NEW s \in Subtasks, InFlight(r) = {s} PROVE Cardinality(WorkingOn) = 1
    <3>1. WorkingOn = {s}
      BY <2>4, <2>6
    <3>. QED BY <3>1, FS_Singleton
  <2>. QED BY <1>2, <2>3, <2>4, <2>5, <2>6 DEF WithinPolicy, PolicyFits
<1>. QED BY <1>3, <1>4

\* What was given out was ready, and what is completed stays so.
LEMMA OrderHolds ==
  ASSUME LooperAssumption, IInv
  PROVE  DependenciesFirst
<1>1. \A s \in WorkingOn : s \in Subtasks => InHand(s) # None
  BY Numbered DEF IInv, WorkInv, Working, WorkingOn
<1>. QED BY <1>1 DEF IInv, DependsInv, DependenciesFirst

\* A run at rest has no runtime, so nothing in flight: what is open was lost.
LEMMA RestHolds ==
  ASSUME LooperAssumption, IInv
  PROVE  NothingLeftBehind
<1>. SUFFICES ASSUME Quiet, status \in {"completed", "failed"}
              PROVE  /\ Settled(view, "running") = {}
                     /\ Cardinality({d \in DOMAIN dispatch : Open(d)}) <= crashes
                     /\ Cardinality({s \in Subtasks : view[s] \in Terminal
                                                        /\ subtask[s] = "in_progress"}) <= crashes
  BY DEF NothingLeftBehind
<1>1. token = None /\ Settled(view, "running") = {}
  BY DEF Quiet, IInv, Types, TypeOK, TokenInv, RestInv
<1>2. {d \in DOMAIN dispatch : Open(d)} = Loose
  BY <1>1, Numbered DEF Loose, InHand, Settled, IInv, DispatchRows
<1>3. {s \in Subtasks : view[s] \in Terminal /\ subtask[s] = "in_progress"} = Dangling
  BY <1>1 DEF Dangling
<1>. QED BY <1>1, <1>2, <1>3 DEF IInv, LeftoverInv

\* A run gives its agents what the policy allows.
THEOREM PolicyKept ==
  ASSUME LooperAssumption
  PROVE  Spec /\ []OneStart => []WithinPolicy
<1>1. IInv => WithinPolicy
  BY PolicyHolds
<1>. QED BY <1>1, Invariant, PTL

\* A subtask is given out after those it depends on.
THEOREM OrderKept ==
  ASSUME LooperAssumption
  PROVE  Spec /\ []OneStart => []DependenciesFirst
<1>1. IInv => DependenciesFirst
  BY OrderHolds
<1>. QED BY <1>1, Invariant, PTL

\* No subtask is given out again without a crash.
THEOREM NotRepeated ==
  ASSUME LooperAssumption
  PROVE  Spec /\ []OneStart => []RepeatedOnlyByCrash
<1>1. IInv => RepeatedOnlyByCrash
  BY DEF IInv, RepeatInv, RepeatedOnlyByCrash
<1>. QED BY <1>1, Invariant, PTL

\* A finished run leaves no more behind than the crashes it went through.
THEOREM NothingLeft ==
  ASSUME LooperAssumption
  PROVE  Spec /\ []OneStart => []NothingLeftBehind
<1>1. IInv => NothingLeftBehind
  BY RestHolds
<1>. QED BY <1>1, Invariant, PTL

\* A cancelled run gives out what fills the slots of one round, and no more.
THEOREM CancelStops ==
  ASSUME LooperAssumption
  PROVE  Spec /\ []OneStart => []CancelStopsSelection
<1>1. IInv => CancelStopsSelection
  BY DEF IInv, LateInv, CancelStopsSelection
<1>. QED BY <1>1, Invariant, PTL

\* A run with a scope works on nothing else.
THEOREM ScopeKept ==
  ASSUME LooperAssumption
  PROVE  Spec /\ []OneStart => []WithinScope
<1>1. IInv => WithinScope
  <2> SUFFICES ASSUME IInv, filled # {}, NEW s \in Subtasks, turns[s] > 0 PROVE s \in wanted
    BY DEF WithinScope
  <2>1. view[s] # "absent"
    BY DEF IInv, UnbegunInv
  <2>. QED BY <2>1 DEF IInv, ScopeInv
<1>. QED BY <1>1, Invariant, PTL

-----------------------------------------------------------------------------
(* What a runtime does when it ends                                          *)

\* Nobody but the runtime itself goes from idle to leave.
LEMMA OnlyFinishLeaves ==
  ASSUME LooperAssumption, IInv, Next, NEW r \in Runtimes, pc[r] = "idle", pc'[r] = "leave"
  PROVE  Finish(r)
<1>1. pc \in [Runtimes -> AtWork \union {"off"}]
  BY DEF IInv, Types
<1>2. ASSUME NEW q \in Runtimes, Runtime(q) PROVE Finish(r)
  <2>1. \E l : pc' = [pc EXCEPT ![q] = l] \/ pc' = pc
    BY <1>2 DEF Runtime, Load, CreateRow, Prepared, RepairRow, Top, Decide, Select, MarkRunning,
                SetDispatch, Begin, Finish, Leave, Join, SettleDispatch, SettleRow, SettleSubtask,
                Goto
  <2>2. q = r
    BY <1>1, <2>1
  <2>. QED
    BY <1>2, <2>2 DEF Runtime, Load, CreateRow, RepairRow, Top, Decide, Select, MarkRunning,
                      SetDispatch, Begin, Leave, Join, SettleDispatch, SettleRow, SettleSubtask
<1>3. ~(UNCHANGED pc)
  OBVIOUS
<1>4. ASSUME NEW d \in DOMAIN exec PROVE ~Executor(d)
  BY <1>3 DEF Executor, StartTurn, EndTurn, Finalize, local
<1>5. ~Spawn
  <2>1. Spawn => \E q : pc' = [pc EXCEPT ![q] = "load"]
    BY DEF Spawn, Goto
  <2>. QED BY <1>1, <2>1
<1>6. ASSUME NEW c \in Callers
      PROVE  /\ ~Create(c) /\ ~Seed(c) /\ ~Fill(c) /\ ~Pause(c) /\ ~Resume(c) /\ ~Cancel(c)
             /\ ~CheckStart(c) /\ ~Launch(c)
             /\ \A d \in DOMAIN dispatch : ~CancelDispatch(c, d)
  BY <1>3, <1>5 DEF Create, Seed, Fill, Pause, Resume, Cancel, CheckStart, Launch, CancelDispatch, local
<1>7. ~Shutdown /\ ~Exit /\ ~Boot /\ ~Rest
  BY <1>3, <1>5 DEF Shutdown, Exit, Boot, Rest, vars, local
<1>. QED BY <1>2, <1>4, <1>6, <1>7 DEF Next

\* The first of the rows that are left waits for one that will not be completed.
LEMMA FirstPendingWaits ==
  ASSUME LooperAssumption, NEW v \in [Subtasks -> RowStatus],
         Settled(v, "running") = {}, Settled(v, "failed") = {}, Settled(v, "pending") # {},
         \A s \in Subtasks : ~Ready(v, s)
  PROVE  \E s \in Settled(v, "pending") : \E t \in DependsOn[s] : v[t] \in {"absent", "cancelled"}
<1>1. PICK s \in Settled(v, "pending") : \A t \in Settled(v, "pending") : s =< t
  <2>1. Settled(v, "pending") \in SUBSET Nat
    BY Finite DEF Settled
  <2>. QED BY <2>1, First
<1>2. s \in Subtasks /\ v[s] = "pending" /\ DependsOn[s] \subseteq Subtasks
  BY DEF Settled, LooperAssumption
<1>3. PICK t \in DependsOn[s] : v[t] # "completed"
  BY <1>2 DEF Ready
<1>4. t \in Subtasks /\ t < s /\ s \in Nat /\ t \in Nat
  BY <1>2, Finite DEF LooperAssumption
<1>5. v[t] # "pending"
  BY <1>1, <1>4 DEF Settled
<1>6. v[t] \in RowStatus /\ v[t] \notin {"running", "failed"}
  BY <1>4 DEF Settled
<1>. QED BY <1>3, <1>5, <1>6 DEF RowStatus, Terminal

\* The outcome is decided on a copy of the view that is the view.
LEMMA FinishJustified ==
  ASSUME LooperAssumption, IInv, NEW r \in Runtimes, Finish(r)
  PROVE  /\ status' = "completed" /\ status # "completed" =>
              Settled(view, "pending") \union Settled(view, "failed") = {}
         /\ status' = "failed" /\ status # "failed" =>
              \/ Settled(view, "failed") # {}
              \/ r \in stopped
              \/ \E s \in Settled(view, "pending") : \E t \in DependsOn[s] :
                   view[t] \in {"absent", "cancelled"}
<1>1. pc[r] = "idle" /\ Fits(r) /\ status' = Outcome(r)
  BY AtWorkIsToken DEF Finish
<1>2. mem[r] = view
  <2>1. \A s \in Subtasks : mem[r][s] = view[s]
    BY <1>1 DEF Fits, ViewFits, Viewing, AtWork
  <2>. QED BY <2>1 DEF IInv, Types, TypeOK
<1>3. /\ seen[r] \in {"running", "paused", "cancelled"}
      /\ Settled(view, "running") = {}
  BY <1>1 DEF Fits, StatusFits, ViewFits, FlightFits, Empty, Idle, Settled
<1>4. status' # status => /\ seen[r] = "running"
                          /\ status' = IF Settled(view, "pending") = {} /\ Settled(view, "failed") = {}
                                       THEN "completed" ELSE "failed"
  BY <1>1, <1>2, <1>3 DEF Outcome
<1>5. seen[r] = "running" => \/ r \in stopped \/ Settled(view, "failed") # {}
                             \/ \A s \in Subtasks : ~Ready(view, s)
  BY <1>1, <1>2 DEF Fits, IdleFits
<1>6. view \in [Subtasks -> RowStatus]
  BY DEF IInv, Types, TypeOK
<1>. QED BY <1>3, <1>4, <1>5, <1>6, FirstPendingWaits

\* A run completes with nothing pending or failed, and fails for a cause.
THEOREM EndsForCause ==
  ASSUME LooperAssumption
  PROVE  Spec /\ []OneStart => OutcomeJustified
<1>1. IInv /\ [Next]_vars =>
        [\A r \in Runtimes : pc[r] = "idle" /\ pc'[r] = "leave" =>
           /\ status' = "completed" /\ status # "completed" =>
                Settled(view, "pending") \union Settled(view, "failed") = {}
           /\ status' = "failed" /\ status # "failed" =>
                \/ Settled(view, "failed") # {}
                \/ r \in stopped
                \/ \E s \in Settled(view, "pending") : \E t \in DependsOn[s] :
                     view[t] \in {"absent", "cancelled"}]_vars
  BY OnlyFinishLeaves, FinishJustified
<1>. QED BY <1>1, Invariant, PTL DEF Spec, OutcomeJustified

\* A runtime leaves a running run only when it had seen it paused.
THEOREM LeavesOnPause ==
  ASSUME LooperAssumption
  PROVE  Spec /\ []OneStart => LeavesOnlyWhenPaused
<1>1. IInv =>
        [\A r \in Runtimes : pc[r] = "leave" /\ pc'[r] = "off" /\ daemon' = "up"
           => status # "running" \/ seen[r] = "paused"]_vars
  <2>. SUFFICES ASSUME IInv, NEW r \in Runtimes, pc[r] = "leave"
                PROVE  status # "running" \/ seen[r] = "paused"
    OBVIOUS
  <2>1. Fits(r)
    BY AtWorkIsToken
  <2>. QED BY <2>1 DEF Fits, StatusFits, Terminal
<1>. QED BY <1>1, Invariant, PTL DEF Spec, LeavesOnlyWhenPaused

================================================================================
