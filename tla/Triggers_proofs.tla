--------------------------- MODULE Triggers_proofs ---------------------------
(* Proofs about Triggers, for every number of handlers, every set of limits and *)
(* instants, any cooldown and any number of events and edits.                   *)
EXTENDS Triggers, TLAPS

-----------------------------------------------------------------------------
(* The inductive invariant                                                   *)

\* What the holder of definition_mutation_lock has done so far.
EditorInv ==
  /\ editor.step = "idle" /\ ~lost => InStep
  /\ editor.step = "compile" => editor.def = defined /\ defined.known
  /\ editor.step = "sync" =>
       /\ editor.def = defined /\ compiled = defined /\ defined.known
       /\ active = defined.def.enabled
       /\ ~editor.stale => editor.read = row
  /\ editor.step = "forget" => defined = Unknown
  /\ editor.step = "erase" => defined = Unknown /\ compiled = Unknown /\ active = FALSE

\* A row that does not exist counts nothing, and one that does counts the fires
\* recorded, until a record is lost.
CountInv ==
  /\ row.exists \/ row = NoRow
  /\ ~lost => row.count = recorded /\ row.last = lastFire

\* A handler about to write has the row in hand, unless it is out of date; and a
\* row that does not exist is about to be written only while a definition is
\* being changed.
HandlerInv ==
  \A h \in Handlers :
    At(h, "write") /\ ~handler[h].stale =>
      /\ handler[h].read = row
      /\ row.exists \/ lost \/ editor.step # "idle"

IInv == TypeOK /\ EditorInv /\ CountInv /\ HandlerInv

-----------------------------------------------------------------------------
(* Types of the records that are built                                       *)

\* The definitions that appear are definitions.
LEMMA DefinitionTyped ==
  /\ Unknown \in AnyDefinition
  /\ Unknown.known = FALSE /\ Unknown.def.enabled = FALSE /\ Unknown.def.max = 0
  /\ \A d \in AnyDefinition : /\ d.known \in BOOLEAN /\ d.def.enabled \in BOOLEAN
                              /\ d.def.max \in Limits \union {0}
                              /\ ~d.known => d = Unknown
  /\ \A d \in Definition : d \in AnyDefinition /\ d.known
<1>1. \A d \in Definition : /\ d.known = TRUE /\ d.def.enabled \in BOOLEAN
                            /\ d.def.max \in Limits
  BY DEF Definition
<1>2. Unknown.known = FALSE /\ Unknown.def.enabled = FALSE /\ Unknown.def.max = 0
  BY DEF Unknown, None
<1> QED BY <1>1, <1>2 DEF AnyDefinition

\* So are the rows: the one that is not there and the one a definition starts with.
LEMMA RowTyped ==
  /\ NoRow \in RowType /\ NoRow.exists = FALSE /\ NoRow.count = 0 /\ NoRow.last = 0 /\ NoRow.max = 0
  /\ NoRow.enabled = FALSE
  /\ \A d \in AnyDefinition :
       /\ Fresh(d) \in RowType /\ Fresh(d).exists
       /\ Fresh(d).enabled = d.def.enabled /\ Fresh(d).max = d.def.max
       /\ Fresh(d).count = 0 /\ Fresh(d).last = 0
BY DefinitionTyped DEF NoRow, RowType, Fresh

\* sync_runtime_record takes what the definition says and keeps what was counted.
LEMMA SyncedTyped ==
  ASSUME NEW d \in AnyDefinition, NEW r \in RowType
  PROVE  /\ Synced(d, r) \in RowType /\ Synced(d, r).exists
         /\ Synced(d, r).enabled = d.def.enabled /\ Synced(d, r).max = d.def.max
         /\ Synced(d, r).count = (IF r.exists THEN r.count ELSE 0)
         /\ Synced(d, r).last = (IF r.exists THEN r.last ELSE 0)
<1>1. CASE r.exists
  BY <1>1, DefinitionTyped DEF Synced, RowType
<1>2. CASE ~r.exists
  BY <1>2, RowTyped DEF Synced
<1> QED BY <1>1, <1>2

\* A fire counted into a row leaves its limits alone.
LEMMA CountedTyped ==
  ASSUME NEW r \in RowType, NEW t \in Instants \union {0}
  PROVE  LET c == [r EXCEPT !.count = @ + 1, !.last = t]
         IN  /\ c \in RowType
             /\ c.exists = r.exists /\ c.enabled = r.enabled /\ c.max = r.max
             /\ c.count = r.count + 1 /\ c.last = t
<1> DEFINE c == [r EXCEPT !.count = @ + 1, !.last = t]
<1>1. r.count + 1 \in Nat
  BY DEF RowType
<1>2. c \in RowType
  BY <1>1 DEF RowType
<1>3. /\ c.exists = r.exists /\ c.enabled = r.enabled /\ c.max = r.max
      /\ c.count = r.count + 1 /\ c.last = t
  BY DEF RowType
<1> QED BY <1>2, <1>3

\* An editor that has nothing to do.
LEMMA AtRestTyped == AtRest \in EditorType /\ AtRest.step = "idle"
BY DefinitionTyped, RowTyped DEF AtRest, EditorType

\* A handler that has no event.
LEMMA UnusedTyped == Unused \in HandlerType /\ Unused.step = "free"
BY DefinitionTyped, RowTyped DEF Unused, HandlerType

\* Marking the others out of date changes nothing else of them.
LEMMA OutdatedTyped ==
  ASSUME NEW hs \in [Handlers -> HandlerType]
  PROVE  /\ Outdated(hs) \in [Handlers -> HandlerType]
         /\ \A g \in Handlers : /\ Outdated(hs)[g].step = hs[g].step
                                /\ hs[g].step = "write" => Outdated(hs)[g].stale
BY DEF Outdated, HandlerType

-----------------------------------------------------------------------------
\* The invariant holds of an engine without definitions.
LEMMA InitInv == Init => IInv
<1> SUFFICES ASSUME Init PROVE IInv
  OBVIOUS
<1>1. TypeOK
  BY DefinitionTyped, RowTyped, AtRestTyped, UnusedTyped DEF Init, TypeOK
<1>2. InStep
  BY DefinitionTyped, RowTyped DEF Init, InStep
<1>3. EditorInv
  BY <1>2, AtRestTyped DEF Init, EditorInv
<1>4. CountInv /\ HandlerInv
  BY RowTyped, UnusedTyped DEF Init, CountInv, HandlerInv, At
<1> QED BY <1>1, <1>3, <1>4 DEF IInv

-----------------------------------------------------------------------------
(* The steps of an edit                                                      *)

\* A definition is saved: nothing but the memory changes.
LEMMA SaveKeeps ==
  ASSUME IInv, NEW d \in Definition, Save(d)
  PROVE  IInv'
<1>1. d \in AnyDefinition /\ d.known
  BY DefinitionTyped
<1>2. editor' \in EditorType /\ editor'.step = "compile" /\ editor'.def = d
  BY <1>1, RowTyped DEF Save, AtRest, EditorType
<1>3. TypeOK'
  BY <1>1, <1>2 DEF IInv, Save, TypeOK
<1>4. EditorInv'
  BY <1>1, <1>2 DEF Save, EditorInv
<1>5. CountInv' /\ HandlerInv'
  BY <1>2 DEF IInv, Save, CountInv, HandlerInv, At
<1> QED BY <1>3, <1>4, <1>5 DEF IInv

\* The definition is compiled, the active set changed and the row read.
LEMMA CompileKeeps ==
  ASSUME IInv, Compile
  PROVE  IInv'
<1>1. /\ editor.def = defined /\ defined.known
      /\ defined.def.enabled \in BOOLEAN
  BY DefinitionTyped DEF IInv, TypeOK, EditorInv, Compile
<1>2. /\ editor' \in EditorType /\ editor'.step = "sync"
      /\ editor'.def = defined /\ editor'.read = row
  BY <1>1 DEF IInv, TypeOK, Compile, EditorType
<1>3. TypeOK'
  BY <1>1, <1>2 DEF IInv, Compile, TypeOK
<1>4. EditorInv'
  BY <1>1, <1>2 DEF Compile, EditorInv
<1>5. CountInv' /\ HandlerInv'
  BY <1>2 DEF IInv, Compile, CountInv, HandlerInv, At
<1> QED BY <1>3, <1>4, <1>5 DEF IInv

\* The row is synchronised: with its counts, when the copy read is the row.
LEMMA SyncKeeps ==
  ASSUME IInv, Sync
  PROVE  IInv'
<1>1. /\ editor.def = defined /\ compiled = defined /\ defined.known
      /\ active = defined.def.enabled /\ (~editor.stale => editor.read = row)
      /\ defined \in AnyDefinition /\ editor.read \in RowType
  BY DEF IInv, TypeOK, EditorInv, EditorType, Sync
<1>2. /\ row' \in RowType /\ row'.exists
      /\ row'.enabled = defined.def.enabled /\ row'.max = defined.def.max
      /\ row'.count = (IF editor.read.exists THEN editor.read.count ELSE 0)
      /\ row'.last = (IF editor.read.exists THEN editor.read.last ELSE 0)
  BY <1>1, SyncedTyped DEF Sync
<1>3. editor' \in EditorType /\ editor'.step = "idle"
  BY AtRestTyped DEF Sync
<1>4. /\ handler' \in [Handlers -> HandlerType]
      /\ \A g \in Handlers : handler'[g].step = "write" => handler'[g].stale
  BY OutdatedTyped DEF IInv, TypeOK, Sync
<1>5. lost' \in BOOLEAN /\ (~lost' => ~lost /\ ~editor.stale)
  BY DEF IInv, TypeOK, EditorType, Sync
<1>6. TypeOK'
  BY <1>2, <1>3, <1>4, <1>5 DEF IInv, Sync, TypeOK
<1>7. EditorInv'
  <2>1. InStep'
    <3>1. row'.exists = TRUE /\ defined.known = TRUE
      BY <1>1, <1>2, DefinitionTyped DEF RowType
    <3> QED BY <1>1, <1>2, <3>1 DEF Sync, InStep
  <2> QED BY <2>1, <1>3 DEF EditorInv
<1>8. CountInv'
  <2>1. ASSUME ~lost' PROVE row'.count = recorded /\ row'.last = lastFire
    <3>1. editor.read = row /\ row.count = recorded /\ row.last = lastFire
      BY <2>1, <1>1, <1>5 DEF IInv, CountInv
    <3>2. ~row.exists => row.count = 0 /\ row.last = 0
      BY RowTyped DEF IInv, CountInv
    <3> QED BY <3>1, <3>2, <1>2
  <2> QED BY <2>1, <1>2 DEF CountInv, Sync
<1>9. HandlerInv'
  BY <1>4 DEF HandlerInv, At
<1> QED BY <1>6, <1>7, <1>8, <1>9 DEF IInv

\* A definition is removed from memory.
LEMMA RemoveKeeps ==
  ASSUME IInv, Remove
  PROVE  IInv'
<1>1. editor' \in EditorType /\ editor'.step = "forget"
  BY DEF IInv, TypeOK, Remove, EditorTo, EditorType
<1>2. TypeOK'
  BY <1>1, DefinitionTyped DEF IInv, Remove, TypeOK
<1>3. EditorInv'
  BY <1>1 DEF Remove, EditorInv
<1>4. CountInv' /\ HandlerInv'
  BY <1>1 DEF IInv, Remove, CountInv, HandlerInv, At
<1> QED BY <1>2, <1>3, <1>4 DEF IInv

\* The trigger leaves the compiled and the active set.
LEMMA ForgetKeeps ==
  ASSUME IInv, Forget
  PROVE  IInv'
<1>1. editor' \in EditorType /\ editor'.step = "erase"
  BY DEF IInv, TypeOK, Forget, EditorTo, EditorType
<1>2. TypeOK'
  BY <1>1, DefinitionTyped DEF IInv, Forget, TypeOK
<1>3. EditorInv'
  BY <1>1 DEF IInv, Forget, EditorInv
<1>4. CountInv' /\ HandlerInv'
  BY <1>1 DEF IInv, Forget, CountInv, HandlerInv, At
<1> QED BY <1>2, <1>3, <1>4 DEF IInv

\* The row goes, and what was counted with it.
LEMMA EraseKeeps ==
  ASSUME IInv, Erase
  PROVE  IInv'
<1>1. editor' \in EditorType /\ editor'.step = "idle"
  BY AtRestTyped DEF Erase
<1>2. /\ handler' \in [Handlers -> HandlerType]
      /\ \A g \in Handlers : handler'[g].step = "write" => handler'[g].stale
  BY OutdatedTyped DEF IInv, TypeOK, Erase
<1>3. TypeOK'
  BY <1>1, <1>2, RowTyped DEF IInv, Erase, TypeOK
<1>4. EditorInv'
  <2>1. defined = Unknown /\ compiled = Unknown /\ active = FALSE
    BY DEF IInv, EditorInv, Erase
  <2>2. InStep'
    BY <2>1, RowTyped, DefinitionTyped DEF Erase, InStep
  <2> QED BY <2>2, <1>1 DEF EditorInv
<1>5. CountInv'
  BY RowTyped DEF Erase, CountInv
<1>6. HandlerInv'
  BY <1>2 DEF HandlerInv, At
<1> QED BY <1>3, <1>4, <1>5, <1>6 DEF IInv

-----------------------------------------------------------------------------
(* The steps of an event                                                     *)

\* A handler that goes somewhere without reading the row, and leaves all else.
LEMMA HandlerMoves ==
  ASSUME IInv, NEW h \in Handlers, NEW to \in HandlerType, to.step # "write",
         handler' = [handler EXCEPT ![h] = to],
         UNCHANGED <<defined, compiled, active, row, editor, recorded, lastFire, lost>>
  PROVE  IInv'
<1>1. TypeOK'
  BY DEF IInv, TypeOK
<1>2. EditorInv' /\ CountInv'
  BY DEF IInv, EditorInv, InStep, CountInv
<1>3. HandlerInv'
  BY DEF IInv, TypeOK, HandlerInv, At
<1> QED BY <1>1, <1>2, <1>3 DEF IInv

\* The snapshot and the dispatch of an event touch nothing.
LEMMA EventKeeps ==
  ASSUME IInv, NEW h \in Handlers,
         \/ \E at \in Instants : Begin(h, at)
         \/ Evaluate(h) \/ DispatchSucceeds(h) \/ DispatchFails(h)
  PROVE  IInv'
<1>1. handler \in [Handlers -> HandlerType] /\ compiled \in AnyDefinition
  BY DEF IInv, TypeOK
<1>2. ASSUME NEW at \in Instants, Begin(h, at) PROVE IInv'
  <2> DEFINE to == [Unused EXCEPT !.step = "evaluate", !.at = at, !.def = compiled]
  <2>1. to \in HandlerType /\ to.step # "write"
    BY <1>1, UnusedTyped DEF HandlerType
  <2> QED BY <2>1, <1>2, HandlerMoves DEF Begin
<1>3. ASSUME NEW l \in {"dispatch", "record"}, handler' = [handler EXCEPT ![h].step = l],
             UNCHANGED <<defined, compiled, active, row, editor, recorded, lastFire, lost>>
      PROVE  IInv'
  <2> DEFINE to == [handler[h] EXCEPT !.step = l]
  <2>1. to \in HandlerType /\ to.step # "write"
    BY <1>1 DEF HandlerType
  <2>2. handler' = [handler EXCEPT ![h] = to]
    BY <1>1, <1>3
  <2> QED BY <2>1, <2>2, <1>3, HandlerMoves
<1>4. ASSUME End(h),
             UNCHANGED <<defined, compiled, active, row, editor, recorded, lastFire, lost>>
      PROVE  IInv'
  BY <1>4, UnusedTyped, HandlerMoves DEF End
<1>5. CASE Evaluate(h)
  BY <1>3, <1>4, <1>5 DEF Evaluate
<1>6. CASE DispatchSucceeds(h) \/ DispatchFails(h)
  BY <1>3, <1>4, <1>6 DEF DispatchSucceeds, DispatchFails
<1> QED BY <1>2, <1>5, <1>6

\* The row is read; when there is none, a definition is being changed.
LEMMA ReadRowKeeps ==
  ASSUME IInv, NEW h \in Handlers, ReadRow(h)
  PROVE  IInv'
<1>1. CASE row.exists \/ defined.known \/ compiled.known
  <2>1. /\ handler \in [Handlers -> HandlerType] /\ row \in RowType
        /\ defined \in AnyDefinition /\ compiled \in AnyDefinition
    BY DEF IInv, TypeOK
  <2>2. /\ handler' \in [Handlers -> HandlerType]
        /\ handler'[h].read = row
        /\ \A g \in Handlers \ {h} : handler'[g] = handler[g]
    BY <1>1, <2>1 DEF ReadRow, HandlerType
  <2>3. UNCHANGED <<defined, compiled, active, row, editor, recorded, lastFire, lost>>
    BY <1>1 DEF ReadRow
  <2>4. row.exists \/ lost \/ editor.step # "idle"
    BY <1>1, <2>1, DefinitionTyped DEF IInv, EditorInv, InStep, RowType, TypeOK
  <2>5. TypeOK'
    BY <2>2, <2>3 DEF IInv, TypeOK
  <2>6. EditorInv' /\ CountInv'
    BY <2>3 DEF IInv, EditorInv, InStep, CountInv
  <2>7. HandlerInv'
    <3> SUFFICES ASSUME NEW g \in Handlers, handler'[g].step = "write", ~handler'[g].stale
                 PROVE  handler'[g].read = row /\ (row.exists \/ lost \/ editor.step # "idle")
      BY <2>3 DEF HandlerInv, At
    <3>1. CASE g = h
      BY <3>1, <2>2, <2>4
    <3>2. CASE g # h
      BY <3>2, <2>2 DEF IInv, HandlerInv, At
    <3> QED BY <3>1, <3>2
  <2> QED BY <2>5, <2>6, <2>7 DEF IInv
<1>2. CASE ~(row.exists \/ defined.known \/ compiled.known)
  BY <1>2, UnusedTyped, HandlerMoves DEF ReadRow, End
<1> QED BY <1>1, <1>2

\* The row is written back: with one fire more and the limits it had, when the
\* copy is the row.
LEMMA WriteRowKeeps ==
  ASSUME IInv, NEW h \in Handlers, WriteRow(h)
  PROVE  IInv'
<1> DEFINE known == handler[h].read
           base  == IF known.exists THEN known ELSE Fresh(handler[h].def)
<1>1. /\ handler \in [Handlers -> HandlerType] /\ row \in RowType /\ editor \in EditorType
      /\ known \in RowType /\ handler[h].def \in AnyDefinition
      /\ handler[h].at \in Instants \union {0}
      /\ recorded \in Nat
  BY DEF IInv, TypeOK, HandlerType
<1>2. base \in RowType /\ base.exists
  BY <1>1, RowTyped
<1>3. /\ row' \in RowType
      /\ row'.exists = base.exists /\ row'.enabled = base.enabled /\ row'.max = base.max
      /\ row'.count = base.count + 1 /\ row'.last = handler[h].at
  <2> HIDE DEF base
  <2>1. row' = [base EXCEPT !.count = @ + 1, !.last = handler[h].at]
    BY DEF WriteRow, base
  <2> QED BY <2>1, <1>1, <1>2, CountedTyped
<1>4. /\ handler' \in [Handlers -> HandlerType]
      /\ \A g \in Handlers : handler'[g].step = "write" => handler'[g].stale
  <2>1. [handler EXCEPT ![h] = Unused] \in [Handlers -> HandlerType]
    BY <1>1, UnusedTyped
  <2> QED BY <2>1, OutdatedTyped DEF WriteRow
<1>5. /\ editor' \in EditorType /\ editor'.step = editor.step /\ editor'.def = editor.def
      /\ editor.step = "sync" => editor'.stale
  BY <1>1 DEF WriteRow, EditorType
<1>6. lost' \in BOOLEAN /\ (~lost' => ~lost /\ ~handler[h].stale)
  BY <1>1 DEF IInv, TypeOK, HandlerType, WriteRow
<1>7. TypeOK'
  <2>1. /\ UNCHANGED <<defined, compiled, active>>
        /\ recorded' \in Nat /\ lastFire' \in Instants \union {0}
    BY <1>1 DEF WriteRow
  <2> HIDE DEF known, base
  <2> QED BY <2>1, <1>3, <1>4, <1>5, <1>6 DEF IInv, TypeOK
<1>8. ~lost' => known = row /\ (row.exists \/ editor.step # "idle")
  BY <1>6 DEF IInv, HandlerInv, WriteRow
<1>9. EditorInv'
  <2>1. ASSUME editor.step = "idle", ~lost' PROVE InStep'
    <3>1. known = row /\ base = row /\ row.exists
      BY <2>1, <1>8
    <3>2. InStep
      BY <2>1, <1>6 DEF IInv, EditorInv
    <3> QED BY <3>1, <3>2, <1>3 DEF InStep, WriteRow
  <2> QED BY <2>1, <1>5 DEF IInv, EditorInv, WriteRow
<1>10. CountInv'
  <2>1. ASSUME ~lost' PROVE base.count = recorded
    <3>1. known = row /\ row.count = recorded
      BY <2>1, <1>6, <1>8 DEF IInv, CountInv
    <3>2. ~row.exists => row.count = 0
      BY RowTyped DEF IInv, CountInv
    <3> QED BY <3>1, <3>2, <1>1, RowTyped
  <2> QED BY <2>1, <1>2, <1>3 DEF CountInv, WriteRow
<1>11. HandlerInv'
  BY <1>4 DEF HandlerInv, At
<1> QED BY <1>7, <1>9, <1>10, <1>11 DEF IInv

-----------------------------------------------------------------------------
(* The theorems                                                              *)

\* Every step of an edit or of an event keeps the invariant.
LEMMA NextKeeps == IInv /\ [Next]_vars => IInv'
<1> SUFFICES ASSUME IInv, [Next]_vars PROVE IInv'
  OBVIOUS
<1>1. CASE \E d \in Definition : Save(d)
  BY <1>1, SaveKeeps
<1>2. CASE Compile \/ Sync \/ Remove \/ Forget \/ Erase
  BY <1>2, CompileKeeps, SyncKeeps, RemoveKeeps, ForgetKeeps, EraseKeeps
<1>3. CASE \E h \in Handlers :
             \/ \E at \in Instants : Begin(h, at)
             \/ Evaluate(h) \/ DispatchSucceeds(h) \/ DispatchFails(h)
  BY <1>3, EventKeeps
<1>4. CASE \E h \in Handlers : ReadRow(h) \/ WriteRow(h)
  BY <1>4, ReadRowKeeps, WriteRowKeeps
<1>5. CASE UNCHANGED vars
  BY <1>5 DEF vars, IInv, TypeOK, EditorInv, InStep, CountInv, HandlerInv, At
<1> QED BY <1>1, <1>2, <1>3, <1>4, <1>5 DEF Next, Rest

\* The invariant holds of every behaviour.
THEOREM Invariant == Spec => []IInv
<1>1. Init => IInv
  BY InitInv
<1>2. IInv /\ [Next]_vars => IInv'
  BY NextKeeps
<1> QED BY <1>1, <1>2, PTL DEF Spec

\* Definitions, active set, row, editor and handlers keep their types.
THEOREM TypeCorrect == Spec => []TypeOK
<1>1. IInv => TypeOK
  BY DEF IInv
<1> QED BY <1>1, Invariant, PTL

\* With no edit under way and no record lost, what events are matched against
\* and the row say what the definition says: post_event_ingress_v1 and
\* upsert_definition may interleave in any way.
THEOREM DefinitionFollowed == Spec => []FollowsDefinition
<1>1. IInv => FollowsDefinition
  BY DEF IInv, EditorInv, FollowsDefinition
<1> QED BY <1>1, Invariant, PTL

\* No event fires the trigger beyond max_fires or within its cooldown, as counted
\* by the fires recorded, until a record is lost.
THEOREM LimitsHold == Spec => LimitsKept
<1> DEFINE Kept ==
      \A h \in Handlers :
        At(h, "evaluate") /\ handler'[h].step = "dispatch" /\ ~lost =>
          /\ row.max > 0 => recorded < row.max
          /\ lastFire > 0 => lastFire + Cooldown <= handler[h].at
<1>1. ASSUME IInv, NEW h \in Handlers, Evaluate(h), handler'[h].step = "dispatch", ~lost
      PROVE  /\ row.max > 0 => recorded < row.max
             /\ lastFire > 0 => lastFire + Cooldown <= handler[h].at
  <2>1. handler \in [Handlers -> HandlerType] /\ handler[h].def \in AnyDefinition
    BY <1>1 DEF IInv, TypeOK, HandlerType
  <2>2. WouldDispatch(Runtime(handler[h].def), handler[h].at)
    BY <1>1, <2>1, UnusedTyped DEF Evaluate, End
  <2>3. row.count = recorded /\ row.last = lastFire
    BY <1>1 DEF IInv, CountInv
  <2>4. CASE row.exists
    BY <2>2, <2>3, <2>4 DEF Runtime, WouldDispatch
  <2>5. CASE ~row.exists
    <3>1. row.max = 0 /\ lastFire = 0
      BY <2>3, <2>5, <1>1, RowTyped DEF IInv, CountInv
    <3> QED BY <3>1
  <2> QED BY <2>4, <2>5
<1>2. ASSUME IInv, NEW h \in Handlers, Next,
             At(h, "evaluate"), handler'[h].step = "dispatch"
      PROVE  Evaluate(h)
  <2>1. handler \in [Handlers -> HandlerType]
    BY <1>2 DEF IInv, TypeOK
  <2>2. CASE \/ \E d \in Definition : Save(d)
             \/ Compile \/ Remove \/ Forget \/ Rest
    BY <1>2, <2>2 DEF Save, Compile, Remove, Forget, Rest, vars, At
  <2>3. CASE Sync \/ Erase
    BY <1>2, <2>1, <2>3, OutdatedTyped DEF Sync, Erase, At
  <2>4. ASSUME NEW g \in Handlers, \E at \in Instants : Begin(g, at)
        PROVE  Evaluate(h)
    BY <1>2, <2>1, <2>4 DEF Begin, At, Unused
  <2>5. ASSUME NEW g \in Handlers, Evaluate(g)
        PROVE  Evaluate(h)
    BY <1>2, <2>1, <2>5, UnusedTyped DEF Evaluate, End, At
  <2>6. ASSUME NEW g \in Handlers, DispatchSucceeds(g) \/ DispatchFails(g) \/ ReadRow(g)
        PROVE  Evaluate(h)
    BY <1>2, <2>1, <2>6, UnusedTyped DEF DispatchSucceeds, DispatchFails, ReadRow, End, At
  <2>7. ASSUME NEW g \in Handlers, WriteRow(g)
        PROVE  Evaluate(h)
    <3>1. [handler EXCEPT ![g] = Unused] \in [Handlers -> HandlerType]
      BY <2>1, UnusedTyped
    <3> QED BY <1>2, <2>1, <2>7, <3>1, OutdatedTyped, UnusedTyped DEF WriteRow, At
  <2> QED BY <1>2, <2>2, <2>3, <2>4, <2>5, <2>6, <2>7 DEF Next
<1>3. IInv /\ [Next]_vars => [Kept]_vars
  BY <1>1, <1>2
<1> QED BY <1>3, Invariant, PTL DEF Spec, LimitsKept

=============================================================================
