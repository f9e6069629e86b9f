------------------------------ MODULE Triggers ------------------------------
(* Event ingress and one trigger of crates/openfang-kernel/src/trigger_v2.rs.   *)
(* The definition and the set of active triggers are kept in memory; how often  *)
(* and when the trigger fired is a row of the store.  A handler of POST events  *)
(* takes a snapshot of both, dispatches, and records the fire by reading the    *)
(* row and writing it back whole; a change of the definition writes it too.     *)
EXTENDS Naturals, FiniteSets

CONSTANTS
  Handlers,   \* events that are handled at the same time
  Limits,     \* values of max_fires; 0 is no limit
  Cooldown,   \* cooldown_secs
  Instants,   \* values of occurred_at, which the sender of an event may choose
  MaxEvents,  \* bound: events in a behaviour
  MaxEdits    \* bound: definitions saved or removed

None == [enabled |-> FALSE, max |-> 0]    \* no definition
NoRow == [exists |-> FALSE, enabled |-> FALSE, max |-> 0, count |-> 0, last |-> 0]

VARIABLES
  defined,     \* the definition, and the trigger compiled from it
  compiled,
  active,      \* whether the trigger is in active_compiled
  row,         \* trigger_runtime; last = 0 is a trigger that did not fire
  editor,      \* the holder of definition_mutation_lock: step, definition, row read
  handler,     \* step, occurred_at, trigger matched, row read
  events, edits,
  recorded,    \* history: fires recorded since the row was created ...
  lastFire,    \* ... and when the last one of them occurred
  lost         \* history: a row was written from a copy that was out of date

\* The field "stale" of editor and handler is history too: the row was written
\* after it was read.
vars == <<defined, compiled, active, row, editor, handler, events, edits,
          recorded, lastFire, lost>>

\* The row a definition stands for as long as nothing is stored.
Fresh(d) == [exists |-> TRUE, enabled |-> d.def.enabled, max |-> d.def.max,
             count |-> 0, last |-> 0]

Definition == [known : {TRUE}, def : [enabled : BOOLEAN, max : Limits]]
Unknown    == [known |-> FALSE, def |-> None]

AtRest == [step |-> "idle", def |-> Unknown, read |-> NoRow, stale |-> FALSE]
Unused == [step |-> "free", at |-> 0, def |-> Unknown, read |-> NoRow, stale |-> FALSE]

Init ==
  /\ defined = Unknown /\ compiled = Unknown
  /\ active = FALSE
  /\ row = NoRow
  /\ editor = AtRest
  /\ handler = [h \in Handlers |-> Unused]
  /\ events = 0 /\ edits = 0
  /\ recorded = 0 /\ lastFire = 0
  /\ lost = FALSE

-----------------------------------------------------------------------------
(* upsert_definition, remove_definition                                      *)

EditorTo(l) == editor' = [editor EXCEPT !.step = l]

Save(d) ==
  /\ editor.step = "idle"
  /\ edits < MaxEdits
  /\ edits' = edits + 1
  /\ defined' = d
  /\ editor' = [AtRest EXCEPT !.step = "compile", !.def = d]
  /\ UNCHANGED <<compiled, active, row, handler, events, recorded, lastFire, lost>>

\* From here to the end the write lock of active_compiled is held.
Compile ==
  /\ editor.step = "compile"
  /\ compiled' = editor.def
  /\ active' = editor.def.def.enabled
  /\ editor' = [editor EXCEPT !.step = "sync", !.read = row]
  /\ UNCHANGED <<defined, row, handler, events, edits, recorded, lastFire, lost>>

SyncedAnew(d, r) == Fresh(d)    \* mutant: the row is built from the definition

SyncedOnce(d, r) ==    \* mutant: a row that exists is left as it is
  IF r.exists THEN r ELSE Fresh(d)

\* sync_runtime_record: what was counted is kept.
Synced(d, r) ==
  IF r.exists THEN [r EXCEPT !.enabled = d.def.enabled, !.max = d.def.max] ELSE Fresh(d)

\* Who has read the row and not written it yet is out of date from now on.
Outdated(hs) == [g \in Handlers |-> [hs[g] EXCEPT !.stale = hs[g].step = "write"]]

Sync ==
  /\ editor.step = "sync"
  /\ row' = Synced(editor.def, editor.read)
  /\ lost' = (lost \/ editor.stale)
  /\ handler' = Outdated(handler)
  /\ editor' = AtRest
  /\ UNCHANGED <<defined, compiled, active, events, edits, recorded, lastFire>>

Remove ==
  /\ editor.step = "idle"
  /\ defined.known
  /\ edits < MaxEdits
  /\ edits' = edits + 1
  /\ defined' = Unknown
  /\ EditorTo("forget")
  /\ UNCHANGED <<compiled, active, row, handler, events, recorded, lastFire, lost>>

Forget ==
  /\ editor.step = "forget"
  /\ compiled' = Unknown
  /\ active' = FALSE
  /\ EditorTo("erase")
  /\ UNCHANGED <<defined, row, handler, events, edits, recorded, lastFire, lost>>

Erase ==
  /\ editor.step = "erase"
  /\ row' = NoRow
  /\ recorded' = 0 /\ lastFire' = 0
  /\ handler' = Outdated(handler)
  /\ editor' = AtRest
  /\ UNCHANGED <<defined, compiled, active, events, edits, lost>>

-----------------------------------------------------------------------------
(* post_event_ingress_v1                                                     *)

At(h, l) == handler[h].step = l
End(h)   == handler' = [handler EXCEPT ![h] = Unused]

Matching == editor.step # "sync"    \* active_compiled can be read

\* match_engine_snapshot reads the active triggers ...
Begin(h, at) ==
  /\ At(h, "free")
  /\ events < MaxEvents
  /\ Matching /\ active
  /\ events' = events + 1
  /\ handler' = [handler EXCEPT ![h] = [Unused EXCEPT !.step = "evaluate", !.at = at, !.def = compiled]]
  /\ UNCHANGED <<defined, compiled, active, row, editor, edits, recorded, lastFire, lost>>

Runtime(d) == IF row.exists THEN row ELSE Fresh(d)

\* evaluate_compiled_trigger, cooldown_active
WouldDispatch(r, at) ==
  /\ r.enabled
  /\ r.max > 0 => r.count < r.max
  /\ r.last > 0 => r.last + Cooldown <= at

\* ... and then the rows; the trigger is evaluated on what was read.
Evaluate(h) ==
  /\ At(h, "evaluate")
  /\ IF WouldDispatch(Runtime(handler[h].def), handler[h].at)
     THEN handler' = [handler EXCEPT ![h].step = "dispatch"]
     ELSE End(h)
  /\ UNCHANGED <<defined, compiled, active, row, editor, events, edits, recorded, lastFire, lost>>

DispatchSucceeds(h) ==
  /\ At(h, "dispatch")
  /\ handler' = [handler EXCEPT ![h].step = "record"]
  /\ UNCHANGED <<defined, compiled, active, row, editor, events, edits, recorded, lastFire, lost>>

DispatchFails(h) ==
  /\ At(h, "dispatch")
  /\ End(h)
  /\ UNCHANGED <<defined, compiled, active, row, editor, events, edits, recorded, lastFire, lost>>

\* record_successful_fire: the row, or what the definition stands for ...
ReadRow(h) ==
  /\ At(h, "record")
  /\ IF row.exists \/ defined.known \/ compiled.known
     THEN handler' = [handler EXCEPT ![h].step = "write", ![h].read = row,
                        ![h].def = IF defined.known THEN defined ELSE compiled]
     ELSE End(h)
  /\ UNCHANGED <<defined, compiled, active, row, editor, events, edits, recorded, lastFire, lost>>

\* ... is written back whole: limits and enabled too.
WriteRow(h) ==
  /\ At(h, "write")
  /\ LET known == handler[h].read
         base  == IF known.exists THEN known ELSE Fresh(handler[h].def)
     IN  row' = [base EXCEPT !.count = @ + 1, !.last = handler[h].at]
  /\ lost' = (lost \/ handler[h].stale)
  /\ handler' = Outdated([handler EXCEPT ![h] = Unused])
  /\ editor' = [editor EXCEPT !.stale = editor.step = "sync"]
  /\ recorded' = recorded + 1
  /\ lastFire' = handler[h].at
  /\ UNCHANGED <<defined, compiled, active, events, edits>>

-----------------------------------------------------------------------------
Rest ==
  /\ editor.step = "idle" /\ \A h \in Handlers : At(h, "free")
  /\ UNCHANGED vars

Next ==
  \/ \E d \in Definition : Save(d)
  \/ Compile \/ Sync \/ Remove \/ Forget \/ Erase
  \/ \E h \in Handlers :
       \/ \E at \in Instants : Begin(h, at)
       \/ Evaluate(h) \/ DispatchSucceeds(h) \/ DispatchFails(h)
       \/ ReadRow(h) \/ WriteRow(h)
  \/ Rest

Spec == Init /\ [][Next]_vars

-----------------------------------------------------------------------------
RowType == [exists : BOOLEAN, enabled : BOOLEAN, max : Limits \union {0},
            count : Nat, last : Instants \union {0}]

AnyDefinition == Definition \union {Unknown}

EditorType ==
  [step : {"idle", "compile", "sync", "forget", "erase"},
   def : AnyDefinition, read : RowType, stale : BOOLEAN]

HandlerType ==
  [step : {"free", "evaluate", "dispatch", "record", "write"}, at : Instants \union {0},
   def : AnyDefinition, read : RowType, stale : BOOLEAN]

\* Type correctness of the memory, the row, the editor and the handlers.
TypeOK ==
  /\ defined \in AnyDefinition /\ compiled \in AnyDefinition
  /\ active \in BOOLEAN /\ lost \in BOOLEAN
  /\ row \in RowType
  /\ editor \in EditorType
  /\ handler \in [Handlers -> HandlerType]
  /\ recorded \in Nat /\ lastFire \in Instants \union {0}

\* The editor is done and the memory, the set of active triggers and the row say
\* of the trigger what its definition says.
InStep ==
  /\ compiled = defined
  /\ active = defined.def.enabled
  /\ row.exists = defined.known
  /\ row.enabled = defined.def.enabled /\ row.max = defined.def.max

\* When no definition is being changed, the set that events are matched against
\* and the row agree with the last definition saved or removed, unless a fire
\* was recorded or the row synchronised from a copy that was out of date: events
\* between their snapshot, dispatch and record disturb nothing by themselves.
FollowsDefinition == editor.step = "idle" /\ ~lost => InStep

\* A trigger is not fired once the fires recorded of it have reached max_fires,
\* nor within the cooldown of the last one recorded, unless a record was lost as
\* above: edits that enable, disable, limit, remove or restore the trigger
\* between an event's snapshot, dispatch and record keep what was counted.
LimitsKept ==
  [][\A h \in Handlers :
       At(h, "evaluate") /\ handler'[h].step = "dispatch" /\ ~lost =>
         /\ row.max > 0 => recorded < row.max
         /\ lastFire > 0 => lastFire + Cooldown <= handler[h].at]_vars
=============================================================================
