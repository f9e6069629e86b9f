----------------------------- MODULE LooperTask -----------------------------
(* What a looper run is about: the task, its subtasks in position order with    *)
(* their dependencies, the policy, and how much of its life is looked at.      *)
EXTENDS Naturals

CONSTANTS
  N,               \* subtasks of the task
  DependsOn,       \* subtask |-> the subtasks it depends on
  Parallelizable,  \* the subtasks that may run beside others
  MaxParallel,     \* effective_parallelism of the execution policy
  Plans,           \* what the subtasks' statuses may be before the run
  Scopes,          \* scopes a request may name; {} is a request without one
  Runtimes,        \* slots for runtime tasks of the run, numbered from 1
  Callers,         \* requests the API serves at the same time
  MaxControls,     \* bound: operator requests in a behaviour
  MaxCrashes,      \* bound: process exits in a behaviour
  MaxDispatches    \* bound: dispatch rows created in a behaviour

Subtasks == 1..N

ASSUME LooperAssumption ==
  /\ N \in Nat \ {0}
  /\ DependsOn \in [Subtasks -> SUBSET Subtasks]
  /\ \A s \in Subtasks : \A t \in DependsOn[s] : t < s
  /\ Parallelizable \subseteq Subtasks
  /\ MaxParallel \in Nat \ {0}
  /\ Plans \subseteq [Subtasks -> {"planned", "completed", "failed", "cancelled"}]
  /\ Scopes \subseteq SUBSET Subtasks
  /\ Runtimes \subseteq Nat \ {0}
  /\ MaxControls \in Nat /\ MaxCrashes \in Nat /\ MaxDispatches \in Nat
=============================================================================
