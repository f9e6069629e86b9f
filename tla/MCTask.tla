------------------------------- MODULE MCTask -------------------------------
(* A task of three subtasks: two that may run side by side, and a third that    *)
(* depends on the first and runs alone.                                         *)
ThreeSubtasks == <<{}, {}, {1}>>
TwoParallel == {1, 2}

\* Nothing was done before, or only the third subtask is left: with its
\* dependency completed, or with its dependency cancelled.
FreshOrStarted == {<<"planned", "planned", "planned">>,
                   <<"completed", "cancelled", "planned">>,
                   <<"cancelled", "completed", "planned">>}

\* A request for the whole task, for a subtask with its dependency, and for a
\* subtask whose dependency is left out: refused unless that is completed.
WholeOrPart == {{}, {1, 3}, {3}}
=============================================================================
