--------------------------- MODULE MCWorkflowSignals ---------------------------
(***************************************************************************)
(* Small instances of WorkflowSignals for TLC.                             *)
(***************************************************************************)
EXTENDS WorkflowSignals

CONSTANTS A, B,             \* signal names
          a1, a2, b1, b2,   \* submissions
          pause, resume, cancel

Agent   == [kind |-> "agent", name |-> None]
Noop    == [kind |-> "noop", name |-> None]
Wait(n) == [kind |-> "wait", name |-> n]

\* Work before each wait, and nothing after the last.
WorkBetweenWaits == <<Agent, Wait(A), Noop, Wait(B)>>

WorkThenWait == <<Agent, Wait(A), Noop>>

TwoWaits == <<Wait(A), Wait(B)>>

OneWait == <<Wait(A), Agent>>

NameOfClient == [c \in Clients |-> IF c \in {a1, a2} THEN A ELSE B]

\* a2 retries a1 and b2 retries b1: the retry carries the same key.
RetryKey == [c \in Clients |-> CASE c = a2 -> a1 [] c = b2 -> b1 [] OTHER -> c]

OwnKey == [c \in Clients |-> c]

ActionOfController ==
  [k \in Controllers |-> CASE k = pause -> "pause"
                           [] k = resume -> "resume"
                           [] k = cancel -> "cancel"]
================================================================================
