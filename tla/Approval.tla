------------------------------ MODULE Approval ------------------------------
(* crates/openfang-kernel/src/approval.rs: an agent's dangerous tool call waits *)
(* on a oneshot channel until an operator decides or its timer fires.  The map  *)
(* of pending requests, the history and the channel are three objects: whoever  *)
(* takes the entry out of the map writes the history and the channel later.     *)
EXTENDS Naturals, Sequences, FiniteSets

CONSTANTS
  Requests,    \* tool calls that need an approval
  AgentOf,     \* the agent of each
  Operators,   \* operators that may decide at the same time
  MaxPending,  \* MAX_PENDING_PER_AGENT
  MaxRecent    \* MAX_RECENT_APPROVALS

None == "none"
Decisions == {"approved", "denied"}

VARIABLES
  pending,  \* the requests in the map
  recent,   \* history, newest first
  channel,  \* request -> decision sent to it
  pc,       \* request -> where its caller is
  result,   \* request -> what request_approval returned
  op,       \* operator -> the resolve call it is in
  told      \* history: decisions resolve reported as accepted

vars == <<pending, recent, channel, pc, result, op, told>>

Idle == [step |-> "idle", about |-> None, decision |-> None]

Init ==
  /\ pending = {}
  /\ recent = <<>>
  /\ channel = [r \in Requests |-> None]
  /\ pc = [r \in Requests |-> "new"]
  /\ result = [r \in Requests |-> None]
  /\ op = [o \in Operators |-> Idle]
  /\ told = {}

Goto(r, l) == pc' = [pc EXCEPT ![r] = l]
Answer(r, d) == result' = [result EXCEPT ![r] = d] /\ Goto(r, "done")

Pushed(r, d) ==
  LET longer == <<[about |-> r, decision |-> d]>> \o recent
  IN  SubSeq(longer, 1, IF Len(longer) > MaxRecent THEN MaxRecent ELSE Len(longer))

-----------------------------------------------------------------------------
(* request_approval                                                          *)

\* The limit is tested on a count taken before the entry is inserted.
CountPending(r) ==
  /\ pc[r] = "new"
  /\ IF Cardinality({q \in pending : AgentOf[q] = AgentOf[r]}) >= MaxPending
     THEN result' = [result EXCEPT ![r] = "denied"] /\ Goto(r, "refused")
     ELSE Goto(r, "insert") /\ UNCHANGED result
  /\ UNCHANGED <<pending, recent, channel, op, told>>

Insert(r) ==
  /\ pc[r] = "insert"
  /\ pending' = pending \union {r}
  /\ Goto(r, "wait")
  /\ UNCHANGED <<recent, channel, result, op, told>>

Receive(r) ==
  /\ pc[r] = "wait"
  /\ channel[r] # None
  /\ Answer(r, channel[r])
  /\ UNCHANGED <<pending, recent, channel, op, told>>

\* The receiver is polled before the timer, and dropped when the timer wins.
TimerFires(r) ==
  /\ pc[r] = "wait"
  /\ channel[r] = None
  /\ Goto(r, "late")
  /\ UNCHANGED <<pending, recent, channel, result, op, told>>

TakeBack(r) ==
  /\ pc[r] = "late"
  /\ pending' = pending \ {r}
  /\ Goto(r, "record")
  /\ UNCHANGED <<recent, channel, result, op, told>>

RecordTimeoutQuietly(r) ==    \* mutant: no record when resolve took the entry first
  /\ pc[r] = "record"
  /\ recent' = IF \E t \in told : t.about = r THEN recent ELSE Pushed(r, "timed_out")
  /\ Answer(r, "timed_out")
  /\ UNCHANGED <<pending, channel, op, told>>

RecordTimeout(r) ==
  /\ pc[r] = "record"
  /\ recent' = Pushed(r, "timed_out")
  /\ Answer(r, "timed_out")
  /\ UNCHANGED <<pending, channel, op, told>>

-----------------------------------------------------------------------------
(* resolve                                                                   *)

OpAt(o, l) == op[o].step = l

Take(o, r, d) ==
  /\ OpAt(o, "idle")
  /\ r \in pending
  /\ pending' = pending \ {r}
  /\ op' = [op EXCEPT ![o] = [step |-> "push", about |-> r, decision |-> d]]
  /\ UNCHANGED <<recent, channel, pc, result, told>>

Push(o) ==
  /\ OpAt(o, "push")
  /\ recent' = Pushed(op[o].about, op[o].decision)
  /\ op' = [op EXCEPT ![o].step = "send"]
  /\ UNCHANGED <<pending, channel, pc, result, told>>

\* The send fails silently when the receiver is gone; the operator is told that
\* the decision was accepted either way.
Send(o) ==
  /\ OpAt(o, "send")
  /\ LET r == op[o].about
     IN  /\ channel' = IF pc[r] = "wait" THEN [channel EXCEPT ![r] = op[o].decision] ELSE channel
         /\ told' = told \union {[about |-> r, decision |-> op[o].decision, by |-> o]}
  /\ op' = [op EXCEPT ![o] = Idle]
  /\ UNCHANGED <<pending, recent, pc, result>>

-----------------------------------------------------------------------------
\* Every request has its answer: nothing has to happen any more.
Rest ==
  /\ \A r \in Requests : pc[r] \in {"done", "refused"}
  /\ \A o \in Operators : OpAt(o, "idle")
  /\ UNCHANGED vars

Next ==
  \/ \E r \in Requests :
       \/ CountPending(r) \/ Insert(r) \/ Receive(r)
       \/ TimerFires(r) \/ TakeBack(r) \/ RecordTimeout(r)
  \/ \E o \in Operators :
       \/ \E r \in Requests, d \in Decisions : Take(o, r, d)
       \/ Push(o) \/ Send(o)
  \/ Rest

Spec == Init /\ [][Next]_vars

-----------------------------------------------------------------------------
\* Type correctness; the history is bounded.
TypeOK ==
  /\ pending \subseteq Requests
  /\ recent \in Seq([about : Requests, decision : Decisions \union {"timed_out"}])
  /\ Len(recent) <= MaxRecent
  /\ \A r \in Requests : result[r] \in Decisions \union {None, "timed_out"}

Records(r) == {recent[i].decision : i \in {j \in DOMAIN recent : recent[j].about = r}}

\* The history is full, so the oldest records may be gone.
Evicted(r) == Len(recent) = MaxRecent /\ Records(r) = {}

\* An agent that goes on, in either direction, goes on with what the history
\* shows: an approval or a denial it acts on is the only record of the request,
\* and a call that timed out is recorded as such even when an operator was told
\* that his late decision was accepted.
HistoryAgrees ==
  \A r \in Requests :
    pc[r] = "done" =>
      \/ result[r] \in Decisions /\ (Records(r) = {result[r]} \/ Evicted(r))
      \/ /\ result[r] = "timed_out"
         /\ "timed_out" \in Records(r) \/ Len(recent) = MaxRecent
=============================================================================
