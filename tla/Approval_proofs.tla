---------------------------- MODULE Approval_proofs ----------------------------
(***************************************************************************)
(* Proofs about Approval, for any number of tool calls, agents and         *)
(* operators, and any limits.                                              *)
(*                                                                         *)
(* The map, the history and the channel are written one after the other.   *)
(* Whoever takes a request out of the map is the only operator to decide   *)
(* it, and has written the history before he sends; what the caller reads  *)
(* from the channel is therefore on record, unless the history was full    *)
(* and dropped it.                                                         *)
(***************************************************************************)
EXTENDS Approval, SequenceTheorems, TLAPS

\* The history has a length.
ApprovalAssumption == MaxRecent \in Nat

Verdicts == Decisions \union {"timed_out"}
Entry == [about : Requests, decision : Verdicts]

Full == Len(recent) = MaxRecent

\* The operator has taken the request out of the map and not answered it yet.
Deciding(o, r) == op[o].step \in {"push", "send"} /\ op[o].about = r

Typed ==
  /\ TypeOK
  /\ channel \in [Requests -> Decisions \union {None}]
  /\ pc \in [Requests -> {"new", "insert", "wait", "late", "record", "done", "refused"}]
  /\ result \in [Requests -> Verdicts \union {None}]
  /\ op \in [Operators -> [step : {"idle", "push", "send"}, about : Requests \union {None},
                           decision : Decisions \union {None}]]
  /\ \A o \in Operators : op[o].step # "idle" =>
       op[o].about \in Requests /\ op[o].decision \in Decisions

\* A request is in the map, with one operator, answered, or none of these.
OneDecider ==
  \A r \in Requests :
    /\ pc[r] \in {"new", "insert", "refused"} =>
         /\ r \notin pending /\ channel[r] = None /\ Records(r) = {}
         /\ \A o \in Operators : ~Deciding(o, r)
    /\ r \in pending \/ (\E o \in Operators : Deciding(o, r)) => channel[r] = None
    /\ r \in pending => \A o \in Operators : ~Deciding(o, r)
    /\ \A o, q \in Operators : Deciding(o, r) /\ Deciding(q, r) => o = q

\* What the history shows of a request: the decision of the operator who has it
\* or sent it, once he has written it, and the timeout, once the caller has.
OnRecord ==
  \A r \in Requests :
    /\ \A o \in Operators : Deciding(o, r) =>
         /\ op[o].step = "push" => Records(r) \subseteq {"timed_out"}
         /\ op[o].step = "send" => /\ Records(r) \subseteq {"timed_out", op[o].decision}
                                   /\ Full \/ op[o].decision \in Records(r)
    /\ r \in pending => Records(r) \subseteq {"timed_out"}
    /\ channel[r] # None => /\ Records(r) \subseteq {"timed_out", channel[r]}
                            /\ Full \/ channel[r] \in Records(r)
                            /\ pc[r] \in {"wait", "done"}
                            /\ pc[r] = "done" => result[r] = channel[r]
    /\ "timed_out" \in Records(r) => pc[r] = "done" /\ result[r] = "timed_out"
    /\ pc[r] = "done" =>
         \/ result[r] \in Decisions /\ channel[r] = result[r]
         \/ result[r] = "timed_out" /\ (Full \/ "timed_out" \in Records(r))

IInv == Typed /\ OneDecider /\ OnRecord

-----------------------------------------------------------------------------
(* The history                                                               *)

\* A record pushed is the only one added, and none is lost before the history is
\* full; a full history stays full.
LEMMA PushedRecords ==
  ASSUME ApprovalAssumption, recent \in Seq(Entry), Len(recent) <= MaxRecent,
         NEW r \in Requests, NEW d \in Verdicts, recent' = Pushed(r, d)
  PROVE  /\ recent' \in Seq(Entry) /\ Len(recent') <= MaxRecent
         /\ Full => Full'
         /\ \A q \in Requests : Records(q)' \subseteq Records(q) \union (IF q = r THEN {d} ELSE {})
         /\ Full' \/ d \in Records(r)'
         /\ Full' \/ \A q \in Requests : Records(q) \subseteq Records(q)'
<1>. DEFINE e      == [about |-> r, decision |-> d]
            longer == <<e>> \o recent
            n      == IF Len(longer) > MaxRecent THEN MaxRecent ELSE Len(longer)
<1>1. /\ longer \in Seq(Entry) /\ Len(longer) = Len(recent) + 1
      /\ longer[1] = e
      /\ \A i \in 1 .. Len(recent) : longer[i + 1] = recent[i]
      /\ \A i \in 2 .. Len(recent) + 1 : longer[i] = recent[i - 1]
  BY DEF Entry
<1>2. n \in 0 .. Len(longer) /\ n <= MaxRecent
  BY <1>1 DEF ApprovalAssumption
<1>. HIDE DEF longer
<1>3. recent' = SubSeq(longer, 1, n)
  BY DEF Pushed, longer
<1>4. /\ recent' \in Seq(Entry) /\ Len(recent') = n
      /\ \A i \in 1 .. n : recent'[i] = longer[i]
  BY <1>1, <1>2, <1>3, SubSeqProperties
<1>5. Full' \/ n = Len(recent) + 1
  BY <1>1, <1>4 DEF Full
<1>6. Full => Full'
  BY <1>1, <1>4 DEF Full, ApprovalAssumption
<1>7. \A q \in Requests : Records(q)' \subseteq Records(q) \union (IF q = r THEN {d} ELSE {})
  <2>. SUFFICES ASSUME NEW q \in Requests, NEW i \in 1 .. n, recent'[i].about = q
                PROVE  recent'[i].decision \in Records(q) \union (IF q = r THEN {d} ELSE {})
    BY <1>4 DEF Records
  <2>1. CASE i = 1
    BY <2>1, <1>1, <1>4
  <2>2. CASE i # 1
    <3>1. i - 1 \in 1 .. Len(recent) /\ recent'[i] = recent[i - 1]
      BY <2>2, <1>1, <1>2, <1>4
    <3>. QED BY <3>1 DEF Records
  <2>. QED BY <2>1, <2>2
<1>8. Full' \/ d \in Records(r)'
  <2>. SUFFICES ASSUME n = Len(recent) + 1 PROVE d \in Records(r)'
    BY <1>5
  <2>1. 1 \in DOMAIN recent' /\ recent'[1] = e
    BY <1>1, <1>4
  <2>. QED BY <2>1 DEF Records
<1>9. Full' \/ \A q \in Requests : Records(q) \subseteq Records(q)'
  <2>. SUFFICES ASSUME n = Len(recent) + 1, NEW q \in Requests, NEW i \in 1 .. Len(recent),
                       recent[i].about = q
                PROVE  recent[i].decision \in Records(q)'
    BY <1>5 DEF Records
  <2>1. i + 1 \in 1 .. n
    BY <1>1
  <2>2. i + 1 \in DOMAIN recent' /\ recent'[i + 1] = recent[i]
    BY <1>1, <1>4, <2>1
  <2>3. i + 1 \in {j \in DOMAIN recent' : recent'[j].about = q}
    BY <2>2
  <2>. QED BY <2>2, <2>3 DEF Records
<1>. QED BY <1>2, <1>4, <1>6, <1>7, <1>8, <1>9

\* What is on record when nothing is pushed.
LEMMA SameRecords ==
  ASSUME UNCHANGED recent
  PROVE  Full' = Full /\ \A q \in Requests : Records(q)' = Records(q)
  BY DEF Full, Records

\* What the type invariant says of the history.
LEMMA RecentTyped ==
  ASSUME Typed
  PROVE  recent \in Seq(Entry) /\ Len(recent) <= MaxRecent
  BY DEF Typed, TypeOK, Entry, Verdicts

-----------------------------------------------------------------------------
(* The caller                                                                *)

\* The count, before the entry is inserted.
LEMMA CountPendingKeeps ==
  ASSUME IInv, NEW r \in Requests, CountPending(r)
  PROVE  IInv'
<1>. USE SameRecords DEF CountPending, Goto, None, Decisions
<1>1. Typed'
  BY DEF IInv, Typed, TypeOK, Verdicts
<1>2. OneDecider'
  BY DEF IInv, Typed, OneDecider, Deciding
<1>3. OnRecord'
  BY DEF IInv, Typed, OneDecider, OnRecord, Deciding
<1>. QED BY <1>1, <1>2, <1>3 DEF IInv

\* The entry is inserted.
LEMMA InsertKeeps ==
  ASSUME IInv, NEW r \in Requests, Insert(r)
  PROVE  IInv'
<1>. USE SameRecords DEF Insert, Goto, None, Decisions
<1>1. Typed'
  BY DEF IInv, Typed, TypeOK, Verdicts
<1>2. OneDecider'
  BY DEF IInv, Typed, OneDecider, Deciding
<1>3. OnRecord'
  BY DEF IInv, Typed, OneDecider, OnRecord, Deciding
<1>. QED BY <1>1, <1>2, <1>3 DEF IInv

\* The decision arrives.
LEMMA ReceiveKeeps ==
  ASSUME IInv, NEW r \in Requests, Receive(r)
  PROVE  IInv'
<1>. USE SameRecords DEF Receive, Answer, Goto, None, Decisions
<1>1. Typed'
  BY DEF IInv, Typed, TypeOK, Verdicts
<1>2. OneDecider'
  BY DEF IInv, Typed, OneDecider, Deciding
<1>3. OnRecord'
  BY DEF IInv, Typed, OneDecider, OnRecord, Deciding
<1>. QED BY <1>1, <1>2, <1>3 DEF IInv

\* The timer wins.
LEMMA TimerFiresKeeps ==
  ASSUME IInv, NEW r \in Requests, TimerFires(r)
  PROVE  IInv'
<1>. USE SameRecords DEF TimerFires, Goto, None, Decisions
<1>1. Typed'
  BY DEF IInv, Typed, TypeOK, Verdicts
<1>2. OneDecider'
  BY DEF IInv, Typed, OneDecider, Deciding
<1>3. OnRecord'
  BY DEF IInv, Typed, OneDecider, OnRecord, Deciding
<1>. QED BY <1>1, <1>2, <1>3 DEF IInv

\* The caller takes its entry out of the map, if it is still there.
LEMMA TakeBackKeeps ==
  ASSUME IInv, NEW r \in Requests, TakeBack(r)
  PROVE  IInv'
<1>. USE SameRecords DEF TakeBack, Goto, None, Decisions
<1>1. Typed'
  BY DEF IInv, Typed, TypeOK, Verdicts
<1>2. OneDecider'
  BY DEF IInv, Typed, OneDecider, Deciding
<1>3. OnRecord'
  BY DEF IInv, Typed, OneDecider, OnRecord, Deciding
<1>. QED BY <1>1, <1>2, <1>3 DEF IInv

\* The timeout is recorded and returned.
LEMMA RecordTimeoutKeeps ==
  ASSUME ApprovalAssumption, IInv, NEW r \in Requests, RecordTimeout(r)
  PROVE  IInv'
<1>. USE DEF RecordTimeout, Answer, Goto, None, Decisions
<1>1. /\ recent' \in Seq(Entry) /\ Len(recent') <= MaxRecent
      /\ Full => Full'
      /\ \A q \in Requests : Records(q)' \subseteq
                               Records(q) \union (IF q = r THEN {"timed_out"} ELSE {})
      /\ Full' \/ "timed_out" \in Records(r)'
      /\ Full' \/ \A q \in Requests : Records(q) \subseteq Records(q)'
  BY RecentTyped, PushedRecords DEF IInv, Verdicts
<1>2. Typed'
  BY <1>1 DEF IInv, Typed, TypeOK, Verdicts, Entry
<1>3. OneDecider'
  BY <1>1 DEF IInv, Typed, OneDecider, Deciding
<1>4. OnRecord'
  BY <1>1 DEF IInv, Typed, OneDecider, OnRecord, Deciding
<1>. QED BY <1>2, <1>3, <1>4 DEF IInv

-----------------------------------------------------------------------------
(* The operators                                                             *)

\* Who takes an entry out of the map is the only one to have it.
LEMMA TakeKeeps ==
  ASSUME IInv, NEW o \in Operators, NEW r \in Requests, NEW d \in Decisions, Take(o, r, d)
  PROVE  IInv'
<1>. USE SameRecords DEF Take, OpAt, None, Decisions
<1>1. Typed'
  BY DEF IInv, Typed, TypeOK, Verdicts
<1>2. \A p \in Operators, q \in Requests :
        Deciding(p, q)' <=> Deciding(p, q) \/ (p = o /\ q = r)
  BY DEF IInv, Typed, Deciding
<1>3. OneDecider'
  BY <1>2 DEF IInv, Typed, OneDecider
<1>4. OnRecord'
  <2>. SUFFICES ASSUME NEW q \in Requests
                PROVE  OnRecord!(q)'
    BY DEF OnRecord
  <2>1. \A p \in Operators : p # o => op'[p] = op[p]
    BY DEF IInv, Typed
  <2>2. op'[o].step = "push" /\ op'[o].about = r
    BY DEF IInv, Typed
  <2>3. r \in pending /\ Records(r) \subseteq {"timed_out"}
    BY DEF IInv, OnRecord
  <2>4. \A p \in Operators : Deciding(p, q) => p # o
    BY DEF Deciding
  <2>. QED BY <1>2, <2>1, <2>2, <2>3, <2>4 DEF IInv, OnRecord
<1>. QED BY <1>1, <1>3, <1>4 DEF IInv

\* The decision is written to the history.
LEMMA PushKeeps ==
  ASSUME ApprovalAssumption, IInv, NEW o \in Operators, Push(o)
  PROVE  IInv'
<1>. PICK r \in Requests, d \in Decisions : op[o].about = r /\ op[o].decision = d
  BY DEF Push, OpAt, IInv, Typed
<1>1. Deciding(o, r) /\ op[o].step = "push"
  BY DEF Push, OpAt, Deciding
<1>2. recent' = Pushed(r, d)
  BY DEF Push
<1>3. /\ recent' \in Seq(Entry) /\ Len(recent') <= MaxRecent
      /\ Full => Full'
      /\ \A q \in Requests : Records(q)' \subseteq Records(q) \union (IF q = r THEN {d} ELSE {})
      /\ Full' \/ d \in Records(r)'
      /\ Full' \/ \A q \in Requests : Records(q) \subseteq Records(q)'
  BY <1>1, <1>2, RecentTyped, PushedRecords DEF IInv, Verdicts
<1>4. /\ UNCHANGED <<pending, channel, pc, result>>
      /\ op' = [op EXCEPT ![o].step = "send"]
  BY DEF Push
<1>5. Typed'
  BY <1>1, <1>3, <1>4 DEF IInv, Typed, TypeOK, Verdicts, Entry
<1>6. \A p \in Operators, q \in Requests : Deciding(p, q)' <=> Deciding(p, q)
  BY <1>1, <1>4 DEF IInv, Typed, Deciding
<1>7. OneDecider'
  BY <1>1, <1>3, <1>4, <1>6 DEF IInv, OneDecider
<1>8. OnRecord'
  <2>. SUFFICES ASSUME NEW q \in Requests
                PROVE  OnRecord!(q)'
    BY DEF OnRecord
  <2>1. CASE q = r
    <3>1. \A p \in Operators : Deciding(p, q) => p = o
      BY <1>1, <2>1 DEF IInv, OneDecider
    <3>2. q \notin pending /\ channel[q] = None
      BY <1>1, <2>1 DEF IInv, OneDecider
    <3>3. op'[o].step = "send" /\ op'[o].decision = d
      BY <1>4 DEF IInv, Typed
    <3>4. d # "timed_out"
      BY DEF Decisions
    <3>. QED BY <1>1, <1>3, <1>4, <1>6, <2>1, <3>1, <3>2, <3>3, <3>4 DEF IInv, OnRecord
  <2>2. CASE q # r
    <3>1. Records(q)' \subseteq Records(q) /\ (Full' \/ Records(q) \subseteq Records(q)')
      BY <1>3, <2>2
    <3>2. \A p \in Operators : Deciding(p, q) => p # o /\ op'[p] = op[p]
      BY <1>1, <1>4, <2>2 DEF Deciding, IInv, Typed
    <3>. QED BY <1>3, <1>4, <1>6, <3>1, <3>2 DEF IInv, OnRecord
  <2>. QED BY <2>1, <2>2
<1>. QED BY <1>5, <1>7, <1>8 DEF IInv

\* The decision is sent, to a caller who may have stopped listening.
LEMMA SendKeeps ==
  ASSUME IInv, NEW o \in Operators, Send(o)
  PROVE  IInv'
<1>. PICK r \in Requests, d \in Decisions : op[o].about = r /\ op[o].decision = d
  BY DEF Send, OpAt, IInv, Typed
<1>1. Deciding(o, r) /\ op[o].step = "send"
  BY DEF Send, OpAt, Deciding
<1>2. /\ channel' = IF pc[r] = "wait" THEN [channel EXCEPT ![r] = d] ELSE channel
      /\ op' = [op EXCEPT ![o] = Idle]
      /\ UNCHANGED <<pending, recent, pc, result>>
  BY DEF Send
<1>3. Typed'
  BY <1>1, <1>2 DEF IInv, Typed, TypeOK, Verdicts, Idle
<1>4. \A p \in Operators, q \in Requests :
        Deciding(p, q)' <=> Deciding(p, q) /\ p # o
  BY <1>1, <1>2 DEF IInv, Typed, Deciding, Idle
<1>5. \A p \in Operators : Deciding(p, r) => p = o
  BY <1>1 DEF IInv, OneDecider
<1>6. r \notin pending /\ channel[r] = None
  BY <1>1 DEF IInv, OneDecider
<1>7. OneDecider'
  BY <1>1, <1>2, <1>4, <1>5, <1>6, SameRecords DEF IInv, OneDecider, Typed, Decisions, None
<1>8. Records(r) \subseteq {"timed_out", d} /\ (Full \/ d \in Records(r))
  BY <1>1 DEF IInv, OnRecord
<1>9. OnRecord'
  <2>. SUFFICES ASSUME NEW q \in Requests
                PROVE  OnRecord!(q)'
    BY DEF OnRecord
  <2>1. \A p \in Operators : p # o => op'[p] = op[p]
    BY <1>2 DEF IInv, Typed
  <2>2. CASE q = r /\ pc[r] = "wait"
    <3>1. channel'[r] = d /\ d # None
      BY <1>1, <1>2, <2>2 DEF IInv, Typed, Decisions, None
    <3>. QED BY <1>2, <1>4, <1>5, <1>6, <1>8, <2>1, <2>2, <3>1, SameRecords DEF IInv, OnRecord
  <2>3. CASE ~(q = r /\ pc[r] = "wait")
    <3>1. channel'[q] = channel[q]
      BY <1>2, <2>3 DEF IInv, Typed
    <3>. QED BY <1>2, <1>4, <2>1, <3>1, SameRecords DEF IInv, OnRecord
  <2>. QED BY <2>2, <2>3
<1>. QED BY <1>3, <1>7, <1>9 DEF IInv

\* Every step keeps the invariant.
LEMMA StepKeeps ==
  ASSUME ApprovalAssumption, IInv, [Next]_vars
  PROVE  IInv'
<1>1. CASE UNCHANGED vars
  <2>. USE <1>1, SameRecords DEF vars
  <2>1. Typed' /\ OneDecider'
    BY DEF IInv, Typed, TypeOK, OneDecider, Deciding
  <2>2. OnRecord'
    BY DEF IInv, OnRecord, Deciding
  <2>. QED BY <2>1, <2>2 DEF IInv
<1>2. CASE Next
  BY <1>1, <1>2, CountPendingKeeps, InsertKeeps, ReceiveKeeps, TimerFiresKeeps, TakeBackKeeps,
     RecordTimeoutKeeps, TakeKeeps, PushKeeps, SendKeeps DEF Next, Rest
<1>. QED BY <1>1, <1>2

-----------------------------------------------------------------------------
(* Theorems                                                                  *)

\* The invariant of the approvals.
THEOREM Invariant == ASSUME ApprovalAssumption PROVE Spec => []IInv
<1>1. Init => IInv
  <2>. HAVE Init
  <2>1. \A r \in Requests : Records(r) = {}
    BY DEF Init, Records
  <2>2. Typed
    BY DEF Init, Typed, TypeOK, Idle, Verdicts, Decisions, ApprovalAssumption
  <2>3. \A o \in Operators, r \in Requests : ~Deciding(o, r)
    BY DEF Init, Idle, Deciding
  <2>. QED BY <2>1, <2>2, <2>3 DEF Init, IInv, OneDecider, OnRecord, None
<1>2. IInv /\ [Next]_vars => IInv'
  BY StepKeeps
<1>. QED BY <1>1, <1>2, PTL DEF Spec

\* Type correctness: the history stays within its bound.
THEOREM TypeCorrect == ASSUME ApprovalAssumption PROVE Spec => []TypeOK
<1>1. IInv => TypeOK
  BY DEF IInv, Typed
<1>. QED BY <1>1, Invariant, PTL

\* An agent acts on what the history shows.
THEOREM ActsOnRecord == ASSUME ApprovalAssumption PROVE Spec => []HistoryAgrees
<1>1. IInv => HistoryAgrees
  <2>. SUFFICES ASSUME IInv, NEW r \in Requests, pc[r] = "done"
                PROVE  \/ result[r] \in Decisions /\ (Records(r) = {result[r]} \/ Evicted(r))
                       \/ /\ result[r] = "timed_out"
                          /\ "timed_out" \in Records(r) \/ Len(recent) = MaxRecent
    BY DEF HistoryAgrees
  <2>1. CASE result[r] \in Decisions /\ channel[r] = result[r]
    <3>1. channel[r] # None /\ result[r] # "timed_out"
      BY <2>1 DEF Decisions, None
    <3>2. Records(r) \subseteq {result[r]} /\ (Full \/ result[r] \in Records(r))
      BY <2>1, <3>1 DEF IInv, OnRecord
    <3>. QED BY <2>1, <3>2 DEF Evicted, Full
  <2>2. CASE result[r] = "timed_out" /\ (Full \/ "timed_out" \in Records(r))
    BY <2>2 DEF Full
  <2>. QED BY <2>1, <2>2 DEF IInv, OnRecord
<1>. QED BY <1>1, Invariant, PTL

================================================================================
