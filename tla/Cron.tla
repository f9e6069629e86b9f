-------------------------------- MODULE Cron --------------------------------
(* The cron scheduler: crates/openfang-kernel/src/cron.rs, the tick loop of      *)
(* kernel.rs that fires due jobs one after the other, and the runs an operator   *)
(* asks for, which go on beside it.  A due job is claimed, which moves its       *)
(* next_run, executed without any lock, and its outcome recorded on whatever    *)
(* the job has become meanwhile.                                                *)
(*                                                                              *)
(* Instants are kept as the time left until them; 0 is an instant that came.    *)
EXTENDS Integers, FiniteSets

CONSTANTS
  Jobs,
  KindOf,     \* "every" (an interval) or "at" (one instant)
  OneShot,    \* jobs removed by their first success
  Period,     \* interval of the "every" jobs; time until the "at" instants
  MaxErrors,  \* MAX_CONSECUTIVE_ERRORS
  Callers,    \* runs an operator may have asked for at the same time
  MaxEdits    \* bound: definitions added, enabled, disabled, replaced, removed

None == -1
Never == -2

VARIABLES
  job,     \* job -> its entry in the map
  at,      \* time left until the instant of an "at" job
  batch,   \* due jobs the tick loop has collected and not started
  firing,  \* the job the tick loop executes
  manual,  \* caller -> the job it executes
  since,   \* history: time since a job was last claimed as due
  edits

vars == <<job, at, batch, firing, manual, since, edits>>

NoJob  == "none"
Absent == [exists |-> FALSE, enabled |-> FALSE, next |-> None, errors |-> 0]
Exists(j) == job[j].exists
Due(j)    == job[j].enabled /\ job[j].next = 0

Init ==
  /\ job = [j \in Jobs |-> Absent]
  /\ at = [j \in Jobs |-> Period]
  /\ batch = {}
  /\ firing = NoJob
  /\ manual = [c \in Callers |-> NoJob]
  /\ since = [j \in Jobs |-> Never]
  /\ edits = 0

\* compute_next_run_after: an instant stays what it is, even in the past.
NextRun(j) == IF KindOf[j] = "every" THEN Period ELSE at[j]

Tick(left) == IF left > 0 THEN left - 1 ELSE left

\* Time passes, and matters while there is a job; "since" saturates at one period.
Elapse ==
  /\ \E j \in Jobs : Exists(j)
  /\ job' = [j \in Jobs |-> [job[j] EXCEPT !.next = Tick(@)]]
  /\ at' = [j \in Jobs |-> Tick(at[j])]
  /\ since' = [j \in Jobs |-> IF since[j] \in 0 .. Period - 1 THEN since[j] + 1 ELSE since[j]]
  /\ UNCHANGED <<batch, firing, manual, edits>>

-----------------------------------------------------------------------------
(* Definitions                                                               *)

Edit(j, entry) ==
  /\ edits < MaxEdits
  /\ edits' = edits + 1
  /\ job' = [job EXCEPT ![j] = entry]
  /\ UNCHANGED <<at, batch, firing, manual, since>>

Defined(j, enabled, errors) ==
  [exists |-> TRUE, enabled |-> enabled, errors |-> errors,
   next |-> IF enabled THEN NextRun(j) ELSE None]

\* add_job_meta; an id is never used again.
Add(j) == ~Exists(j) /\ since[j] = Never /\ Edit(j, Defined(j, TRUE, 0))

Remove(j) == Exists(j) /\ Edit(j, Absent)

\* set_enabled: the errors are forgotten when the job is enabled.
SetEnabled(j, e) ==
  Exists(j) /\ Edit(j, Defined(j, e, IF e THEN 0 ELSE job[j].errors))

\* replace_job_meta_by_definition_id: the errors are carried over, from a copy
\* of the entry that may be one failure old.
Replace(j, e) ==
  /\ Exists(j)
  /\ \E errors \in {job[j].errors, job[j].errors - 1} \cap Nat : Edit(j, Defined(j, e, errors))

-----------------------------------------------------------------------------
(* Claiming and executing                                                    *)

Advanced(claimed) ==
  job' = [j \in Jobs |-> IF j \in claimed THEN [job[j] EXCEPT !.next = NextRun(j)] ELSE job[j]]

Claimed(claimed) ==
  since' = [j \in Jobs |-> IF j \in claimed THEN 0 ELSE since[j]]

CollectUnadvanced ==    \* mutant: next_run is left for record_success to move
  /\ batch = {} /\ firing = NoJob
  /\ LET due == {j \in Jobs : Due(j)}
     IN  due # {} /\ batch' = due /\ Claimed(due)
  /\ UNCHANGED <<job, at, firing, manual, edits>>

\* due_job_metas: one pass of the tick loop claims every due job.
Collect ==
  /\ batch = {} /\ firing = NoJob
  /\ LET due == {j \in Jobs : Due(j)}
     IN  due # {} /\ batch' = due /\ Advanced(due) /\ Claimed(due)
  /\ UNCHANGED <<at, firing, manual, edits>>

\* A collected job is executed from its copy, whatever became of the entry.
Fire(j) ==
  /\ firing = NoJob /\ j \in batch
  /\ firing' = j
  /\ batch' = batch \ {j}
  /\ UNCHANGED <<job, at, manual, since, edits>>

\* try_claim_for_run: the next run is moved only when it is due.
ClaimForRun(c, j) ==
  /\ manual[c] = NoJob
  /\ job[j].enabled
  /\ manual' = [manual EXCEPT ![c] = j]
  /\ IF Due(j) THEN Advanced({j}) /\ Claimed({j}) ELSE UNCHANGED <<job, since>>
  /\ UNCHANGED <<at, batch, firing, edits>>

-----------------------------------------------------------------------------
(* Outcomes                                                                  *)

\* record_success: a one-shot job is removed, also one replaced meanwhile.
Succeeded(j) ==
  IF ~Exists(j) \/ j \in OneShot THEN Absent ELSE [job[j] EXCEPT !.errors = 0]

FailedUnscheduled(j) ==    \* mutant: an overdue job that fails gets no next run
  LET errors == job[j].errors + 1
  IN  IF ~Exists(j) THEN Absent
      ELSE IF errors >= MaxErrors
      THEN [job[j] EXCEPT !.errors = MaxErrors, !.enabled = FALSE, !.next = None]
      ELSE [job[j] EXCEPT !.errors = errors, !.next = IF @ > 0 THEN @ ELSE None]

\* record_failure: the job is disabled at MaxErrors (counted no further here);
\* before that it gets a next run if it is overdue or has none, which a job
\* disabled while it ran has not.
Failed(j) ==
  LET errors == job[j].errors + 1
  IN  IF ~Exists(j) THEN Absent
      ELSE IF errors >= MaxErrors
      THEN [job[j] EXCEPT !.errors = MaxErrors, !.enabled = FALSE, !.next = None]
      ELSE [job[j] EXCEPT !.errors = errors, !.next = IF @ > 0 THEN @ ELSE NextRun(j)]

Record(j) ==
  \E entry \in {Succeeded(j), Failed(j)} : job' = [job EXCEPT ![j] = entry]

FireEnds ==
  /\ firing # NoJob
  /\ Record(firing)
  /\ firing' = NoJob
  /\ UNCHANGED <<at, batch, manual, since, edits>>

RunEnds(c) ==
  /\ manual[c] # NoJob
  /\ Record(manual[c])
  /\ manual' = [manual EXCEPT ![c] = NoJob]
  /\ UNCHANGED <<at, batch, firing, since, edits>>

-----------------------------------------------------------------------------
\* Without a job there is nothing to wait for.
Rest ==
  /\ \A j \in Jobs : ~Exists(j)
  /\ UNCHANGED vars

Next ==
  \/ Rest
  \/ Elapse \/ Collect \/ FireEnds
  \/ \E j \in Jobs :
       \/ Add(j) \/ Remove(j) \/ Fire(j)
       \/ \E e \in BOOLEAN : SetEnabled(j, e) \/ Replace(j, e)
       \/ \E c \in Callers : ClaimForRun(c, j)
  \/ \E c \in Callers : RunEnds(c)

TickLoop == Collect \/ (\E j \in Jobs : Fire(j)) \/ FireEnds

\* Time passes, the loop ticks, and a job that it fires ends.
Fairness == WF_vars(Elapse) /\ WF_vars(TickLoop)

Spec == Init /\ [][Next]_vars /\ Fairness

-----------------------------------------------------------------------------
\* Type correctness of the jobs and of who executes them.
TypeOK ==
  /\ job \in [Jobs -> [exists : BOOLEAN, enabled : BOOLEAN,
                       next : None .. Period, errors : 0 .. MaxErrors]]
  /\ batch \subseteq Jobs /\ firing \in Jobs \union {NoJob}
  /\ manual \in [Callers -> Jobs \union {NoJob}]

\* An interval job is claimed as due once per period: by the tick loop or by a
\* run asked for at the due moment, never by both, whatever was enabled,
\* replaced or recorded in between.
ClaimedOncePerPeriod ==
  [][\A j \in Jobs : KindOf[j] = "every" /\ Due(j) /\ since'[j] = 0
       => since[j] \in {Never, Period}]_vars

Scheduled(j) == job[j].enabled
Executing(j) == j \in batch \/ firing = j \/ \E c \in Callers : manual[c] = j

\* An interval job that stays enabled keeps being executed, by the loop or by
\* hand: no outcome recorded late, no failure, replacement or re-enabling leaves
\* it enabled and without a next run.
KeepsRunning ==
  \A j \in {i \in Jobs : KindOf[i] = "every"} : Scheduled(j) ~> Executing(j) \/ ~Scheduled(j)
=============================================================================
