------------------------------ MODULE Cron_proofs ------------------------------
(***************************************************************************)
(* Proofs about Cron, for any set of jobs, callers and one-shot jobs, any  *)
(* period and any number of edits.                                         *)
(*                                                                         *)
(* A claim moves the next run a period ahead, and so does everything that  *)
(* schedules a job anew; time brings the next run nearer by what it adds   *)
(* to the age of the last claim.  So for an interval job the two together  *)
(* never fall below one period.                                            *)
(***************************************************************************)
EXTENDS Cron, TLAPS

\* An interval has a length, errors are counted to a limit, and no job is the
\* one that stands for none.
CronAssumption ==
  /\ Period \in Nat \ {0}
  /\ MaxErrors \in Nat \ {0}
  /\ NoJob \notin Jobs

Entry == [exists : BOOLEAN, enabled : BOOLEAN, next : None .. Period, errors : 0 .. MaxErrors]

Clocks ==
  /\ at \in [Jobs -> 0 .. Period]
  /\ since \in [Jobs -> {Never} \cup 0 .. Period]

\* An entry that is gone is empty, and an enabled one has its next run.
Sound(e) == (e.exists \/ e = Absent) /\ (e.enabled => e.next # None)

\* The next run of an interval job is a period after its last claim, or later.
PeriodAhead ==
  \A j \in Jobs :
    KindOf[j] = "every" /\ job[j].next # None /\ since[j] # Never
      => job[j].next + since[j] >= Period

IInv == TypeOK /\ Clocks /\ (\A j \in Jobs : Sound(job[j])) /\ PeriodAhead

-----------------------------------------------------------------------------
\* What the record of an entry is made of.
LEMMA EntryFields ==
  ASSUME NEW e \in Entry
  PROVE  /\ e.exists \in BOOLEAN /\ e.enabled \in BOOLEAN
         /\ e.next \in None .. Period /\ e.errors \in 0 .. MaxErrors
  BY DEF Entry

\* A definition just computed: its next run is a period ahead.
LEMMA DefinedFits ==
  ASSUME CronAssumption, IInv, NEW j \in Jobs, NEW e \in BOOLEAN, NEW n \in 0 .. MaxErrors
  PROVE  /\ Defined(j, e, n) \in Entry
         /\ Sound(Defined(j, e, n))
         /\ KindOf[j] = "every" => Defined(j, e, n).next \in {None, Period}
  BY DEF CronAssumption, IInv, Clocks, Defined, NextRun, Entry, Sound, None, Absent

\* An entry that is gone.
LEMMA AbsentFits ==
  ASSUME CronAssumption
  PROVE  Absent \in Entry /\ Sound(Absent) /\ Absent.next = None
  BY DEF CronAssumption, Absent, Entry, Sound, None

-----------------------------------------------------------------------------
(* The steps                                                                 *)

\* One entry is replaced by another that is as far ahead.
LEMMA ReplacedKeeps ==
  ASSUME CronAssumption, IInv, NEW j \in Jobs, NEW e \in Entry, Sound(e),
         KindOf[j] = "every" => e.next \in {None, Period} \/ e.next = job[j].next,
         job' = [job EXCEPT ![j] = e], UNCHANGED <<at, since>>,
         batch' \subseteq Jobs, firing' \in Jobs \union {NoJob},
         manual' \in [Callers -> Jobs \union {NoJob}]
  PROVE  IInv'
<1>1. job' \in [Jobs -> Entry]
  BY DEF IInv, TypeOK, Entry
<1>2. \A i \in Jobs : Sound(job'[i])
  BY DEF IInv, TypeOK
<1>3. PeriodAhead'
  <2>. SUFFICES ASSUME NEW i \in Jobs, KindOf[i] = "every", job'[i].next # None, since[i] # Never
                PROVE  job'[i].next + since[i] >= Period
    BY DEF PeriodAhead
  <2>1. CASE i # j
    BY <2>1 DEF IInv, TypeOK, PeriodAhead
  <2>2. CASE i = j /\ job'[j].next = job[j].next
    BY <2>2 DEF IInv, TypeOK, PeriodAhead
  <2>3. CASE i = j /\ job'[j].next = Period
    BY <2>3 DEF IInv, Clocks, CronAssumption, Never
  <2>. QED BY <2>1, <2>2, <2>3 DEF IInv, TypeOK
<1>. QED BY <1>1, <1>2, <1>3 DEF IInv, TypeOK, Clocks, Entry, Sound

\* Time brings next runs nearer by what it adds to the age of the claims.
LEMMA ElapseKeeps ==
  ASSUME CronAssumption, IInv, Elapse
  PROVE  IInv'
<1>1. \A j \in Jobs : job'[j] \in Entry
  <2>. TAKE j \in Jobs
  <2>1. job'[j] = [job[j] EXCEPT !.next = Tick(@)]
    BY DEF Elapse
  <2>2. job[j] \in Entry
    BY DEF IInv, TypeOK, Entry
  <2>3. Tick(job[j].next) \in None .. Period
    BY <2>2, EntryFields DEF Tick, None, CronAssumption
  <2>. QED BY <2>1, <2>2, <2>3 DEF Entry
<1>2. TypeOK'
  <2>1. job' \in [Jobs -> Entry]
    BY <1>1 DEF Elapse
  <2>. QED BY <2>1 DEF Elapse, IInv, TypeOK, Entry
<1>3. Clocks'
  BY DEF Elapse, IInv, Clocks, Tick, Never, CronAssumption
<1>4. \A j \in Jobs : Sound(job'[j])
  <2>. TAKE j \in Jobs
  <2>1. job[j] \in Entry /\ Sound(job[j])
    BY DEF IInv, TypeOK, Entry
  <2>2. job'[j] = [job[j] EXCEPT !.next = Tick(@)]
    BY DEF Elapse
  <2>. QED BY <2>1, <2>2 DEF Sound, Entry, Tick, None, Absent, CronAssumption
<1>5. PeriodAhead'
  <2>. SUFFICES ASSUME NEW j \in Jobs, KindOf[j] = "every", job'[j].next # None, since'[j] # Never
                PROVE  job'[j].next + since'[j] >= Period
    BY DEF PeriodAhead
  <2>1. job[j] \in Entry /\ since[j] \in {Never} \cup 0 .. Period
    BY DEF IInv, TypeOK, Clocks, Entry
  <2>2. job'[j].next = Tick(job[j].next)
    BY <2>1 DEF Elapse, Entry
  <2>3. since'[j] = IF since[j] \in 0 .. Period - 1 THEN since[j] + 1 ELSE since[j]
    BY DEF Elapse
  <2>4. job[j].next # None /\ since[j] # Never => job[j].next + since[j] >= Period
    BY DEF IInv, PeriodAhead
  <2>5. job[j].next \in None .. Period
    BY <2>1, EntryFields
  <2>. QED BY <2>1, <2>2, <2>3, <2>4, <2>5 DEF Tick, None, Never, CronAssumption
<1>. QED BY <1>2, <1>3, <1>4, <1>5 DEF IInv

\* A claim moves the next run of what it claims.
LEMMA ClaimKeeps ==
  ASSUME CronAssumption, IInv, NEW due \in SUBSET Jobs, \A j \in due : Due(j),
         Advanced(due), Claimed(due), UNCHANGED at,
         batch' \subseteq Jobs, firing' \in Jobs \union {NoJob},
         manual' \in [Callers -> Jobs \union {NoJob}]
  PROVE  IInv'
<1>1. \A j \in Jobs : job'[j] \in Entry /\ Sound(job'[j])
  <2>. TAKE j \in Jobs
  <2>1. job[j] \in Entry /\ Sound(job[j])
    BY DEF IInv, TypeOK, Entry
  <2>2. job'[j] = IF j \in due THEN [job[j] EXCEPT !.next = NextRun(j)] ELSE job[j]
    BY DEF Advanced
  <2>3. NextRun(j) \in 0 .. Period
    BY DEF IInv, Clocks, NextRun, CronAssumption
  <2>4. j \in due => job[j].enabled
    BY DEF Due
  <2>. QED BY <2>1, <2>2, <2>3, <2>4 DEF Entry, Sound, None, Absent
<1>2. TypeOK'
  <2>1. job' \in [Jobs -> Entry]
    BY <1>1 DEF Advanced
  <2>. QED BY <2>1 DEF TypeOK, Entry
<1>3. Clocks'
  BY DEF Claimed, IInv, Clocks, CronAssumption
<1>4. PeriodAhead'
  <2>. SUFFICES ASSUME NEW j \in Jobs, KindOf[j] = "every", job'[j].next # None, since'[j] # Never
                PROVE  job'[j].next + since'[j] >= Period
    BY DEF PeriodAhead
  <2>1. CASE j \in due
    <3>1. job[j] \in Entry
      BY DEF IInv, TypeOK, Entry
    <3>. QED BY <2>1, <3>1 DEF Advanced, Claimed, NextRun, Entry, CronAssumption
  <2>2. CASE j \notin due
    BY <2>2 DEF Advanced, Claimed, IInv, PeriodAhead
  <2>. QED BY <2>1, <2>2
<1>. QED BY <1>1, <1>2, <1>3, <1>4 DEF IInv

\* Whatever the outcome, the entry it is recorded on keeps its next run, loses
\* it, or gets one a period ahead.
LEMMA OutcomeFits ==
  ASSUME CronAssumption, IInv, NEW j \in Jobs, NEW e \in {Succeeded(j), Failed(j)}
  PROVE  /\ e \in Entry /\ Sound(e)
         /\ KindOf[j] = "every" => e.next \in {None, Period} \/ e.next = job[j].next
<1>1. job[j] \in Entry /\ Sound(job[j])
  BY DEF IInv, TypeOK, Entry
<1>2. Absent \in Entry /\ Sound(Absent) /\ Absent.next = None
  BY AbsentFits
<1>3. NextRun(j) \in 0 .. Period /\ (KindOf[j] = "every" => NextRun(j) = Period)
  BY DEF IInv, Clocks, NextRun, CronAssumption
<1>4. CASE e = Succeeded(j)
  BY <1>1, <1>2, <1>4 DEF Succeeded, Entry, Sound, Exists, CronAssumption
<1>5. CASE e = Failed(j)
  <2>1. CASE ~Exists(j)
    BY <1>2, <1>5, <2>1 DEF Failed
  <2>2. CASE Exists(j) /\ job[j].errors + 1 >= MaxErrors
    <3>1. e = [exists |-> TRUE, enabled |-> FALSE, next |-> None, errors |-> MaxErrors]
      BY <1>1, <1>5, <2>2 DEF Failed, Entry, Exists
    <3>2. None \in None .. Period /\ MaxErrors \in 0 .. MaxErrors
      BY DEF CronAssumption, None
    <3>. QED BY <3>1, <3>2 DEF Entry, Sound
  <2>3. CASE Exists(j) /\ ~(job[j].errors + 1 >= MaxErrors)
    <3>. DEFINE next == IF job[j].next > 0 THEN job[j].next ELSE NextRun(j)
    <3>1. e = [exists |-> TRUE, enabled |-> job[j].enabled, next |-> next,
               errors |-> job[j].errors + 1]
      BY <1>1, <1>5, <2>3 DEF Failed, Entry, Exists
    <3>2. next \in None .. Period /\ next # None
      BY <1>1, <1>3, EntryFields DEF CronAssumption, None
    <3>3. job[j].errors + 1 \in 0 .. MaxErrors
      BY <1>1, <2>3, EntryFields DEF CronAssumption
    <3>4. job[j].enabled \in BOOLEAN
      BY <1>1, EntryFields
    <3>5. KindOf[j] = "every" => next = Period \/ next = job[j].next
      BY <1>3
    <3>. HIDE DEF next
    <3>. QED BY <3>1, <3>2, <3>3, <3>4, <3>5 DEF Entry, Sound
  <2>. QED BY <2>1, <2>2, <2>3
<1>. QED BY <1>4, <1>5

\* Definitions: added, removed, enabled, disabled or replaced.
LEMMA EditKeeps ==
  ASSUME CronAssumption, IInv, NEW j \in Jobs, NEW e \in Entry, Sound(e), Edit(j, e),
         KindOf[j] = "every" => e.next \in {None, Period}
  PROVE  IInv'
  BY ReplacedKeeps DEF Edit, IInv, TypeOK

\* A record of an outcome, by the tick loop or by a run asked for.
LEMMA RecordKeeps ==
  ASSUME CronAssumption, IInv, NEW j \in Jobs, Record(j), UNCHANGED <<at, since>>,
         batch' \subseteq Jobs, firing' \in Jobs \union {NoJob},
         manual' \in [Callers -> Jobs \union {NoJob}]
  PROVE  IInv'
<1>1. PICK e \in {Succeeded(j), Failed(j)} : job' = [job EXCEPT ![j] = e]
  BY DEF Record
<1>. QED BY <1>1, OutcomeFits, ReplacedKeeps

\* A step that moves no entry and no clock.
LEMMA Untouched ==
  ASSUME IInv, UNCHANGED <<job, at, since>>,
         batch' \subseteq Jobs, firing' \in Jobs \union {NoJob},
         manual' \in [Callers -> Jobs \union {NoJob}]
  PROVE  IInv'
  BY DEF IInv, TypeOK, Clocks, PeriodAhead

\* Every step keeps the invariant.
LEMMA StepKeeps ==
  ASSUME CronAssumption, IInv, [Next]_vars
  PROVE  IInv'
<1>. USE DEF NoJob
<1>t. /\ batch \subseteq Jobs /\ firing \in Jobs \union {NoJob}
      /\ manual \in [Callers -> Jobs \union {NoJob}]
      /\ \A j \in Jobs : job[j] \in Entry
  BY DEF IInv, TypeOK, Entry
<1>1. CASE UNCHANGED vars
  BY <1>1, <1>t, Untouched DEF vars
<1>2. CASE Elapse
  BY <1>2, ElapseKeeps
<1>3. CASE Collect
  <2>. DEFINE due == {j \in Jobs : Due(j)}
  <2>1. /\ Advanced(due) /\ Claimed(due) /\ batch' = due
        /\ UNCHANGED <<at, firing, manual>>
    BY <1>3 DEF Collect
  <2>2. due \in SUBSET Jobs /\ \A j \in due : Due(j)
    OBVIOUS
  <2>. QED BY <2>1, <2>2, <1>t, ClaimKeeps
<1>4. CASE FireEnds
  BY <1>4, <1>t, RecordKeeps DEF FireEnds
<1>5. ASSUME NEW j \in Jobs, Add(j)
      PROVE  IInv'
  <2>1. 0 \in 0 .. MaxErrors
    BY DEF CronAssumption
  <2>. QED BY <1>5, <2>1, DefinedFits, EditKeeps DEF Add
<1>6. ASSUME NEW j \in Jobs, Remove(j)
      PROVE  IInv'
  BY <1>6, AbsentFits, EditKeeps DEF Remove
<1>7. ASSUME NEW j \in Jobs, NEW e \in BOOLEAN, SetEnabled(j, e)
      PROVE  IInv'
  <2>1. (IF e THEN 0 ELSE job[j].errors) \in 0 .. MaxErrors
    BY <1>t, EntryFields DEF CronAssumption
  <2>. QED BY <1>7, <2>1, DefinedFits, EditKeeps DEF SetEnabled
<1>8. ASSUME NEW j \in Jobs, NEW e \in BOOLEAN, Replace(j, e)
      PROVE  IInv'
  <2>1. PICK errors \in {job[j].errors, job[j].errors - 1} \cap Nat :
               Edit(j, Defined(j, e, errors))
    BY <1>8 DEF Replace
  <2>2. errors \in 0 .. MaxErrors
    BY <1>t, EntryFields DEF CronAssumption
  <2>. QED BY <2>1, <2>2, DefinedFits, EditKeeps
<1>9. ASSUME NEW j \in Jobs, Fire(j)
      PROVE  IInv'
  BY <1>9, <1>t, Untouched DEF Fire
<1>10. ASSUME NEW j \in Jobs, NEW c \in Callers, ClaimForRun(c, j)
       PROVE  IInv'
  <2>1. manual' \in [Callers -> Jobs \union {NoJob}] /\ UNCHANGED <<at, batch, firing>>
    BY <1>10, <1>t DEF ClaimForRun
  <2>2. CASE Due(j)
    BY <1>10, <2>1, <2>2, <1>t, ClaimKeeps DEF ClaimForRun
  <2>3. CASE ~Due(j)
    BY <1>10, <2>1, <2>3, <1>t, Untouched DEF ClaimForRun
  <2>. QED BY <2>2, <2>3
<1>11. ASSUME NEW c \in Callers, RunEnds(c)
       PROVE  IInv'
  BY <1>11, <1>t, RecordKeeps DEF RunEnds
<1>. QED BY <1>1, <1>2, <1>3, <1>4, <1>5, <1>6, <1>7, <1>8, <1>9, <1>10, <1>11 DEF Next, Rest

-----------------------------------------------------------------------------
(* Theorems                                                                  *)

\* The invariant of the scheduler.
THEOREM Invariant == ASSUME CronAssumption PROVE Spec => []IInv
<1>1. Init => IInv
  BY DEF Init, IInv, TypeOK, Clocks, Sound, PeriodAhead, Absent, None, Never, CronAssumption
<1>2. IInv /\ [Next]_vars => IInv'
  BY StepKeeps
<1>. QED BY <1>1, <1>2, PTL DEF Spec

\* Type correctness: of the entries, whatever is edited while they run.
THEOREM TypeCorrect == ASSUME CronAssumption PROVE Spec => []TypeOK
<1>1. IInv => TypeOK
  BY DEF IInv
<1>. QED BY <1>1, Invariant, PTL

\* An enabled job has a next run: no outcome recorded late, no replacement and
\* no disabling in between leaves it without one.
THEOREM AlwaysScheduled ==
  ASSUME CronAssumption
  PROVE  Spec => [](\A j \in Jobs : job[j].enabled => job[j].next # None)
<1>1. IInv => \A j \in Jobs : job[j].enabled => job[j].next # None
  BY DEF IInv, Sound
<1>. QED BY <1>1, Invariant, PTL

\* An interval job is claimed as due once per period.
THEOREM ClaimedOnce == ASSUME CronAssumption PROVE Spec => ClaimedOncePerPeriod
<1>. DEFINE Once ==
       \A j \in Jobs : KindOf[j] = "every" /\ Due(j) /\ since'[j] = 0
         => since[j] \in {Never, Period}
<1>1. IInv => Once
  BY DEF IInv, Due, PeriodAhead, Clocks, None, Never, CronAssumption
<1>2. IInv => [Once]_vars
  BY <1>1
<1>. QED BY <1>2, Invariant, PTL DEF ClaimedOncePerPeriod
================================================================================
