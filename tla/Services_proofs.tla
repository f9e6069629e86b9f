---------------------------- MODULE Services_proofs ----------------------------
(***************************************************************************)
(* The kernel's services, one at a time: what is proved about a looper     *)
(* run, approvals, the cron scheduler, event triggers and a fan-out group  *)
(* in the modules of their own holds of the services together, whatever    *)
(* else the daemon runs.                                                   *)
(***************************************************************************)
EXTENDS MCServices, Triggers_proofs, TLAPS

\* What the daemon does to approvals is a behaviour of approvals,
LEMMA ApprovalsBehave == ServicesSpec => Ap!Spec
<1>1. ServicesInit => Ap!Init
  BY DEF ServicesInit
<1>2. [ServicesNext]_<<vars, looper, approval, cron, fanOut>> => [Ap!Next]_Ap!vars
  <2>1. UNCHANGED approval => UNCHANGED Ap!vars
    BY DEF approval, Ap!vars
  <2>. QED BY <2>1 DEF ServicesNext
<1>. QED BY <1>1, <1>2, PTL DEF ServicesSpec, Ap!Spec

\* what it does to the jobs is a behaviour of the scheduler,
LEMMA JobsBehave == ServicesSpec => Cr!Spec
<1>1. ServicesInit => Cr!Init
  BY DEF ServicesInit
<1>2. [ServicesNext]_<<vars, looper, approval, cron, fanOut>> => [Cr!Next]_Cr!vars
  <2>1. UNCHANGED cron => UNCHANGED Cr!vars
    BY DEF cron, Cr!vars
  <2>. QED BY <2>1 DEF ServicesNext
<1>. QED BY <1>1, <1>2, PTL DEF ServicesSpec, Cr!Spec

\* and what it does to a fan-out group is a behaviour of the group.
LEMMA GroupsBehave == ServicesSpec => Fo!Spec
<1>1. ServicesInit => Fo!Init
  BY DEF ServicesInit
<1>2. [ServicesNext]_<<vars, looper, approval, cron, fanOut>> => [Fo!Next]_Fo!vars
  <2>1. UNCHANGED fanOut => UNCHANGED Fo!vars
    BY DEF fanOut, Fo!vars, Fo!env
  <2>. QED BY <2>1 DEF ServicesNext
<1>. QED BY <1>1, <1>2, PTL DEF ServicesSpec, Fo!Spec

\* The parameters of the daemon suit its services.
LEMMA Parameters ==
  Ap!ApprovalAssumption /\ Cr!CronAssumption /\ Fo!FanOutAssumption
<1>1. Ap!ApprovalAssumption
  BY ServicesAssumption DEF Ap!ApprovalAssumption
<1>2. Cr!CronAssumption
  BY ServicesAssumption DEF Cr!CronAssumption, Cr!NoJob
<1>3. Fo!FanOutAssumption
  <2>1. Fo!Steps \cup {Fo!Main} \subseteq 0 .. K
    BY ServicesAssumption DEF Fo!Steps, Fo!Main
  <2>2. Modes \in [Fo!Steps -> {"fail", "skip", "retry"}]
    BY DEF Modes, Fo!Steps
  <2>. QED BY <2>1, <2>2, ServicesAssumption DEF Fo!FanOutAssumption
<1>. QED BY <1>1, <1>2, <1>3

\* An agent acts on an approval only as it was recorded and reported, until the
\* bounded history has forgotten it.
THEOREM ActsOnRecord == ServicesSpec => []HistoryAgrees
<1>1. Ap!Spec => []Ap!HistoryAgrees
  BY Parameters, Ap!ActsOnRecord
<1>. QED BY <1>1, ApprovalsBehave, PTL DEF HistoryAgrees

\* No period of an interval job is claimed twice.
THEOREM ClaimedOnce == ServicesSpec => ClaimedOncePerPeriod
<1>1. Cr!Spec => Cr!ClaimedOncePerPeriod
  BY Parameters, Cr!ClaimedOnce
<1>. QED BY <1>1, JobsBehave, PTL DEF ClaimedOncePerPeriod

\* A fan-out group that completed lost no output.
THEOREM NothingLost == ServicesSpec => []SavedTogether
<1>1. Fo!Spec => []Fo!SavedTogether
  BY Parameters, ServicesAssumption, Fo!NothingLost
<1>. QED BY <1>1, GroupsBehave, PTL DEF SavedTogether

\* A fan-out group that failed did so in the name of its first failed step.
THEOREM FirstFails == ServicesSpec => []FailsInOrder
<1>1. Fo!Spec => []Fo!FailsInOrder
  BY Parameters, ServicesAssumption, Fo!FirstFails
<1>. QED BY <1>1, GroupsBehave, PTL DEF FailsInOrder

-----------------------------------------------------------------------------
(* A looper run                                                              *)

\* What the daemon does to a looper run is a behaviour of the run.
LEMMA RunsBehave == ServicesSpec => Lo!Spec
<1>1. ServicesInit => Lo!Init
  BY DEF ServicesInit
<1>2. [ServicesNext]_<<vars, looper, approval, cron, fanOut>> => [Lo!Next]_Lo!vars
  <2>1. UNCHANGED looper => UNCHANGED Lo!vars
    BY DEF looper, Lo!vars, Lo!durable, Lo!local, Lo!control, Lo!history
  <2>. QED BY <2>1 DEF ServicesNext
<1>. QED BY <1>1, <1>2, PTL DEF ServicesSpec, Lo!Spec

\* Its starts do not overlap.
LEMMA StartsApart == ServicesSpec => []Lo!OneStart
<1>1. ServicesInit => Lo!OneStart
  BY DEF ServicesInit, Lo!Init, Lo!OneStart
<1>2. Lo!OneStart /\ [ServicesNext]_<<vars, looper, approval, cron, fanOut>> => Lo!OneStart'
  <2>1. UNCHANGED looper => UNCHANGED call
    BY DEF looper
  <2>2. Lo!OneStart /\ UNCHANGED call => Lo!OneStart'
    BY DEF Lo!OneStart
  <2>. QED BY <2>1, <2>2 DEF ServicesNext
<1>. QED BY <1>1, <1>2, PTL DEF ServicesSpec

\* The parameters of the daemon suit its looper runs.
LEMMA RunParameters == Lo!LooperAssumption
  BY LooperAssumption DEF LooperAssumption, Lo!LooperAssumption, Subtasks, Lo!Subtasks

\* A looper run gives its agents no more subtasks than its policy allows,
THEOREM PolicyKept == ServicesSpec => []WithinPolicy
<1>1. Lo!Spec /\ []Lo!OneStart => []Lo!WithinPolicy
  BY RunParameters, Lo!PolicyKept
<1>. QED BY <1>1, RunsBehave, StartsApart, PTL DEF WithinPolicy

\* none before the subtasks it depends on,
THEOREM OrderKept == ServicesSpec => []DependenciesFirst
<1>1. Lo!Spec /\ []Lo!OneStart => []Lo!DependenciesFirst
  BY RunParameters, Lo!OrderKept
<1>. QED BY <1>1, RunsBehave, StartsApart, PTL DEF DependenciesFirst

\* none again without a crash,
THEOREM NotRepeated == ServicesSpec => []RepeatedOnlyByCrash
<1>1. Lo!Spec /\ []Lo!OneStart => []Lo!RepeatedOnlyByCrash
  BY RunParameters, Lo!NotRepeated
<1>. QED BY <1>1, RunsBehave, StartsApart, PTL DEF RepeatedOnlyByCrash

\* none outside the scope it was requested with,
THEOREM ScopeKept == ServicesSpec => []WithinScope
<1>1. Lo!Spec /\ []Lo!OneStart => []Lo!WithinScope
  BY RunParameters, Lo!ScopeKept
<1>. QED BY <1>1, RunsBehave, StartsApart, PTL DEF WithinScope

\* and once it is cancelled no more than it was about to.
THEOREM CancelStops == ServicesSpec => []CancelStopsSelection
<1>1. Lo!Spec /\ []Lo!OneStart => []Lo!CancelStopsSelection
  BY RunParameters, Lo!CancelStops
<1>. QED BY <1>1, RunsBehave, StartsApart, PTL DEF CancelStopsSelection

\* A finished run leaves no more rows open than the crashes it went through,
THEOREM NothingLeft == ServicesSpec => []NothingLeftBehind
<1>1. Lo!Spec /\ []Lo!OneStart => []Lo!NothingLeftBehind
  BY RunParameters, Lo!NothingLeft
<1>. QED BY <1>1, RunsBehave, StartsApart, PTL DEF NothingLeftBehind

\* it completes or fails for a cause,
THEOREM EndsForCause == ServicesSpec => OutcomeJustified
<1>1. Lo!Spec /\ []Lo!OneStart => Lo!OutcomeJustified
  BY RunParameters, Lo!EndsForCause
<1>. QED BY <1>1, RunsBehave, StartsApart, PTL DEF OutcomeJustified

\* and while it runs its runtime leaves it only for a pause.
THEOREM LeavesOnPause == ServicesSpec => LeavesOnlyWhenPaused
<1>1. Lo!Spec /\ []Lo!OneStart => Lo!LeavesOnlyWhenPaused
  BY RunParameters, Lo!LeavesOnPause
<1>. QED BY <1>1, RunsBehave, StartsApart, PTL DEF LeavesOnlyWhenPaused

-----------------------------------------------------------------------------
(* Event triggers, and the state of every service                            *)

\* What the daemon does to a trigger is a behaviour of the trigger.
LEMMA TriggersBehave == ServicesSpec => Spec
<1>1. ServicesInit => Init
  BY DEF ServicesInit
<1>2. [ServicesNext]_<<vars, looper, approval, cron, fanOut>> => [Next]_vars
  BY DEF ServicesNext
<1>. QED BY <1>1, <1>2, PTL DEF ServicesSpec, Spec

\* Whatever else the daemon runs, a trigger follows the definition its editor
\* left, and a definition that was removed leaves nothing behind.
THEOREM AsDefined == ServicesSpec => []FollowsDefinition
  BY TriggersBehave, DefinitionFollowed, PTL

\* Whatever else the daemon runs, a fire keeps to the cooldown and to the limit
\* of the row it was decided on.
THEOREM WithinLimits == ServicesSpec => LimitsKept
  BY TriggersBehave, LimitsHold

\* Every service keeps its rows and its processes in the states it declares.
THEOREM AllTyped == ServicesSpec => []ServicesTypeOK
<1>1. Lo!Spec /\ []Lo!OneStart => []Lo!TypeOK
  BY RunParameters, Lo!TypeCorrect
<1>2. Ap!Spec => []Ap!TypeOK
  BY Parameters, Ap!TypeCorrect
<1>3. Cr!Spec => []Cr!TypeOK
  BY Parameters, Cr!TypeCorrect
<1>4. Fo!Spec => []Fo!TypeOK
  BY Parameters, ServicesAssumption, Fo!TypeCorrect
<1>. QED BY <1>1, <1>2, <1>3, <1>4, TypeCorrect, TriggersBehave, RunsBehave, StartsApart,
            ApprovalsBehave, JobsBehave, GroupsBehave, PTL DEF ServicesTypeOK

================================================================================
