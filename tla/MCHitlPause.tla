------------------------------ MODULE MCHitlPause ------------------------------
(***************************************************************************)
(* Small instances of HitlPause for TLC.                                   *)
(***************************************************************************)
EXTENDS HitlPause

CONSTANTS answer1, answer2, cancelQ, cancelD, cancelR, pause, sweep

ActionOfClient ==
  [c \in Clients |-> CASE c \in {answer1, answer2} -> "answer"
                       [] c = cancelQ -> "cancelRequest"
                       [] c = cancelD -> "cancelDispatch"
                       [] c = cancelR -> "cancelRun"
                       [] c = pause   -> "pauseRun"
                       [] c = sweep   -> "sweep"]
================================================================================
