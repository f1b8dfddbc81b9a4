-------------------------- MODULE PolicyEvaluation --------------------------
(***************************************************************************)
(* evaluate_activity on one activity by itself.  Module PolicySidecar has  *)
(* the same judgement in the course of a delivery.                         *)
(***************************************************************************)
EXTENDS AptosPolicy

CONSTANT Submitted   \* the activities that are looked at

ASSUME PolicyEvaluationConstants == \A request \in Submitted : request \in Activity

VARIABLES submitted, judgement

EvaluationInit ==
  /\ submitted \in Submitted
  /\ judgement = "none"

Evaluate ==
  /\ judgement = "none"
  /\ judgement' = EvaluateActivity(submitted)
  /\ UNCHANGED submitted

EvaluationSpec == EvaluationInit /\ [][Evaluate]_<<submitted, judgement>>

-----------------------------------------------------------------------------
(* Amount + gas * price is judged as in exact arithmetic, at any width: no *)
(* overflow lets a dearer transfer pass.  And whatever else is wrong with  *)
(* a request the sidecar is meant to decide on is answered by a vote       *)
(* against it, never by silence, which would leave it to other voters;     *)
(* nothing else is voted on.                                               *)
DecidesByThePolicy ==
  judgement # "none" =>
    /\ judgement = "approve" <=> MayApprove(submitted)
    /\ judgement \in {"approve", "reject"} <=> Applicable(submitted)
=============================================================================
