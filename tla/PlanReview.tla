----------------------------- MODULE PlanReview -----------------------------
(***************************************************************************)
(* What durable plans promise their user, without leases, tasks, crashes   *)
(* or checkpoints: a proposed plan is reviewed; only the version that was  *)
(* approved is executed, one step at a time; a step that fails for good    *)
(* sends a new version to review, with no step under way; a plan whose run *)
(* is over may be run again only as approved.                              *)
(***************************************************************************)
EXTENDS Naturals

CONSTANT StepNames

VARIABLES stage,      \* "absent", "review", "executing" or "over"
          version,    \* the current version
          approved,   \* the version last approved
          busy        \* the steps under way, each with its version

reviewVars == <<stage, version, approved, busy>>

ReviewInit == stage = "absent" /\ version = 0 /\ approved = 0 /\ busy = {}

Propose == stage = "absent" /\ stage' = "review" /\ version' = 1 /\ UNCHANGED <<approved, busy>>

ReviseVersion ==
  stage = "review" /\ version' = version + 1 /\ UNCHANGED <<stage, approved, busy>>

ApproveVersion ==
  /\ stage = "review" /\ stage' = "executing"
  /\ approved' = version /\ UNCHANGED <<version, busy>>

Decline == stage = "review" /\ stage' = "over" /\ UNCHANGED <<version, approved, busy>>

StartStep ==
  /\ stage = "executing" /\ approved = version /\ busy = {}
  /\ \E k \in StepNames : busy' = {<<version, k>>} /\ UNCHANGED <<stage, version, approved>>

EndStep == busy # {} /\ busy' = {} /\ UNCHANGED <<stage, version, approved>>

ReplanVersion ==
  /\ stage = "executing" /\ busy = {}
  /\ stage' = "review" /\ version' = version + 1 /\ UNCHANGED <<approved, busy>>

Finish ==
  /\ stage = "executing" /\ stage' = "over"
  /\ busy' = {} /\ UNCHANGED <<version, approved>>

Rerun ==
  /\ stage = "over" /\ approved = version
  /\ stage' = "executing" /\ UNCHANGED <<version, approved, busy>>

ReviewNext ==
  \/ Propose \/ ReviseVersion \/ ApproveVersion \/ Decline \/ StartStep \/ EndStep
  \/ ReplanVersion \/ Finish \/ Rerun

ReviewSpec == ReviewInit /\ [][ReviewNext]_reviewVars

=============================================================================
