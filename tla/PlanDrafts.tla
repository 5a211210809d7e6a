----------------------------- MODULE PlanDrafts -----------------------------
(***************************************************************************)
(* How a plan comes to be proposed: the routing of a chat request          *)
(* (planner/policy.py), the validation of a draft (planner/validation.py)  *)
(* and the two-attempt generator (planner/generator.py).  Texts, digests   *)
(* and sizes are abstracted: a step is its logical key, the keys it        *)
(* depends on, its attempt limit and its definition, of which only         *)
(* equality matters.                                                       *)
(***************************************************************************)
EXTENDS Integers, Sequences, FiniteSetsExt

CONSTANTS MaxSteps, MaxDepth, MaxStepAttempts, MaxRevisions   \* settings.planning

NoDraft == <<>>        \* no draft: the provider failed, or validation rejected it

Keys(steps) == {steps[i].key : i \in DOMAIN steps}

StepOf(steps, k) == steps[CHOOSE i \in DOMAIN steps : steps[i].key = k]

----------------------------------------------------------------------------
\* One more step is placed, the first in the draft's own order that has all its
\* dependencies placed; the steps of a cycle have no such step.
PlaceNext(steps, placed) ==
  LET ready == {i \in DOMAIN steps : /\ steps[i].key \notin Keys(placed)
                                     /\ steps[i].deps \subseteq Keys(placed)}
  IN IF ready = {} THEN placed ELSE Append(placed, steps[Min(ready)])

\* The order in which the steps are placed.
Placed(steps) ==
  LET f[n \in 0..Len(steps)] == IF n = 0 THEN <<>> ELSE PlaceNext(steps, f[n - 1])
  IN f[Len(steps)]

\* Length of the longest dependency chain that ends in step i of an order.
DepthAt(order) ==
  LET depth[i \in DOMAIN order] ==
        1 + Max({0} \cup {depth[j] : j \in {j \in 1..(i - 1) : order[j].key \in order[i].deps}})
  IN depth

\* The validated draft, its steps in canonical order, or NoDraft.
validate_plan_draft(steps) ==
  LET order == Placed(steps)
  IN IF /\ Len(steps) \in 1..MaxSteps
        /\ Cardinality(Keys(steps)) = Len(steps)
        /\ \A i \in DOMAIN steps : /\ steps[i].limit <= MaxStepAttempts
                                   /\ steps[i].deps \subseteq Keys(steps) \ {steps[i].key}
        /\ Len(order) = Len(steps)
        /\ \A i \in DOMAIN order : DepthAt(order)[i] <= MaxDepth
     THEN order
     ELSE NoDraft

\* What the generator returns when the model would answer first and, asked to
\* repair an invalid answer, second; NoDraft stands for a provider that fails,
\* and as the result for PlanGenerationError.
PlanGenerator_generate(first, second) ==
  IF first = NoDraft \/ validate_plan_draft(first) # NoDraft THEN validate_plan_draft(first)
  ELSE validate_plan_draft(second)

\* Where a request goes: mode is the request's planning mode, enabled the
\* setting, answer the classifier's ("failed" when it gives none).
PlanningPolicy_decide(mode, enabled, answer) ==
  CASE mode = "never" -> "direct"
    [] mode = "always" -> IF enabled THEN "plan" ELSE "unavailable"
    [] OTHER -> IF enabled /\ answer # "failed" THEN answer ELSE "direct"

=============================================================================
