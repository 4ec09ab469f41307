--------------------------- MODULE MCVerification ---------------------------
(***************************************************************************)
(* Verification over the six built-in profiles and two from files: three   *)
(* deviations in the policy-decision workflow, which has the signed        *)
(* decisions, and in the custom one, two in the others.                    *)
(***************************************************************************)
EXTENDS Verification

MCTargets == DOMAIN Workflow

MCDeviations == [p \in MCTargets |-> IF p \in {"policy_decision", "custom"} THEN 3 ELSE 2]
=============================================================================
