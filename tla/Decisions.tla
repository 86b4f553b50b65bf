----------------------------- MODULE Decisions -----------------------------
(***************************************************************************)
(* The admission decisions and the rules that pick one of them from the    *)
(* violations found in a call (pkg/admission/types.go, interceptor.go).    *)
(* A violation is abstracted to the decision it stands for: the one it     *)
(* names itself, or the one its severity implies (Implied).                *)
(***************************************************************************)
EXTENDS Naturals

Decision == {"ALLOW", "DENY", "MUTATE", "HUMAN_REVIEW", "TERMINATE"}

\* The decisions with which the handler answers 403.
Blocking == {"DENY", "TERMINATE"}

Severity == {"critical", "high", "medium", "low"}

\* The weight resolveDecision compares by; ALLOW and MUTATE weigh nothing.
DecisionSeverity ==
  [d \in Decision |-> CASE d = "TERMINATE"    -> 4
                        [] d = "DENY"         -> 3
                        [] d = "HUMAN_REVIEW" -> 2
                        [] OTHER              -> 0]

\* What a violation without a decision of its own stands for.
Implied(severity) ==
  IF severity \in {"critical", "high"} THEN "DENY" ELSE "HUMAN_REVIEW"

\* The worst decision the violations of a call stand for; HUMAN_REVIEW when
\* none of them weighs anything.
ResolveDecision(candidates) ==
  IF \E d \in candidates : DecisionSeverity[d] > 0
  THEN CHOOSE d \in candidates :
         \A e \in candidates : DecisionSeverity[e] <= DecisionSeverity[d]
  ELSE "HUMAN_REVIEW"

\* The outbound rule looks at severities only.
ResolveOutboundDecision(severities) ==
  IF severities \cap {"critical", "high"} # {} THEN "DENY" ELSE "MUTATE"
=============================================================================
