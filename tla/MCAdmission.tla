---------------------------- MODULE MCAdmission ----------------------------
(***************************************************************************)
(* Instances of Admission for TLC.                                         *)
(***************************************************************************)
EXTENDS Admission, TLC

Policy(id, calls, tok, rate, obs, ok) ==
  [id |-> id, budget |-> TRUE, calls |-> calls, tokens |-> tok, rate |-> rate,
   observe |-> obs, builds |-> ok]

\* An enforcing policy, one with less of everything, one that only observes, and
\* one whose PII patterns do not compile.
Roomy     == Policy("roomy", 1, 9, 0, FALSE, TRUE)
Tight     == Policy("tight", 1, 2, 1, FALSE, TRUE)
Observing == Policy("observing", 1, 9, 0, TRUE, TRUE)
Broken    == Policy("broken", 1, 9, 0, FALSE, FALSE)

AllPolicies  == {Roomy, Tight, Observing, Broken}
BudgetPolicies == {Roomy, Tight}
Undelegated  == [s \in Sessions |-> 0]
HandlerSymmetry == Permutations(Handlers)
=============================================================================
