---------------------------- MODULE OperatorClaims ----------------------------
(***************************************************************************)
(* Two statements of the operator's comments that the operator, with its    *)
(* caches and its hand-overs, does not keep.                                *)
(***************************************************************************)
EXTENDS Operator

\* "operator renders; a human/GitOps owns the Observe/Enforce gate": no step but
\* theirs changes spec.mode.
ModeIsTheHumans == [][aip'.mode # aip.mode => FlipMode]_vars

\* "Namespaces that were governed on a previous reconcile but no longer match have
\* their NetworkPolicy deleted rather than left stale": when a namespace leaves
\* governance for good, its policy is gone for good.
StaleIsDeleted ==
  \A n \in Namespaces :
    <>[](aip.mode = "Observe" \/ n \notin labels) /\ <>[](file \notin Broken)
      => <>[](n \notin Live("translator"))
=============================================================================
