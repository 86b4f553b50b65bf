----------------------------- MODULE MCSessions -----------------------------
(* Instances of Sessions for TLC. *)
EXTENDS Sessions, TLC

\* Goroutines of one kind are interchangeable.
Goroutines == Permutations(Handlers) \cup Permutations(Deleters)
=============================================================================
