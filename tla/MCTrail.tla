------------------------------- MODULE MCTrail -------------------------------
(* An instance of Trail for TLC. *)
EXTENDS Trail

\* Sessions, and goroutines, are interchangeable.
Interchangeable == Permutations(Handlers) \cup Permutations(Sessions)
=============================================================================
