---------------------------- MODULE ReviewsClaims ----------------------------
(* What the review API says of decisions, against what its store does. *)
EXTENDS Reviews, TLC

\* Requests of one kind are interchangeable.
Requests == Permutations(Waiters) \cup Permutations(Operators)

Accepted(r) == {o \in Operators : operator[o].of = r
                                      /\ operator[o].at \in {"done", "lost"}}

\* approveReview and denyReview answer 404 "review not found or already decided"
\* to whoever comes second: no review has two operators answered 204.
DecidedOnce == \A r \in ReviewIds : Cardinality(Accepted(r)) <= 1
=============================================================================
