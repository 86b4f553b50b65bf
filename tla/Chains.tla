-------------------------------- MODULE Chains --------------------------------
(***************************************************************************)
(* BehaviorAnalyzer: is an attack chain a subsequence of the stages of the   *)
(* last calls of a session?                                                 *)
(***************************************************************************)
EXTENDS Integers, Sequences, SequencesExt

Recent(events, window) ==
  IF Len(events) > window THEN SubSeq(events, Len(events) - window + 1, Len(events))
  ELSE events

\* The scan: how many stages of the chain are found so far.
Found(events, chain) ==
  LET n[i \in 0 .. Len(events)] ==
        IF i = 0 THEN 0
        ELSE n[i - 1] + IF n[i - 1] < Len(chain) /\ events[i] = chain[n[i - 1] + 1] THEN 1 ELSE 0
  IN n[Len(events)]

ContainsSequence(events, chain) == Found(events, chain) = Len(chain)

DetectChain(events, window, chains) ==
  \E chain \in chains : ContainsSequence(Recent(events, window), chain)
=============================================================================
