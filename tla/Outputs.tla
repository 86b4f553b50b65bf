------------------------------- MODULE Outputs -------------------------------
(***************************************************************************)
(* OutputValidator: what is suspicious in a tool's output, and what the      *)
(* caller gets instead when the decision is MUTATE.                         *)
(*                                                                          *)
(* An output is a sequence of lines, a line a sequence of tokens, lower-cased. *)
(* Patterns do not span lines.  The mode "strip", which cuts the matched text *)
(* out of its line, is left out.                                            *)
(***************************************************************************)
EXTENDS Integers, Sequences, SequencesExt

Holds(line, pattern) ==
  \E i \in 0 .. Len(line) - Len(pattern) :
    SubSeq(line, i + 1, i + Len(pattern)) = pattern

\* outputValidation.suspiciousPattern
Suspicious(output, patterns) ==
  \E i \in DOMAIN output, k \in DOMAIN patterns : Holds(output[i], patterns[k])

\* Mutant of RedactLines: only the first such line.
RedactFirst(output, pattern, marker) ==
  [i \in DOMAIN output |->
     IF Holds(output[i], pattern) /\ \A j \in 1 .. i - 1 : ~Holds(output[j], pattern)
     THEN marker ELSE output[i]]

\* The whole line goes, with what follows the pattern in it.
RedactLines(output, pattern, marker) ==
  [i \in DOMAIN output |-> IF Holds(output[i], pattern) THEN marker ELSE output[i]]

Blocked == <<"[output blocked]">>

SanitizeOutput(output, mode, patterns, marker) ==
  IF mode = "block" /\ patterns # <<>> THEN <<Blocked>>
  ELSE LET text[k \in 0 .. Len(patterns)] ==
             IF k = 0 THEN output ELSE RedactLines(text[k - 1], patterns[k], marker)
       IN text[Len(patterns)]
=============================================================================
