------------------------------- MODULE Mutators -------------------------------
(***************************************************************************)
(* The mutators of a call every check let pass: the sanitizer's rules on its *)
(* command or query, then least privilege.  A text is a sequence of words;   *)
(* flags and triggers are words, white space is left out.                   *)
(***************************************************************************)
EXTENDS Integers, Sequences, SequencesExt

None == "none"

HasAny(text, words) == \E i \in DOMAIN text : text[i] \in words

\* The words of a text that are none of these.
Without(text, words) ==
  LET kept[i \in 0 .. Len(text)] ==
        IF i = 0 THEN <<>>
        ELSE IF text[i] \in words THEN kept[i - 1] ELSE Append(kept[i - 1], text[i])
  IN kept[Len(text)]

\* A flag comes in behind a trigger, once; then flags to strip go, also that one.
ApplyRule(text, rule) ==
  LET risky == HasAny(text, rule.triggers) /\ rule.inject # None /\ ~HasAny(text, {rule.inject})
      injected == IF risky THEN Append(text, rule.inject) ELSE text
  IN Without(injected, rule.strip)

\* What does not match the tool, or is waived by the request's metadata, is skipped.
Sanitize(text, rules) ==
  LET done[i \in 0 .. Len(rules)] ==
        IF i = 0 THEN text
        ELSE IF rules[i].applies THEN ApplyRule(done[i - 1], rules[i]) ELSE done[i - 1]
  IN done[Len(rules)]

\* A path it refuses is an error, and an error no more than a line in the log.
LeastPrivilege(call) ==
  IF /\ ~call.refusedPath /\ call.key = "query" /\ call.user
     /\ HasAny(call.text, {"SELECT"}) /\ ~HasAny(call.text, {"WHERE"})
  THEN Append(call.text, "WHERE")
  ELSE call.text

\* Each works on the call as it came; the last that changed something is the call.
Mutate(call, rules) ==
  LET scoped == LeastPrivilege(call)
  IN IF scoped # call.text THEN scoped ELSE Sanitize(call.text, rules)
=============================================================================
