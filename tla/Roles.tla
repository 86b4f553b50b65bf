-------------------------------- MODULE Roles --------------------------------
(***************************************************************************)
(* ToolAuthorizationValidator: may a role make a call?  And ValidateScope:   *)
(* may a parent delegate to a role?                                         *)
(*                                                                          *)
(* A call's signature ("read_file", "bash:rm -rf /tmp") is a sequence of     *)
(* tokens, lower-cased; a pattern is the sequence of its parts between the  *)
(* asterisks, so that "bash:*--force*" has three and "bash" has one.        *)
(***************************************************************************)
EXTENDS Integers, Sequences, SequencesExt, FiniteSetsExt

NoMatch == -1

IsGlob(pattern) == Len(pattern) > 1

\* A name without an argument and without an asterisk.
IsPlain(pattern) == ~IsGlob(pattern) /\ ":" \notin Range(pattern[1])

\* Where part occurs in sig, from position pos on.
Occurrences(sig, part, pos) ==
  {p \in pos .. (Len(sig) - Len(part)) : SubSeq(sig, p + 1, p + Len(part)) = part}

\* Mutant of FindNext: the last occurrence instead of the first.
FindLast(sig, pos, part) ==
  IF pos = NoMatch \/ Occurrences(sig, part, pos) = {} THEN NoMatch
  ELSE Max(Occurrences(sig, part, pos)) + Len(part)

\* The position behind the first occurrence of part from pos on.
FindNext(sig, pos, part) ==
  IF pos = NoMatch \/ Occurrences(sig, part, pos) = {} THEN NoMatch
  ELSE Min(Occurrences(sig, part, pos)) + Len(part)

MatchesGlob(sig, pattern) ==
  LET pos[i \in 0 .. Len(pattern)] ==
        IF i = 0 THEN 0 ELSE FindNext(sig, pos[i - 1], pattern[i])
  IN pos[Len(pattern)] # NoMatch

\* The prefix test of a pattern that ends in "*" decides nothing: what has the
\* prefix contains it, and so matches as a glob, whose ends are not anchored.
MatchesToolPattern(sig, pattern) ==
  \/ pattern = <<sig>>
  \/ IsPlain(pattern) /\ IsPrefix(pattern[1] \o <<":">>, sig)
  \/ IsGlob(pattern) /\ MatchesGlob(sig, pattern)

MatchesAny(sig, patterns) == \E p \in patterns : MatchesToolPattern(sig, p)

\* roles maps the names of the roles in the policy to their [allowed, denied].
MayCall(roles, role, sig) ==
  /\ role \in DOMAIN roles
  /\ ~MatchesAny(sig, roles[role].denied)
  /\ roles[role].allowed = {} \/ MatchesAny(sig, roles[role].allowed)

ToolsForRole(roles, role) == IF role \in DOMAIN roles THEN roles[role].allowed ELSE {}

\* Mutant of ValidateScope: the child must offer what the parent needs.
ValidateScopeReversed(roles, child, parent) ==
  \/ ToolsForRole(roles, parent) = {}
  \/ ToolsForRole(roles, parent) \subseteq ToolsForRole(roles, child)

ValidateScope(roles, child, parent) ==
  \/ ToolsForRole(roles, parent) = {}
  \/ ToolsForRole(roles, child) \subseteq ToolsForRole(roles, parent)
=============================================================================
