-------------------------------- MODULE Egress --------------------------------
(***************************************************************************)
(* The two layers that judge a destination by the same lists: the admission *)
(* validator (data_exfiltration.go) and the CiliumNetworkPolicy the operator *)
(* renders (cilium.go).                                                     *)
(*                                                                          *)
(* A host is the sequence of its labels, the top-level one first; an entry of *)
(* a list is a host, bare or with "*." before it.  Ports and paths are left  *)
(* out.                                                                     *)
(***************************************************************************)
EXTENDS Integers, Sequences, SequencesExt

Bare(host) == [wild |-> FALSE, name |-> host]
Wild(host) == [wild |-> TRUE, name |-> host]

Below(host, name) == IsStrictPrefix(name, host)

-----------------------------------------------------------------------------
(* The validator *)

\* A bare entry matches a host that contains it anywhere, a wildcard one that
\* contains it with another label below.
MatchesHostPattern(host, entry) ==
  LET n == Len(entry.name)
  IN \E i \in 0 .. Len(host) - n - (IF entry.wild THEN 1 ELSE 0) :
       SubSeq(host, i + 1, i + n) = entry.name

CheckURL(host, lists) ==
  /\ ~\E b \in lists.blocked : MatchesHostPattern(host, b)
  /\ \/ \E a \in lists.allowed : MatchesHostPattern(host, a)
     \/ ~lists.blockUnknown

-----------------------------------------------------------------------------
(* The renderer *)

\* "*.example.com" covers "example.com", what ends in ".example.com", and itself.
WildcardCovers(wildcard, entry) ==
  wildcard.wild /\ IsPrefix(wildcard.name, entry.name)

\* Mutant of Forms: the entry as it stands.
FormsAsWritten(entry) == {entry}

\* A bare entry is rendered with its subdomains, and compared so.
Forms(entry) == {entry, Wild(entry.name)}

Conflict(a, b) ==
  \E form \in Forms(a) : form = b \/ WildcardCovers(form, b) \/ WildcardCovers(b, form)

ExcludeBlockedConflicts(lists) ==
  {a \in lists.allowed : \A b \in lists.blocked : ~Conflict(a, b)}

FqdnRules(entry) == IF entry.wild THEN {entry} ELSE {entry, Wild(entry.name)}

\* With blockUnknown off, a rule lets every name through.
Anything == Wild(<<>>)

Rules(lists) ==
  UNION {FqdnRules(a) : a \in ExcludeBlockedConflicts(lists)}
    \cup (IF lists.blockUnknown THEN {} ELSE {Anything})

\* Which names an entry stands for in DNS, and so for Cilium.
Names(entry, host) == IF entry.wild THEN Below(host, entry.name) ELSE host = entry.name

Admitted(rules, host) == \E rule \in rules : Names(rule, host)
=============================================================================
