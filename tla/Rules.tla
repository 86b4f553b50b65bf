-------------------------------- MODULE Rules --------------------------------
(***************************************************************************)
(* The algorithms of Roles, Egress, Chains, Outputs and Mutators against     *)
(* what they are meant to compute, for every input of a bounded size.  A     *)
(* behaviour is one input.                                                  *)
(***************************************************************************)
EXTENDS Roles, Chains, Outputs, Mutators, FiniteSets

E == INSTANCE Egress

CONSTANTS
  Tokens, MaxTokens, MaxParts,   \* signatures, patterns and lines of output
  Labels, MaxLabels,             \* hosts
  Stages, MaxEvents, Windows     \* histories of calls

ASSUME RulesBounds ==
  /\ {MaxTokens, MaxParts, MaxLabels, MaxEvents} \subseteq Nat
  /\ Windows \subseteq Nat \ {0}

\* What SanitizeOutput writes for what it takes out is no text a pattern is made of.
ASSUME MarkersAreNoTokens == {"[redacted]", "[output blocked]"} \cap Tokens = {}

VARIABLE input

Texts == SeqOf(Tokens, MaxTokens)
Patterns == SeqOf(SeqOf(Tokens, MaxTokens - 1), MaxParts) \ {<<>>}

\* Two tools: one takes an argument.
Signatures ==
  {<<"read">>, <<"bash">>} \cup {<<"bash", ":">> \o text : text \in SeqOf(Tokens, 1)}

\* A plain name, an exact call and a glob.
ScopePatterns ==
  {<< <<"bash">> >>, << <<"read">>, <<>> >>}
    \cup {<< <<"bash", ":", CHOOSE t \in Tokens : TRUE>> >>}
RoleDefs == [allowed : SUBSET ScopePatterns, denied : {{}} \cup {{p} : p \in ScopePatterns}]

Hosts == SeqOf(Labels, MaxLabels) \ {<<>>}
Entries == [wild : BOOLEAN, name : Hosts]
AllowedLists == {{}} \cup {{a} : a \in Entries}
BlockedLists == {{}} \cup {{a, b} : a, b \in Entries}

Histories == SeqOf(Stages, MaxEvents)
ChainsOf == {chain \in SeqOf(Stages, 3) : Len(chain) >= 2}

GlobInput == \E sig \in Texts, pattern \in Patterns :
  input = [of |-> "glob", sig |-> sig, pattern |-> pattern]

ScopeInput == \E child, parent \in RoleDefs, childKnown \in BOOLEAN :
  input = [of |-> "scope",
           roles |-> IF childKnown THEN [child |-> child, parent |-> parent]
                     ELSE [parent |-> parent]]

EgressInput ==
  \E allowed \in AllowedLists, blocked \in BlockedLists :
    input = [of |-> "egress",
             lists |-> [allowed |-> allowed, blocked |-> blocked,
                        blockUnknown |-> TRUE]]

ChainInput == \E events \in Histories, window \in Windows, chain \in ChainsOf :
  input = [of |-> "chain", events |-> events, window |-> window, chain |-> chain]

Outs == SeqOf(SeqOf(Tokens, 2), 3)
OutputPatterns == SeqOf(SeqOf(Tokens, 2) \ {<<>>}, 2)

OutputInput ==
  \E output \in Outs, patterns \in OutputPatterns, mode \in {"redact", "block"} :
    input = [of |-> "output", output |-> output, patterns |-> patterns, mode |-> mode]

Words == {"rm", "SELECT", "WHERE", "--force", "--dry-run"}
MutationRules ==
  [applies : BOOLEAN, triggers : {{}, {"rm"}}, inject : {None, "--dry-run"},
   strip : {{}, {"--force"}, {"--force", "--dry-run"}}]

\* Of the rules that do not apply one is enough.
TriedRules ==
  {rule \in MutationRules :
     rule.applies \/ (rule.triggers = {} /\ rule.inject # None /\ rule.strip = {"--force"})}

CallInput ==
  \E text \in SeqOf(Words, 2), first, second \in TriedRules,
    key \in {"command", "query"}, user \in BOOLEAN :
    \E refusedPath \in {FALSE, user} :
      input = [of |-> "call",
               call |-> [text |-> text, key |-> key, refusedPath |-> refusedPath, user |-> user],
               rules |-> <<first, second>>]

RulesInit == CallInput \/ OutputInput \/ GlobInput \/ ScopeInput \/ EgressInput \/ ChainInput
RulesNext == UNCHANGED input

-----------------------------------------------------------------------------
(* Reference definitions *)

\* The parts at positions f, in order and without overlapping.
Placed(sig, pattern, f) ==
  /\ \A i \in DOMAIN pattern : f[i] \in Occurrences(sig, pattern[i], 0)
  /\ \A i \in 1 .. Len(pattern) - 1 : f[i] + Len(pattern[i]) <= f[i + 1]

\* Some increasing indices among the last window ones spell the chain.
Spelled(events, window, chain) ==
  \E f \in [DOMAIN chain -> {i \in DOMAIN events : i > Len(events) - window}] :
    /\ \A k \in DOMAIN chain : events[f[k]] = chain[k]
    /\ \A k \in 1 .. Len(chain) - 1 : f[k] < f[k + 1]

-----------------------------------------------------------------------------
(* Properties *)

\* Two scans take the first match and never go back: matchesToolPattern looks for each
\* part behind the one before, DetectChain for the next stage in the window's calls.  They
\* still find every way a signature has of holding the parts in order, and a chain
\* whatever calls are in between - and nothing else.
ScansMissNothing ==
  /\ input.of = "glob" =>
       (MatchesGlob(input.sig, input.pattern)
          <=> \E f \in [DOMAIN input.pattern -> 0 .. Len(input.sig)] :
                Placed(input.sig, input.pattern, f))
  /\ input.of = "chain" =>
       (DetectChain(input.events, input.window, {input.chain})
          <=> Spelled(input.events, input.window, input.chain))

\* A delegation ValidateScope accepts gives the child no call its parent may not
\* make - between roles that have an allow list, when the child is denied what the
\* parent is denied.  (Without that it does: ValidateScope looks at neither deny
\* lists nor at the child's allow list being empty.)
DelegationGivesNothing ==
  input.of = "scope" =>
    LET roles == input.roles
        listed == \A r \in DOMAIN roles : roles[r].allowed # {}
        denied == "child" \in DOMAIN roles => roles.parent.denied \subseteq roles.child.denied
    IN listed /\ denied /\ ValidateScope(roles, "child", "parent") =>
         \A sig \in Signatures : MayCall(roles, "child", sig) => MayCall(roles, "parent", sig)

\* With blockUnknownDestinations, a name the rendered policy lets through is one
\* the allow list names for the validator too, and no blocked entry stands for it, whichever of the two is a
\* wildcard of the other.
NetworkKeepsToTheLists ==
  input.of = "egress" =>
    LET lists == input.lists
        rules == E!Rules(lists)
    IN \A host \in Hosts : E!Admitted(rules, host) =>
         /\ \E a \in lists.allowed : E!MatchesHostPattern(host, a)
         /\ \A b \in lists.blocked : ~E!Names(b, host)

\* Two patterns, one after the other, on output whose lines hold either or both: a
\* sanitized output passes the validator that refused it.
OutputsPass ==
  input.of = "output" =>
    ~Suspicious(SanitizeOutput(input.output, input.mode, input.patterns, <<"[redacted]">>),
                input.patterns)

\* Two rules that inject and strip the same flags.  Of a call only the sanitizer changes,
\* what a rule strips is gone unless a later one injected it, what it injects is there
\* unless it is stripped, and all else is as it was and where it was.
CallsPass ==
  input.of = "call" =>
    LET text == input.call.text
        rules == input.rules
        final == Mutate(input.call, rules)
        live == {i \in DOMAIN rules : rules[i].applies}
        Plain(words) == Without(words, {"--force", "--dry-run"})
    IN LeastPrivilege(input.call) = text =>
         /\ \A i \in live : \A flag \in rules[i].strip :
              HasAny(final, {flag}) => \E j \in live : j > i /\ rules[j].inject = flag
         /\ \A i \in live :
              /\ HasAny(text, rules[i].triggers) /\ rules[i].inject # None
              /\ ~\E j \in live : j >= i /\ rules[i].inject \in rules[j].strip
              => HasAny(final, {rules[i].inject})
         /\ Plain(final) = Plain(text)

SanitizedPasses == OutputsPass /\ CallsPass
=============================================================================
