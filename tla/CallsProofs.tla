----------------------------- MODULE CallsProofs -----------------------------
(***************************************************************************)
(* What is proved of what a call is judged by and how it gets there.  The    *)
(* algorithms of Rules compute what their reference definitions say, for     *)
(* signatures, patterns, histories, outputs and texts of any length over any *)
(* alphabet; the MCP proxy keeps its promises for any number of messages of  *)
(* the client and of messages the server was not asked for.                 *)
(***************************************************************************)
EXTENDS Rules, Proxy, WellFoundedInduction, FiniteSetTheorems, SequenceTheorems, TLAPS

-----------------------------------------------------------------------------
(* Induction: what is shown of every number is a set that is Nat *)

LEMMA LeastOf ==
  ASSUME NEW T \in SUBSET Nat, T # {}
  PROVE  \E m \in T : \A k \in T : m <= k
<1>1. IsWellFoundedOn(OpToRel(<, Nat), Nat) BY NatLessThanWellFounded
<1>2. PICK m \in T : \A k \in T : ~(<<k, m>> \in OpToRel(<, Nat)) BY <1>1, WFMin
<1>3. \A k \in T : ~(k < m) BY <1>2 DEF OpToRel
<1> QED BY <1>3

LEMMA NatSet ==
  ASSUME NEW T \in SUBSET Nat, 0 \in T, \A n \in T : n + 1 \in T
  PROVE  T = Nat
<1> DEFINE rest == Nat \ T
<1> SUFFICES ASSUME rest # {} PROVE FALSE OBVIOUS
<1>1. PICK m \in rest : \A k \in rest : m <= k BY LeastOf
<1>2. m # 0 /\ m - 1 \in Nat BY <1>1
<1>3. m - 1 \in T BY <1>1, <1>2
<1>4. (m - 1) + 1 = m BY <1>1
<1> QED BY <1>1, <1>3, <1>4

\* Up to n.
LEMMA UpTo ==
  ASSUME NEW n \in Nat, NEW T, 0 \in T, \A i \in 1 .. n : i - 1 \in T => i \in T
  PROVE  0 .. n \subseteq T
<1> DEFINE A == {i \in Nat : i <= n => i \in T}
<1>1. 0 \in A OBVIOUS
<1>2. ASSUME NEW i \in A PROVE i + 1 \in A
  <2>1. i \in Nat /\ (i <= n => i \in T) OBVIOUS
  <2>2. ASSUME i + 1 <= n PROVE i + 1 \in T
    <3>1. i + 1 \in 1 .. n /\ (i + 1) - 1 = i /\ i \in T BY <2>1, <2>2
    <3> QED BY <3>1
  <2> QED BY <2>1, <2>2
<1> HIDE DEF A
<1>3. A \in SUBSET Nat BY DEF A
<1>4. A = Nat BY <1>1, <1>2, <1>3, NatSet
<1> QED BY <1>4 DEF A

\* From a start, a step at a time.
Iterated(f, S, start, n, step) ==
  f \in [0 .. n -> S] /\ f[0] = start /\ \A i \in 1 .. n : f[i] = step[<<f[i - 1], i>>]

LEMMA Iterates ==
  ASSUME NEW S, NEW start, NEW n, NEW step,
         start \in S, n \in Nat, step \in [S \X (1 .. n) -> S]
  PROVE  \E f : Iterated(f, S, start, n, step)
<1> DEFINE Does(f, m) == f[0] = start /\ \A i \in 1 .. m : f[i] = step[<<f[i - 1], i>>]
           T == {m \in 0 .. n : \E f \in [0 .. m -> S] : Does(f, m)}
<1>1. 0 \in T
  <2> DEFINE z == [i \in 0 .. 0 |-> start]
  <2>1. z \in [0 .. 0 -> S] /\ z[0] = start OBVIOUS
  <2>2. \A i \in 1 .. 0 : z[i] = step[<<z[i - 1], i>>] OBVIOUS
  <2> HIDE DEF z
  <2>3. Does(z, 0) BY <2>1, <2>2
  <2> HIDE DEF Does
  <2> QED BY <2>1, <2>3
<1>2. ASSUME NEW m \in 1 .. n, m - 1 \in T PROVE m \in T
  <2>1. PICK f \in [0 .. m - 1 -> S] : Does(f, m - 1) BY <1>2
  <2> DEFINE g == [i \in 0 .. m |-> IF i < m THEN f[i] ELSE step[<<f[m - 1], m>>]]
  <2>2. m - 1 \in 0 .. m - 1 /\ f[m - 1] \in S OBVIOUS
  <2>3. step[<<f[m - 1], m>>] \in S BY <2>2
  <2>4. \A i \in 0 .. m : i < m => i \in 0 .. m - 1 OBVIOUS
  <2>5. g \in [0 .. m -> S] BY <2>3, <2>4
  <2>6. g[0] = start BY <2>1
  <2>7. ASSUME NEW i \in 1 .. m PROVE g[i] = step[<<g[i - 1], i>>]
    <3>1. i - 1 \in 0 .. m /\ i - 1 < m /\ i \in 0 .. m OBVIOUS
    <3>2. g[i - 1] = f[i - 1] BY <3>1
    <3>3. CASE i < m
      <4>1. i \in 1 .. m - 1 /\ g[i] = f[i] BY <3>1, <3>3
      <4> QED BY <2>1, <3>2, <4>1
    <3>4. CASE i = m BY <3>1, <3>2, <3>4
    <3> QED BY <3>3, <3>4
  <2> HIDE DEF g
  <2>8. Does(g, m) BY <2>6, <2>7
  <2> HIDE DEF Does
  <2> QED BY <2>5, <2>8
<1>3. 0 .. n \subseteq T
  <2> HIDE DEF T
  <2> QED BY <1>1, <1>2, UpTo
<1>4. n \in T
  <2>1. n \in 0 .. n OBVIOUS
  <2> HIDE DEF T
  <2> QED BY <1>3, <2>1
<1>5. PICK f \in [0 .. n -> S] : Does(f, n) BY <1>4
<1>6. Iterated(f, S, start, n, step) BY <1>5 DEF Iterated
<1> QED BY <1>6

-----------------------------------------------------------------------------
(* A scan of a signature for the parts of a pattern *)

LEMMA FindNextDoes ==
  ASSUME NEW S, NEW sig \in Seq(S), NEW part \in Seq(S), NEW pos \in Nat \cup {NoMatch}
  PROVE  /\ FindNext(sig, pos, part) \in Nat \cup {NoMatch}
         /\ pos = NoMatch \/ Occurrences(sig, part, pos) = {} => FindNext(sig, pos, part) = NoMatch
         /\ pos # NoMatch /\ Occurrences(sig, part, pos) # {} =>
              \E p \in Occurrences(sig, part, pos) :
                /\ \A q \in Occurrences(sig, part, pos) : p <= q
                /\ FindNext(sig, pos, part) = p + Len(part)
<1> DEFINE occ == Occurrences(sig, part, pos)
<1>1. CASE pos = NoMatch \/ occ = {} BY <1>1 DEF FindNext
<1>2. CASE pos # NoMatch /\ occ # {}
  <2>1. pos \in Nat /\ Len(part) \in Nat BY <1>2
  <2>2. occ \in SUBSET Nat BY <2>1 DEF Occurrences
  <2> HIDE DEF occ
  <2>3. \E p \in occ : \A q \in occ : p <= q BY <1>2, <2>2, LeastOf
  <2>4. Min(occ) \in occ /\ \A q \in occ : Min(occ) <= q BY <2>3 DEF Min
  <2>5. FindNext(sig, pos, part) = Min(occ) + Len(part) 
    <3>1. ~(pos = NoMatch \/ Occurrences(sig, part, pos) = {}) BY <1>2 DEF occ
    <3> QED BY <3>1, Zenon DEF FindNext, occ
  <2>6. Min(occ) + Len(part) \in Nat
    <3>1. Min(occ) \in Nat BY <2>2, <2>4
    <3> QED BY <2>1, <3>1
  <2> QED BY <1>2, <2>4, <2>5, <2>6 DEF occ
<1> QED BY <1>1, <1>2

LEMMA GlobScan ==
  ASSUME NEW S, NEW sig \in Seq(S), NEW pattern \in Seq(Seq(S))
  PROVE  \E pos \in [0 .. Len(pattern) -> Nat \cup {NoMatch}] :
           /\ pos[0] = 0
           /\ \A i \in 1 .. Len(pattern) : pos[i] = FindNext(sig, pos[i - 1], pattern[i])
           /\ MatchesGlob(sig, pattern) <=> pos[Len(pattern)] # NoMatch
<1> DEFINE n == Len(pattern)
           D == Nat \cup {NoMatch}
           step == [p \in D \X (1 .. n) |-> FindNext(sig, p[1], pattern[p[2]])]
           Eq(f) == f = [i \in 0 .. n |-> IF i = 0 THEN 0 ELSE FindNext(sig, f[i - 1], pattern[i])]
           scan == CHOOSE f : Eq(f)
<1>1. n \in Nat /\ 0 \in D OBVIOUS
<1>2. \A i \in 1 .. n : pattern[i] \in Seq(S) OBVIOUS
<1>3. \A p \in D, i \in 1 .. n : FindNext(sig, p, pattern[i]) \in D BY <1>2, FindNextDoes
<1>4. step \in [D \X (1 .. n) -> D] /\ \A p \in D, i \in 1 .. n : step[<<p, i>>] = FindNext(sig, p, pattern[i])
  BY <1>3
<1>a. step \in [D \X (1 .. n) -> D] BY <1>4
<1> HIDE DEF D, step, n
<1>b. PICK f : Iterated(f, D, 0, n, step) BY <1>1, <1>a, Iterates
<1>5. f \in [0 .. n -> D] /\ f[0] = 0 /\ \A i \in 1 .. n : f[i] = step[<<f[i - 1], i>>]
  BY <1>b DEF Iterated
<1>6. ASSUME NEW i \in 1 .. n PROVE f[i] = FindNext(sig, f[i - 1], pattern[i])
  <2>1. i - 1 \in 0 .. n BY <1>1
  <2> QED BY <1>4, <1>5, <2>1
<1>7. Eq(f) BY <1>1, <1>5, <1>6
<1>8. Eq(scan) BY <1>7
<1>9. MatchesGlob(sig, pattern) <=> scan[n] # NoMatch BY DEF MatchesGlob, n
<1> HIDE DEF scan
<1>10. scan[0] = 0 /\ \A i \in 1 .. n : scan[i] = FindNext(sig, scan[i - 1], pattern[i])
  <2>1. 0 \in 0 .. n /\ \A i \in 1 .. n : i \in 0 .. n /\ i # 0 BY <1>1
  <2> QED BY <1>8, <2>1
<1>11. scan \in [0 .. n -> D]
  <2> DEFINE T == {i \in 0 .. n : scan[i] \in D}
  <2>1. 0 \in T BY <1>1, <1>10
  <2>2. \A i \in 1 .. n : i - 1 \in T => i \in T BY <1>3, <1>10
  <2> HIDE DEF T
  <2>3. 0 .. n \subseteq T BY <1>1, <2>1, <2>2, UpTo
  <2>4. \A i \in 0 .. n : scan[i] \in D BY <2>3 DEF T
  <2>5. scan = [i \in 0 .. n |-> scan[i]] BY <1>8
  <2> QED BY <2>4, <2>5
<1> QED BY <1>9, <1>10, <1>11 DEF D, n

\* matchesToolPattern takes the first match of each part and never goes back, and still finds
\* the parts in order exactly if they can be placed, in a signature of any length.
THEOREM GlobFinds ==
  ASSUME NEW S, NEW sig \in Seq(S), NEW pattern \in Seq(Seq(S))
  PROVE  MatchesGlob(sig, pattern)
           <=> \E f \in [DOMAIN pattern -> 0 .. Len(sig)] : Placed(sig, pattern, f)
<1> DEFINE n == Len(pattern)
<1>1. /\ n \in Nat /\ DOMAIN pattern = 1 .. n /\ Len(sig) \in Nat
      /\ \A i \in 1 .. n : pattern[i] \in Seq(S) /\ Len(pattern[i]) \in Nat
  OBVIOUS
<1>2. PICK pos \in [0 .. n -> Nat \cup {NoMatch}] :
        /\ pos[0] = 0 /\ \A i \in 1 .. n : pos[i] = FindNext(sig, pos[i - 1], pattern[i])
        /\ MatchesGlob(sig, pattern) <=> pos[n] # NoMatch
  BY GlobScan
<1> HIDE DEF n
<1>3. ASSUME NEW i \in 1 .. n
      PROVE  /\ pos[i - 1] \in Nat \cup {NoMatch} /\ pos[i] = FindNext(sig, pos[i - 1], pattern[i])
             /\ pos[i - 1] = NoMatch \/ Occurrences(sig, pattern[i], pos[i - 1]) = {} => pos[i] = NoMatch
             /\ pos[i - 1] # NoMatch /\ Occurrences(sig, pattern[i], pos[i - 1]) # {} =>
                  \E p \in Occurrences(sig, pattern[i], pos[i - 1]) :
                    /\ \A q \in Occurrences(sig, pattern[i], pos[i - 1]) : p <= q
                    /\ pos[i] = p + Len(pattern[i])
  <2>1. i - 1 \in 0 .. n /\ pos[i - 1] \in Nat \cup {NoMatch} BY <1>1
  <2> DEFINE from == pos[i - 1]
             part == pattern[i]
             next == FindNext(sig, from, part)
  <2>2. part \in Seq(S) /\ from \in Nat \cup {NoMatch} /\ pos[i] = next BY <1>1, <1>2, <2>1
  <2> HIDE DEF from, part
  <2>3. /\ from = NoMatch \/ Occurrences(sig, part, from) = {} => next = NoMatch
        /\ from # NoMatch /\ Occurrences(sig, part, from) # {} =>
             \E p \in Occurrences(sig, part, from) :
               (\A q \in Occurrences(sig, part, from) : p <= q) /\ next = p + Len(part)
    BY <2>2, FindNextDoes
  <2> HIDE DEF next
  <2> QED BY <2>2, <2>3 DEF from, part, next
<1>4. ASSUME NEW f \in [DOMAIN pattern -> 0 .. Len(sig)], Placed(sig, pattern, f)
      PROVE  pos[n] # NoMatch
  <2> DEFINE T == {i \in 0 .. n : /\ pos[i] # NoMatch
                                  /\ i >= 1 => pos[i] <= f[i] + Len(pattern[i])}
  <2>1. 0 \in T BY <1>1, <1>2 DEF NoMatch
  <2>2. ASSUME NEW i \in 1 .. n, i - 1 \in T PROVE i \in T
    <3>1. f[i] \in Occurrences(sig, pattern[i], 0) BY <1>1, <1>4 DEF Placed
    <3>2. f[i] \in Nat /\ pos[i - 1] \in Nat BY <1>1, <1>3, <2>2
    <3>3. pos[i - 1] <= f[i]
      <4>1. CASE i = 1 BY <1>2, <3>2, <4>1
      <4>2. CASE i # 1
        <5>1. i - 1 \in 1 .. n - 1 /\ (i - 1) + 1 = i BY <1>1, <4>2
        <5>2. f[i - 1] + Len(pattern[i - 1]) <= f[i] BY <1>4, <5>1 DEF Placed, n
        <5>3. pos[i - 1] <= f[i - 1] + Len(pattern[i - 1]) BY <2>2, <5>1
        <5>4. f[i - 1] \in Nat /\ Len(pattern[i - 1]) \in Nat BY <1>1, <5>1
        <5> QED BY <3>2, <5>2, <5>3, <5>4
      <4> QED BY <4>1, <4>2
    <3>4. f[i] \in Occurrences(sig, pattern[i], pos[i - 1])
      BY <1>1, <3>1, <3>2, <3>3 DEF Occurrences
    <3>5. PICK p \in Occurrences(sig, pattern[i], pos[i - 1]) :
            p <= f[i] /\ pos[i] = p + Len(pattern[i])
      BY <1>3, <2>2, <3>4
    <3>6. p \in Nat BY <1>1, <3>2 DEF Occurrences
    <3>7. pos[i] # NoMatch /\ pos[i] <= f[i] + Len(pattern[i])
      <4>1. Len(pattern[i]) \in Nat BY <1>1
      <4> QED BY <3>2, <3>5, <3>6, <4>1 DEF NoMatch
    <3> QED BY <1>1, <3>7
  <2> HIDE DEF T
  <2>3. 0 .. n \subseteq T BY <1>1, <2>1, <2>2, UpTo
  <2>4. n \in T BY <1>1, <2>3
  <2> QED BY <2>4 DEF T
<1>5. ASSUME pos[n] # NoMatch
      PROVE  \E f \in [DOMAIN pattern -> 0 .. Len(sig)] : Placed(sig, pattern, f)
  <2> DEFINE T == {j \in 0 .. n : pos[j] # NoMatch => \A i \in 0 .. j : pos[i] # NoMatch}
  <2>1. 0 \in T BY <1>1
  <2>2. ASSUME NEW j \in 1 .. n, j - 1 \in T PROVE j \in T
    <3>1. pos[j] # NoMatch => pos[j - 1] # NoMatch BY <1>3
    <3>2. pos[j] # NoMatch => \A i \in 0 .. j - 1 : pos[i] # NoMatch BY <2>2, <3>1
    <3> QED BY <3>2
  <2> HIDE DEF T
  <2>3. 0 .. n \subseteq T BY <1>1, <2>1, <2>2, UpTo
  <2>4. \A i \in 0 .. n : pos[i] # NoMatch
    <3>1. n \in T BY <1>1, <2>3
    <3> QED BY <1>5, <3>1 DEF T
  <2> DEFINE f == [i \in DOMAIN pattern |-> pos[i] - Len(pattern[i])]
  <2>5. ASSUME NEW i \in 1 .. n
        PROVE  /\ f[i] \in Occurrences(sig, pattern[i], 0) /\ f[i] \in 0 .. Len(sig)
               /\ pos[i - 1] <= f[i] /\ pos[i - 1] \in Nat /\ pos[i] = f[i] + Len(pattern[i])
    <3>1. /\ i \in 0 .. n /\ i - 1 \in 0 .. n /\ pos[i - 1] \in Nat /\ pos[i] # NoMatch
          /\ Len(pattern[i]) \in Nat
      BY <1>1, <2>4, <1>3
    <3>2. PICK p \in Occurrences(sig, pattern[i], pos[i - 1]) : pos[i] = p + Len(pattern[i])
      BY <1>3, <3>1
    <3>3. p \in Nat /\ pos[i - 1] <= p /\ p \in 0 .. Len(sig) BY <1>1, <3>1 DEF Occurrences
    <3>4. f[i] = p BY <1>1, <3>1, <3>2, <3>3
    <3>5. p \in Occurrences(sig, pattern[i], 0) BY <1>1, <3>1, <3>3 DEF Occurrences
    <3> QED BY <3>1, <3>2, <3>3, <3>4, <3>5
  <2>6. f \in [DOMAIN pattern -> 0 .. Len(sig)]
    <3>1. \A i \in DOMAIN pattern : pos[i] - Len(pattern[i]) \in 0 .. Len(sig) BY <1>1, <2>5
    <3> QED BY <3>1
  <2> HIDE DEF f
  <2>7. Placed(sig, pattern, f)
    <3>1. \A i \in DOMAIN pattern : f[i] \in Occurrences(sig, pattern[i], 0) BY <1>1, <2>5
    <3>2. ASSUME NEW i \in 1 .. n - 1 PROVE f[i] + Len(pattern[i]) <= f[i + 1]
      <4>1. i \in 1 .. n /\ i + 1 \in 1 .. n /\ (i + 1) - 1 = i BY <1>1
      <4>2. pos[i] <= f[i + 1] /\ pos[i] = f[i] + Len(pattern[i]) BY <2>5, <4>1
      <4> QED BY <4>2
    <3> QED BY <3>1, <3>2 DEF Placed, n
  <2> QED BY <2>6, <2>7
<1> QED BY <1>2, <1>4, <1>5

-----------------------------------------------------------------------------
(* A scan of a session's calls for the stages of a chain *)

LEMMA ChainScan ==
  ASSUME NEW S, NEW events \in Seq(S), NEW chain \in Seq(S)
  PROVE  \E n \in [0 .. Len(events) -> 0 .. Len(chain)] :
           /\ n[0] = 0
           /\ \A i \in 1 .. Len(events) :
                n[i] = n[i - 1] + IF n[i - 1] < Len(chain) /\ events[i] = chain[n[i - 1] + 1]
                                  THEN 1 ELSE 0
           /\ Found(events, chain) = n[Len(events)]
<1> DEFINE m == Len(events)
           D == 0 .. Len(chain)
           Next1(p, i) == p + IF p < Len(chain) /\ events[i] = chain[p + 1] THEN 1 ELSE 0
           step == [p \in D \X (1 .. m) |-> Next1(p[1], p[2])]
           Eq(f) == f = [i \in 0 .. m |-> IF i = 0 THEN 0 ELSE
                      f[i - 1] + IF f[i - 1] < Len(chain) /\ events[i] = chain[f[i - 1] + 1]
                                 THEN 1 ELSE 0]
           scan == CHOOSE f : Eq(f)
<1>1. m \in Nat /\ 0 \in D /\ Len(chain) \in Nat OBVIOUS
<1>2. Found(events, chain) = scan[m] BY DEF Found
<1>3. ASSUME NEW p \in D, NEW i PROVE Next1(p, i) \in D
  <2>1. p \in Nat /\ p <= Len(chain) BY <1>1
  <2>2. Next1(p, i) = p \/ (p < Len(chain) /\ Next1(p, i) = p + 1) OBVIOUS
  <2> HIDE DEF Next1
  <2> QED BY <1>1, <2>1, <2>2
<1> HIDE DEF D, Next1
<1>4. step \in [D \X (1 .. m) -> D] /\ \A p \in D, i \in 1 .. m : step[<<p, i>>] = Next1(p, i)
  BY <1>3
<1>a. step \in [D \X (1 .. m) -> D] BY <1>4
<1> HIDE DEF step, m
<1>b. PICK f : Iterated(f, D, 0, m, step) BY <1>1, <1>a, Iterates
<1>5. f \in [0 .. m -> D] /\ f[0] = 0 /\ \A i \in 1 .. m : f[i] = step[<<f[i - 1], i>>]
  BY <1>b DEF Iterated
<1>6. ASSUME NEW i \in 1 .. m PROVE f[i] = Next1(f[i - 1], i)
  <2>1. i - 1 \in 0 .. m BY <1>1
  <2> QED BY <1>4, <1>5, <2>1
<1>7. Eq(f) BY <1>1, <1>5, <1>6 DEF Next1
<1>8. Eq(scan) BY <1>7
<1> HIDE DEF scan
<1>9. scan[0] = 0 /\ \A i \in 1 .. m : scan[i] = Next1(scan[i - 1], i)
  <2>1. 0 \in 0 .. m /\ \A i \in 1 .. m : i \in 0 .. m /\ i # 0 BY <1>1
  <2> QED BY <1>8, <2>1 DEF Next1
<1>10. scan = [i \in 0 .. m |-> scan[i]] BY <1>8
<1> HIDE DEF Eq
<1>11. scan \in [0 .. m -> D]
  <2> DEFINE T == {i \in 0 .. m : scan[i] \in D}
  <2>1. 0 \in T BY <1>1, <1>9
  <2>2. \A i \in 1 .. m : i - 1 \in T => i \in T BY <1>3, <1>9
  <2> HIDE DEF T
  <2>3. 0 .. m \subseteq T BY <1>1, <2>1, <2>2, UpTo
  <2>4. \A i \in 0 .. m : scan[i] \in D BY <2>3 DEF T
  <2> QED BY <1>10, <2>4
<1> QED BY <1>2, <1>9, <1>11 DEF D, m, Next1

\* Increasing places in events that hold the first of chain's stages.
Spells(events, chain, many, g) ==
  /\ \A k \in 1 .. many : events[g[k]] = chain[k]
  /\ \A k \in 1 .. many - 1 : g[k] < g[k + 1]

LEMMA ChainFinds ==
  ASSUME NEW S, NEW events \in Seq(S), NEW chain \in Seq(S)
  PROVE  ContainsSequence(events, chain)
           <=> \E g \in [DOMAIN chain -> DOMAIN events] : Spells(events, chain, Len(chain), g)
<1> DEFINE m == Len(events)
           c == Len(chain)
<1>1. m \in Nat /\ c \in Nat /\ DOMAIN chain = 1 .. c /\ DOMAIN events = 1 .. m OBVIOUS
<1>2. PICK n \in [0 .. m -> 0 .. c] :
        /\ n[0] = 0
        /\ \A i \in 1 .. m : n[i] = n[i - 1] + IF n[i - 1] < c /\ events[i] = chain[n[i - 1] + 1]
                                               THEN 1 ELSE 0
        /\ Found(events, chain) = n[m]
  BY ChainScan
<1> HIDE DEF m, c
<1>3. ContainsSequence(events, chain) <=> n[m] = c BY <1>2 DEF ContainsSequence, c
<1>4. ASSUME NEW j \in 1 .. m
      PROVE  /\ n[j - 1] \in 0 .. c /\ n[j] \in 0 .. c /\ j - 1 \in 0 .. m
             /\ IF n[j - 1] < c /\ events[j] = chain[n[j - 1] + 1] THEN n[j] = n[j - 1] + 1
                                                                 ELSE n[j] = n[j - 1]
  <2>1. j - 1 \in 0 .. m /\ j \in 0 .. m BY <1>1
  <2> QED BY <1>1, <1>2, <2>1
<1>5. ASSUME NEW g \in [1 .. c -> 1 .. m], Spells(events, chain, c, g)
      PROVE  n[m] = c
  <2> DEFINE T == {j \in 0 .. m : \A k \in 1 .. c : g[k] <= j => n[j] >= k}
  <2>1. 0 \in T BY <1>1
  <2>2. ASSUME NEW j \in 1 .. m, j - 1 \in T PROVE j \in T
    <3>1. \A k \in 1 .. c : g[k] <= j - 1 => n[j - 1] >= k BY <2>2
    <3>0. /\ n[j - 1] \in Int /\ n[j] \in Int /\ n[j - 1] <= n[j]
          /\ n[j - 1] < c /\ events[j] = chain[n[j - 1] + 1] => n[j] = n[j - 1] + 1
      <4>1. /\ n[j - 1] \in 0 .. c /\ n[j] \in 0 .. c
            /\ IF n[j - 1] < c /\ events[j] = chain[n[j - 1] + 1] THEN n[j] = n[j - 1] + 1
                                                                ELSE n[j] = n[j - 1]
        BY <1>4
      <4>2. n[j - 1] \in Int /\ n[j] \in Int BY <4>1
      <4> QED BY ONLY <4>1, <4>2
    <3>2. ASSUME NEW k \in 1 .. c, g[k] <= j PROVE n[j] >= k
      <4>1. g[k] \in 1 .. m /\ n[j - 1] \in Int /\ n[j] \in Int BY <3>0
      <4>2. CASE g[k] <= j - 1 BY <3>0, <3>1, <4>2
      <4>3. CASE g[k] = j
        <5>1. n[j - 1] >= k - 1
          <6>1. CASE k = 1 BY <1>4, <4>1, <6>1
          <6>2. CASE k # 1
            <7>1. k - 1 \in 1 .. c /\ k - 1 \in 1 .. c - 1 /\ (k - 1) + 1 = k BY <1>1, <6>2
            <7>2. g[k - 1] < g[k] /\ g[k - 1] \in 1 .. m BY <1>5, <7>1 DEF Spells
            <7>3. g[k - 1] <= j - 1 BY <4>3, <7>2
            <7> QED BY <3>1, <7>1, <7>3
          <6> QED BY <6>1, <6>2
        <5>2. events[j] = chain[k] BY <1>5, <4>3 DEF Spells
        <5>3. CASE n[j - 1] >= k BY <3>0, <5>3
        <5>4. CASE n[j - 1] = k - 1
          <6>1. n[j - 1] < c /\ n[j - 1] + 1 = k BY <1>1, <5>4
          <6> QED BY <3>0, <5>2, <6>1
        <5> QED BY <4>1, <5>1, <5>3, <5>4
      <4> QED BY <3>2, <4>1, <4>2, <4>3
    <3> QED BY <1>1, <3>2
  <2> HIDE DEF T
  <2>3. 0 .. m \subseteq T BY <1>1, <2>1, <2>2, UpTo
  <2>4. \A k \in 1 .. c : g[k] <= m => n[m] >= k
    <3>1. m \in T BY <1>1, <2>3
    <3> QED BY <3>1 DEF T
  <2>5. n[m] \in 0 .. c BY <1>1, <1>2
  <2>6. CASE c = 0 BY <2>5, <2>6
  <2>7. CASE c # 0
    <3>1. c \in 1 .. c /\ g[c] <= m BY <1>1, <2>7
    <3> QED BY <1>1, <2>4, <2>5, <3>1
  <2> QED BY <2>6, <2>7
<1>6. ASSUME n[m] = c
      PROVE  \E g \in [1 .. c -> 1 .. m] : Spells(events, chain, c, g)
  <2> DEFINE T == {j \in 0 .. m : \E g \in [1 .. n[j] -> 1 .. j] : Spells(events, chain, n[j], g)}
  <2>1. 0 \in T
    <3> DEFINE g == [k \in 1 .. 0 |-> 0]
    <3>1. g \in [1 .. 0 -> 1 .. 0] OBVIOUS
    <3>2. Spells(events, chain, 0, g) BY DEF Spells
    <3> HIDE DEF g
    <3>3. n[0] = 0 /\ 0 \in 0 .. m BY <1>1, <1>2
    <3>4. g \in [1 .. n[0] -> 1 .. 0] /\ Spells(events, chain, n[0], g) BY <3>1, <3>2, <3>3
    <3> QED BY <3>3, <3>4
  <2>2. ASSUME NEW j \in 1 .. m, j - 1 \in T PROVE j \in T
    <3>1. PICK g \in [1 .. n[j - 1] -> 1 .. j - 1] : Spells(events, chain, n[j - 1], g) BY <2>2
    <3>2. n[j - 1] \in Nat /\ n[j] \in Nat /\ j \in 0 .. m BY <1>1, <1>4
    <3>3. CASE n[j] = n[j - 1]
      <4>1. g \in [1 .. n[j] -> 1 .. j] BY <3>1, <3>2, <3>3
      <4>2. Spells(events, chain, n[j], g) BY <3>1, <3>3
      <4> QED BY <3>2, <4>1, <4>2
    <3>4. CASE n[j] = n[j - 1] + 1 /\ events[j] = chain[n[j - 1] + 1]
      <4> DEFINE h == [k \in 1 .. n[j] |-> IF k < n[j] THEN g[k] ELSE j]
      <4>1. \A k \in 1 .. n[j] : k < n[j] => k \in 1 .. n[j - 1] /\ h[k] = g[k] BY <3>2, <3>4
      <4>2. n[j] \in 1 .. n[j] /\ h[n[j]] = j BY <3>2, <3>4
      <4>3. h \in [1 .. n[j] -> 1 .. j]
        <5>1. \A k \in 1 .. n[j] : k < n[j] => g[k] \in 1 .. j
          <6>1. \A k \in 1 .. n[j - 1] : g[k] \in 1 .. j - 1 BY ONLY <3>1
          <6>2. \A i \in 1 .. j - 1 : i \in 1 .. j BY <3>2
          <6> QED BY <4>1, <6>1, <6>2
        <5> QED BY <5>1
      <4> HIDE DEF h
      <4>4. ASSUME NEW k \in 1 .. n[j] PROVE events[h[k]] = chain[k]
        <5>1. CASE k < n[j] BY <3>1, <4>1, <5>1 DEF Spells
        <5>2. CASE k = n[j] BY <3>4, <4>2, <5>2
        <5> QED BY <3>2, <5>1, <5>2
      <4>5. ASSUME NEW k \in 1 .. n[j] - 1 PROVE h[k] < h[k + 1]
        <5>1. k \in 1 .. n[j] /\ k < n[j] /\ k + 1 \in 1 .. n[j] /\ k \in 1 .. n[j - 1]
          BY <3>2, <3>4
        <5>2. h[k] = g[k] /\ g[k] \in 1 .. j - 1 BY <3>1, <4>1, <5>1
        <5>3. CASE k + 1 < n[j]
          <6>1. k \in 1 .. n[j - 1] - 1 /\ h[k + 1] = g[k + 1] BY <3>2, <3>4, <4>1, <5>1, <5>3
          <6> QED BY <3>1, <5>2, <6>1 DEF Spells
        <5>4. CASE k + 1 = n[j] BY <4>2, <5>2, <5>4
        <5> QED BY <3>2, <5>1, <5>3, <5>4
      <4>6. Spells(events, chain, n[j], h) BY <4>4, <4>5 DEF Spells
      <4> QED BY <3>2, <4>3, <4>6
    <3> QED BY <1>4, <3>3, <3>4
  <2> HIDE DEF T
  <2>3. 0 .. m \subseteq T BY <1>1, <2>1, <2>2, UpTo
  <2>4. m \in T BY <1>1, <2>3
  <2> QED BY <1>6, <2>4 DEF T
<1> QED BY <1>1, <1>3, <1>5, <1>6 DEF c

\* DetectChain finds a chain exactly if some of the window's calls spell it, for a history, a
\* chain and a window of any length: a place in the window is a place behind the others.
THEOREM ChainIsSpelled ==
  ASSUME NEW S, NEW events \in Seq(S), NEW chain \in Seq(S), NEW window \in Nat \ {0}
  PROVE  DetectChain(events, window, {chain}) <=> Spelled(events, window, chain)
<1> DEFINE e == Recent(events, window)
           d == IF Len(events) > window THEN Len(events) - window ELSE 0
           places == {i \in DOMAIN events : i > Len(events) - window}
           c == Len(chain)
<1>1. c \in Nat /\ DOMAIN chain = 1 .. c /\ Len(events) \in Nat /\ DOMAIN events = 1 .. Len(events)
  OBVIOUS
<1>2. /\ e \in Seq(S) /\ Len(e) \in Nat /\ DOMAIN e = 1 .. Len(e) /\ d \in Nat
      /\ d + Len(e) = Len(events)
      /\ \A i \in 1 .. Len(e) : e[i] = events[d + i]
  <2>1. CASE Len(events) > window
    <3>1. /\ SubSeq(events, Len(events) - window + 1, Len(events)) \in Seq(S)
          /\ Len(SubSeq(events, Len(events) - window + 1, Len(events))) = window
          /\ \A i \in 1 .. window : SubSeq(events, Len(events) - window + 1, Len(events))[i]
                                      = events[Len(events) - window + i]
      BY <1>1, <2>1
    <3>2. e = SubSeq(events, Len(events) - window + 1, Len(events)) /\ d = Len(events) - window
      BY <2>1 DEF Recent
    <3> HIDE DEF e, d
    <3> QED BY <1>1, <2>1, <3>1, <3>2
  <2>2. CASE ~(Len(events) > window)
    <3>1. e = events /\ d = 0 BY <2>2 DEF Recent
    <3> HIDE DEF e, d
    <3> QED BY <1>1, <3>1
  <2> QED BY <2>1, <2>2
<1>3. places = d + 1 .. Len(events)
  <2>1. \A i \in 1 .. Len(events) : i > Len(events) - window <=> i >= d + 1 BY <1>1
  <2> HIDE DEF d, e
  <2>2. \A i \in d + 1 .. Len(events) : i \in 1 .. Len(events) BY <1>1, <1>2
  <2> QED BY <1>1, <1>2, <2>1, <2>2
<1> HIDE DEF e, d, c
<1>4. DetectChain(events, window, {chain})
        <=> \E g \in [1 .. c -> 1 .. Len(e)] : Spells(e, chain, c, g)
  <2>1. DetectChain(events, window, {chain}) <=> ContainsSequence(e, chain) BY DEF DetectChain, e
  <2> QED BY <1>1, <1>2, <2>1, ChainFinds DEF c
<1>5. ASSUME NEW g \in [1 .. c -> 1 .. Len(e)], Spells(e, chain, c, g)
      PROVE  \E f \in [1 .. c -> places] : Spells(events, chain, c, f)
  <2> DEFINE f == [k \in 1 .. c |-> d + g[k]]
  <2>1. \A k \in 1 .. c : g[k] \in 1 .. Len(e) /\ d + g[k] \in places
    <3>1. \A k \in 1 .. c : g[k] \in 1 .. Len(e) OBVIOUS
    <3> HIDE DEF places
    <3> QED BY <1>1, <1>2, <1>3, <3>1
  <2>2. f \in [1 .. c -> places] BY <2>1
  <2>3. \A k \in 1 .. c : f[k] = d + g[k] /\ events[f[k]] = e[g[k]] BY <1>2, <2>1
  <2> HIDE DEF f, places
  <2>4. \A k \in 1 .. c : events[f[k]] = chain[k] BY <1>5, <2>3 DEF Spells
  <2>5. ASSUME NEW k \in 1 .. c - 1 PROVE f[k] < f[k + 1]
    <3>1. k \in 1 .. c /\ k + 1 \in 1 .. c BY <1>1
    <3>2. g[k] < g[k + 1] BY <1>5 DEF Spells
    <3>3. g[k] \in Nat /\ g[k + 1] \in Nat BY <2>1, <3>1
    <3> QED BY <1>2, <2>3, <3>1, <3>2, <3>3
  <2> QED BY <2>2, <2>4, <2>5 DEF Spells
<1>6. ASSUME NEW f \in [1 .. c -> places], Spells(events, chain, c, f)
      PROVE  \E g \in [1 .. c -> 1 .. Len(e)] : Spells(e, chain, c, g)
  <2> DEFINE g == [k \in 1 .. c |-> f[k] - d]
  <2> HIDE DEF places
  <2>1. \A k \in 1 .. c : f[k] \in places OBVIOUS
  <2>a. \A i \in places : i - d \in 1 .. Len(e) /\ d + (i - d) = i /\ i \in Int
    BY <1>1, <1>2, <1>3
  <2>2. \A k \in 1 .. c : f[k] - d \in 1 .. Len(e) /\ d + (f[k] - d) = f[k] /\ f[k] \in Int
    BY <2>1, <2>a
  <2>3. g \in [1 .. c -> 1 .. Len(e)] /\ \A k \in 1 .. c : g[k] = f[k] - d BY <2>2
  <2> HIDE DEF g
  <2>4. \A k \in 1 .. c : e[g[k]] = chain[k]
    <3>1. \A k \in 1 .. c : events[f[k]] = chain[k] BY <1>6 DEF Spells
    <3>2. \A k \in 1 .. c : g[k] \in 1 .. Len(e) /\ d + g[k] = f[k] BY <2>2, <2>3
    <3>3. \A k \in 1 .. c : e[g[k]] = events[d + g[k]] BY <1>2, <3>2
    <3> QED BY <3>1, <3>2, <3>3
  <2>5. ASSUME NEW k \in 1 .. c - 1 PROVE g[k] < g[k + 1]
    <3>1. k \in 1 .. c /\ k + 1 \in 1 .. c BY <1>1
    <3>2. f[k] < f[k + 1] BY <1>6 DEF Spells
    <3>3. f[k] \in Int /\ f[k + 1] \in Int BY <2>2, <3>1
    <3> QED BY <1>2, <2>3, <3>1, <3>2, <3>3
  <2> QED BY <2>3, <2>4, <2>5 DEF Spells
<1>7. Spelled(events, window, chain) <=> \E f \in [1 .. c -> places] : Spells(events, chain, c, f)
  BY <1>1 DEF Spelled, Spells, c
<1> QED BY <1>4, <1>5, <1>6, <1>7

LEMMA SeqOfIsSeq ==
  ASSUME NEW S, NEW n \in Nat, NEW s \in SeqOf(S, n)
  PROVE  s \in Seq(S) /\ Len(s) <= n
<1>1. PICK m \in 0 .. n : s \in [1 .. m -> S] BY DEF SeqOf
<1> QED BY <1>1

LEMMA ChainInputHolds == ChainInput => ScansMissNothing
<1> SUFFICES ASSUME ChainInput PROVE ScansMissNothing OBVIOUS
<1>1. PICK events \in Histories, window \in Windows, chain \in ChainsOf :
        input = [of |-> "chain", events |-> events, window |-> window, chain |-> chain]
  BY DEF ChainInput
<1>2. events \in Seq(Stages) /\ window \in Nat \ {0} BY RulesBounds, SeqOfIsSeq DEF Histories
<1>3. chain \in Seq(Stages)
  <2>1. chain \in SeqOf(Stages, 3) BY DEF ChainsOf
  <2> QED BY <2>1, SeqOfIsSeq
<1>4. DetectChain(events, window, {chain}) <=> Spelled(events, window, chain)
  BY <1>2, <1>3, ChainIsSpelled
<1> QED BY <1>1, <1>4 DEF ScansMissNothing

LEMMA GlobInputHolds == GlobInput => ScansMissNothing
<1> SUFFICES ASSUME GlobInput PROVE ScansMissNothing OBVIOUS
<1>1. PICK sig \in Texts, pattern \in Patterns :
        input = [of |-> "glob", sig |-> sig, pattern |-> pattern]
  BY DEF GlobInput
<1>2. sig \in Seq(Tokens) BY RulesBounds, SeqOfIsSeq DEF Texts
<1>3. pattern \in Seq(Seq(Tokens))
  <2>1. pattern \in Seq(SeqOf(Tokens, MaxTokens - 1)) BY RulesBounds, SeqOfIsSeq DEF Patterns
  <2>2. SeqOf(Tokens, MaxTokens - 1) \subseteq Seq(Tokens)
    <3>1. CASE MaxTokens >= 1 BY RulesBounds, <3>1, SeqOfIsSeq
    <3>2. CASE ~(MaxTokens >= 1)
      <4>1. 0 .. MaxTokens - 1 = {} BY RulesBounds, <3>2
      <4> QED BY <4>1 DEF SeqOf
    <3> QED BY <3>1, <3>2
  <2> QED BY <2>1, <2>2
<1>4. MatchesGlob(sig, pattern)
        <=> \E f \in [DOMAIN pattern -> 0 .. Len(sig)] : Placed(sig, pattern, f)
  BY <1>2, <1>3, GlobFinds
<1> QED BY <1>1, <1>4 DEF ScansMissNothing

-----------------------------------------------------------------------------
(* Output that is sanitized *)

LEMMA MarkerHoldsNothing ==
  ASSUME NEW token, token \notin Tokens, NEW pattern \in Seq(Tokens), pattern # <<>>
  PROVE  ~Holds(<<token>>, pattern)
<1> SUFFICES ASSUME Holds(<<token>>, pattern) PROVE FALSE OBVIOUS
<1>1. Len(pattern) \in Nat /\ Len(pattern) >= 1 /\ Len(<<token>>) = 1 /\ pattern[1] \in Tokens OBVIOUS
<1>2. PICK i \in 0 .. 1 - Len(pattern) : SubSeq(<<token>>, i + 1, i + Len(pattern)) = pattern
  BY <1>1 DEF Holds
<1>3. i = 0 /\ Len(pattern) = 1 BY <1>1, <1>2
<1>4. SubSeq(<<token>>, 1, 1) = pattern BY <1>2, <1>3
<1>5. SubSeq(<<token>>, 1, 1)[1] = token OBVIOUS
<1> QED BY <1>1, <1>4, <1>5

LEMMA LinesAreClean ==
  ASSUME NEW output \in Seq(Seq(Tokens)), NEW patterns \in Seq(Seq(Tokens)), NEW marker,
         NEW mode, ~(mode = "block" /\ patterns # <<>>)
  PROVE  LET text == SanitizeOutput(output, mode, patterns, marker)
         IN \A i \in DOMAIN text :
              text[i] = marker \/ \A k \in DOMAIN patterns : ~Holds(text[i], patterns[k])
<1> DEFINE n == Len(patterns)
           D == [1 .. Len(output) -> Seq(Tokens) \cup {marker}]
           step == [p \in D \X (1 .. n) |-> RedactLines(p[1], patterns[p[2]], marker)]
           Eq(f) == f = [k \in 0 .. n |-> IF k = 0 THEN output
                                          ELSE RedactLines(f[k - 1], patterns[k], marker)]
           text == CHOOSE f : Eq(f)
           Clean(lines, k) == \A i \in 1 .. Len(output) :
                                lines[i] = marker \/ \A j \in 1 .. k : ~Holds(lines[i], patterns[j])
<1>1. n \in Nat /\ DOMAIN patterns = 1 .. n /\ output \in D OBVIOUS
<1>2. SanitizeOutput(output, mode, patterns, marker) = text[n] BY DEF SanitizeOutput
<1>3. ASSUME NEW lines \in D, NEW pattern
      PROVE  /\ RedactLines(lines, pattern, marker) \in D
             /\ \A i \in 1 .. Len(output) :
                  RedactLines(lines, pattern, marker)[i]
                    = IF Holds(lines[i], pattern) THEN marker ELSE lines[i]
  BY DEF RedactLines
<1> HIDE DEF D, n
<1>4. step \in [D \X (1 .. n) -> D]
      /\ \A p \in D, k \in 1 .. n : step[<<p, k>>] = RedactLines(p, patterns[k], marker)
  BY <1>3
<1>a. step \in [D \X (1 .. n) -> D] BY <1>4
<1> HIDE DEF step
<1>b. PICK f : Iterated(f, D, output, n, step) BY <1>1, <1>a, Iterates
<1>5. f \in [0 .. n -> D] /\ f[0] = output /\ \A k \in 1 .. n : f[k] = step[<<f[k - 1], k>>]
  BY <1>b DEF Iterated
<1>6. ASSUME NEW k \in 1 .. n PROVE f[k] = RedactLines(f[k - 1], patterns[k], marker)
  <2>1. k - 1 \in 0 .. n BY <1>1
  <2> QED BY <1>4, <1>5, <2>1
<1>7. Eq(f) BY <1>1, <1>5, <1>6
<1>8. Eq(text) BY <1>7
<1> HIDE DEF text
<1>9. text[0] = output /\ \A k \in 1 .. n : text[k] = RedactLines(text[k - 1], patterns[k], marker)
  <2>1. 0 \in 0 .. n /\ \A k \in 1 .. n : k \in 0 .. n /\ k # 0 BY <1>1
  <2> QED BY <1>8, <2>1
<1> HIDE DEF Eq
<1> DEFINE T == {k \in 0 .. n : text[k] \in D /\ Clean(text[k], k)}
<1>10. 0 \in T BY <1>1, <1>9
<1>11. ASSUME NEW k \in 1 .. n, k - 1 \in T PROVE k \in T
  <2>1. text[k - 1] \in D /\ Clean(text[k - 1], k - 1) /\ text[k] = RedactLines(text[k - 1], patterns[k], marker)
    BY <1>9, <1>11
  <2>2. text[k] \in D /\ \A i \in 1 .. Len(output) :
          text[k][i] = IF Holds(text[k - 1][i], patterns[k]) THEN marker ELSE text[k - 1][i]
    BY <1>3, <2>1
  <2>3. ASSUME NEW i \in 1 .. Len(output), text[k][i] # marker, NEW j \in 1 .. k
        PROVE  ~Holds(text[k][i], patterns[j])
    <3>1. text[k][i] = text[k - 1][i] /\ ~Holds(text[k - 1][i], patterns[k]) BY <2>2, <2>3
    <3>2. CASE j = k BY <3>1, <3>2
    <3>3. CASE j # k
      <4>1. j \in 1 .. k - 1 BY <1>1, <3>3
      <4> QED BY <2>1, <2>3, <3>1, <4>1
    <3> QED BY <3>2, <3>3
  <2>4. Clean(text[k], k) BY <2>3
  <2> QED BY <2>2, <2>4
<1> HIDE DEF T
<1>12. 0 .. n \subseteq T BY <1>1, <1>10, <1>11, UpTo
<1>13. n \in T BY <1>1, <1>12
<1>14. DOMAIN text[n] = 1 .. Len(output) /\ Clean(text[n], n) BY <1>13 DEF T, D
<1> QED BY <1>1, <1>2, <1>14

\* SanitizeOutput of any output, by any patterns, is not suspicious to the validator any more.
THEOREM OutputIsClean ==
  ASSUME NEW output \in Seq(Seq(Tokens)), NEW patterns \in Seq(Seq(Tokens) \ {<<>>}),
         NEW mode \in {"redact", "block"}
  PROVE  ~Suspicious(SanitizeOutput(output, mode, patterns, <<"[redacted]">>), patterns)
<1>1. \A k \in DOMAIN patterns : patterns[k] \in Seq(Tokens) /\ patterns[k] # <<>> OBVIOUS
<1> DEFINE text == SanitizeOutput(output, mode, patterns, <<"[redacted]">>)
<1>2. ASSUME NEW k \in DOMAIN patterns
      PROVE  ~Holds(<<"[redacted]">>, patterns[k]) /\ ~Holds(Blocked, patterns[k])
  BY <1>1, MarkersAreNoTokens, MarkerHoldsNothing DEF Blocked
<1>3. CASE mode = "block" /\ patterns # <<>>
  <2>1. text = <<Blocked>> BY <1>3 DEF SanitizeOutput
  <2> HIDE DEF text
  <2>2. \A i \in DOMAIN text : text[i] = Blocked BY <2>1
  <2>3. ~Suspicious(text, patterns) BY <1>2, <2>2 DEF Suspicious
  <2> QED BY <2>3 DEF text
<1>4. CASE ~(mode = "block" /\ patterns # <<>>)
  <2>1. patterns \in Seq(Seq(Tokens)) OBVIOUS
  <2>2. \A i \in DOMAIN text : text[i] = <<"[redacted]">>
          \/ \A k \in DOMAIN patterns : ~Holds(text[i], patterns[k])
    BY <1>4, <2>1, LinesAreClean
  <2> HIDE DEF text
  <2>3. ~Suspicious(text, patterns) BY <1>2, <2>2 DEF Suspicious
  <2> QED BY <2>3 DEF text
<1> QED BY <1>3, <1>4

LEMMA OutputInputHolds == OutputInput => OutputsPass
<1> SUFFICES ASSUME OutputInput PROVE OutputsPass OBVIOUS
<1>1. PICK output \in Outs, patterns \in OutputPatterns, mode \in {"redact", "block"} :
        input = [of |-> "output", output |-> output, patterns |-> patterns, mode |-> mode]
  BY DEF OutputInput
<1>2. SeqOf(Tokens, 2) \subseteq Seq(Tokens) BY SeqOfIsSeq
<1>3. output \in Seq(Seq(Tokens))
  <2>1. output \in Seq(SeqOf(Tokens, 2)) BY SeqOfIsSeq DEF Outs
  <2> QED BY <1>2, <2>1
<1>4. patterns \in Seq(Seq(Tokens) \ {<<>>})
  <2>1. patterns \in Seq(SeqOf(Tokens, 2) \ {<<>>}) BY SeqOfIsSeq DEF OutputPatterns
  <2> QED BY <1>2, <2>1
<1>5. ~Suspicious(SanitizeOutput(output, mode, patterns, <<"[redacted]">>), patterns)
  BY <1>3, <1>4, OutputIsClean
<1> QED BY <1>1, <1>5 DEF OutputsPass

-----------------------------------------------------------------------------
(* A call's text that is mutated *)

\* What holds of the empty sequence and of whatever is one longer holds of all.
LEMMA SeqInduct ==
  ASSUME NEW W, NEW T, <<>> \in T, \A s \in Seq(W), e \in W : s \in T => Append(s, e) \in T
  PROVE  Seq(W) \subseteq T
<1> DEFINE A == {n \in Nat : \A s \in Seq(W) : Len(s) = n => s \in T}
<1>1. 0 \in A
  <2>1. \A s \in Seq(W) : Len(s) = 0 => s = <<>> OBVIOUS
  <2> QED BY <2>1
<1>2. ASSUME NEW n \in A PROVE n + 1 \in A
  <2>1. n \in Nat /\ \A s \in Seq(W) : Len(s) = n => s \in T OBVIOUS
  <2>2. ASSUME NEW s \in Seq(W), Len(s) = n + 1 PROVE s \in T
    <3>1. /\ SubSeq(s, 1, n) \in Seq(W) /\ Len(SubSeq(s, 1, n)) = n
          /\ \A i \in 1 .. n : SubSeq(s, 1, n)[i] = s[i]
      BY <2>1, <2>2
    <3>2. s[n + 1] \in W BY <2>1, <2>2
    <3> DEFINE f == SubSeq(s, 1, n)
    <3>3. f \in T BY <2>1, <3>1
    <3>4. s = Append(f, s[n + 1])
      <4> HIDE DEF f
      <4>1. f \in Seq(W) /\ Len(f) = n /\ \A i \in 1 .. n : f[i] = s[i] BY <3>1 DEF f
      <4>2. /\ Append(f, s[n + 1]) \in Seq(W) /\ Len(Append(f, s[n + 1])) = n + 1
            /\ \A i \in 1 .. n : Append(f, s[n + 1])[i] = f[i]
            /\ Append(f, s[n + 1])[n + 1] = s[n + 1]
        BY <2>1, <3>2, <4>1
      <4>3. \A i \in 1 .. n + 1 : Append(f, s[n + 1])[i] = s[i]
        <5>1. \A i \in 1 .. n + 1 : i \in 1 .. n \/ i = n + 1 BY <2>1
        <5> QED BY <4>1, <4>2, <5>1
      <4> QED BY <2>1, <2>2, <4>2, <4>3
    <3> HIDE DEF f
    <3>5. f \in Seq(W) BY <3>1 DEF f
    <3> QED BY <3>2, <3>3, <3>4, <3>5
  <2> QED BY <2>1, <2>2
<1> HIDE DEF A
<1>3. A \in SUBSET Nat BY DEF A
<1>4. A = Nat BY <1>1, <1>2, <1>3, NatSet
<1> QED BY <1>4 DEF A

\* The texts that are kept of s, word by word.
Keeps(kept, W, s, X) ==
  /\ kept \in [0 .. Len(s) -> Seq(W)] /\ kept[0] = <<>>
  /\ \A i \in 1 .. Len(s) :
       kept[i] = IF s[i] \in X THEN kept[i - 1] ELSE Append(kept[i - 1], s[i])
  /\ Without(s, X) = kept[Len(s)]

LEMMA WithoutScan ==
  ASSUME NEW W, NEW s \in Seq(W), NEW X
  PROVE  \E kept : Keeps(kept, W, s, X)
<1> DEFINE n == Len(s)
           D == Seq(W)
           One(p, i) == IF s[i] \in X THEN p ELSE Append(p, s[i])
           step == [p \in D \X (1 .. n) |-> One(p[1], p[2])]
           Eq(f) == f = [i \in 0 .. n |-> IF i = 0 THEN <<>>
                           ELSE IF s[i] \in X THEN f[i - 1] ELSE Append(f[i - 1], s[i])]
           scan == CHOOSE f : Eq(f)
<1>1. n \in Nat /\ <<>> \in D /\ \A i \in 1 .. n : s[i] \in W OBVIOUS
<1>2. Without(s, X) = scan[n] BY DEF Without
<1>3. \A p \in D, i \in 1 .. n : One(p, i) \in D BY <1>1
<1> HIDE DEF D, One, n
<1>4. step \in [D \X (1 .. n) -> D] /\ \A p \in D, i \in 1 .. n : step[<<p, i>>] = One(p, i)
  BY <1>3
<1>a. step \in [D \X (1 .. n) -> D] BY <1>4
<1> HIDE DEF step
<1>b. PICK f : Iterated(f, D, <<>>, n, step) BY <1>1, <1>a, Iterates
<1>5. f \in [0 .. n -> D] /\ f[0] = <<>> /\ \A i \in 1 .. n : f[i] = step[<<f[i - 1], i>>]
  BY <1>b DEF Iterated
<1>6. ASSUME NEW i \in 1 .. n PROVE f[i] = One(f[i - 1], i)
  <2>1. i - 1 \in 0 .. n BY <1>1
  <2> QED BY <1>4, <1>5, <2>1
<1>7. Eq(f)
  <2>1. f[0] = <<>> /\ f = [i \in 0 .. n |-> f[i]] BY <1>5
  <2>2. \A i \in 0 .. n : i = 0 \/ i \in 1 .. n BY <1>1
  <2>3. \A i \in 0 .. n : f[i] = IF i = 0 THEN <<>>
                        ELSE IF s[i] \in X THEN f[i - 1] ELSE Append(f[i - 1], s[i])
    BY <2>1, <2>2, <1>6 DEF One
  <2> QED BY <2>1, <2>3
<1>8. Eq(scan) BY <1>7
<1> HIDE DEF scan
<1>9. scan[0] = <<>> /\ \A i \in 1 .. n : scan[i] = One(scan[i - 1], i)
  <2>1. 0 \in 0 .. n /\ \A i \in 1 .. n : i \in 0 .. n /\ i # 0 BY <1>1
  <2> QED BY <1>8, <2>1 DEF One
<1>10. scan = [i \in 0 .. n |-> scan[i]] BY <1>8
<1> HIDE DEF Eq
<1>11. scan \in [0 .. n -> D]
  <2> DEFINE T == {i \in 0 .. n : scan[i] \in D}
  <2>1. 0 \in T BY <1>1, <1>9
  <2>2. \A i \in 1 .. n : i - 1 \in T => i \in T BY <1>3, <1>9
  <2> HIDE DEF T
  <2>3. 0 .. n \subseteq T BY <1>1, <2>1, <2>2, UpTo
  <2>4. \A i \in 0 .. n : scan[i] \in D BY <2>3 DEF T
  <2> QED BY <1>10, <2>4
<1>12. Keeps(scan, W, s, X) BY <1>2, <1>9, <1>11 DEF Keeps, D, n, One
<1> QED BY <1>12

\* Word by word.
LEMMA WithoutNothing ==
  ASSUME NEW X PROVE Without(<<>>, X) = <<>>
<1>1. <<>> \in Seq({}) /\ Len(<<>>) = 0 OBVIOUS
<1>2. PICK kept : Keeps(kept, {}, <<>>, X) BY <1>1, WithoutScan
<1> QED BY <1>1, <1>2 DEF Keeps

LEMMA WithoutIs ==
  ASSUME NEW W, NEW s \in Seq(W), NEW e \in W, NEW X
  PROVE  /\ Without(s, X) \in Seq(W)
         /\ Without(Append(s, e), X)
              = IF e \in X THEN Without(s, X) ELSE Append(Without(s, X), e)
<1> DEFINE n == Len(s)
           t == Append(s, e)
<1>1. /\ n \in Nat /\ t \in Seq(W) /\ Len(t) = n + 1 /\ t[n + 1] = e
      /\ \A i \in 1 .. n : t[i] = s[i]
  OBVIOUS
<1>2. PICK a \in [0 .. n -> Seq(W)] :
        /\ a[0] = <<>> /\ Without(s, X) = a[n]
        /\ \A i \in 1 .. n : a[i] = IF s[i] \in X THEN a[i - 1] ELSE Append(a[i - 1], s[i])
  <2>1. PICK kept : Keeps(kept, W, s, X) BY WithoutScan
  <2> QED BY <2>1 DEF Keeps
<1> HIDE DEF t, n
<1>3. PICK b \in [0 .. n + 1 -> Seq(W)] :
        /\ b[0] = <<>> /\ Without(t, X) = b[n + 1]
        /\ \A i \in 1 .. n + 1 : b[i] = IF t[i] \in X THEN b[i - 1] ELSE Append(b[i - 1], t[i])
  <2>1. PICK kept : Keeps(kept, W, t, X) BY <1>1, WithoutScan
  <2> QED BY <1>1, <2>1 DEF Keeps
<1> DEFINE T == {i \in 0 .. n : b[i] = a[i]}
<1>4. 0 \in T BY <1>1, <1>2, <1>3
<1>5. ASSUME NEW i \in 1 .. n, i - 1 \in T PROVE i \in T
  <2>1. i \in 1 .. n + 1 /\ t[i] = s[i] /\ b[i - 1] = a[i - 1] BY <1>1, <1>5
  <2> QED BY <1>2, <1>3, <2>1
<1> HIDE DEF T
<1>6. 0 .. n \subseteq T BY <1>1, <1>4, <1>5, UpTo
<1>7. n \in T /\ n + 1 \in 1 .. n + 1 /\ (n + 1) - 1 = n BY <1>1, <1>6
<1>8. b[n] = a[n] BY <1>7 DEF T
<1>9. b[n + 1] = IF e \in X THEN a[n] ELSE Append(a[n], e) BY <1>1, <1>3, <1>7, <1>8
<1>10. a[n] \in Seq(W) BY <1>1, <1>2
<1> QED BY <1>2, <1>3, <1>9, <1>10 DEF t

LEMMA HasAnyIs ==
  ASSUME NEW W, NEW X
  PROVE  /\ ~HasAny(<<>>, X)
         /\ \A s \in Seq(W), e \in W : HasAny(Append(s, e), X) <=> HasAny(s, X) \/ e \in X
<1>1. ~HasAny(<<>>, X) BY DEF HasAny
<1>2. ASSUME NEW s \in Seq(W), NEW e \in W
      PROVE  HasAny(Append(s, e), X) <=> HasAny(s, X) \/ e \in X
  <2> DEFINE t == Append(s, e)
  <2>1. /\ Len(s) \in Nat /\ DOMAIN s = 1 .. Len(s) /\ DOMAIN t = 1 .. Len(s) + 1
        /\ t[Len(s) + 1] = e /\ \A i \in 1 .. Len(s) : t[i] = s[i]
    OBVIOUS
  <2>2. \A i \in 1 .. Len(s) + 1 : i \in 1 .. Len(s) \/ i = Len(s) + 1 BY <2>1
  <2> HIDE DEF t
  <2>3. HasAny(t, X) <=> HasAny(s, X) \/ e \in X BY <2>1, <2>2 DEF HasAny
  <2> QED BY <2>3 DEF t
<1> QED BY <1>1, <1>2

\* What is taken out is gone, and nothing else.
LEMMA WithoutTakesOut ==
  ASSUME NEW W, NEW s \in Seq(W), NEW A, NEW X
  PROVE  /\ HasAny(Without(s, A), X) <=> HasAny(s, X \ A)
         /\ A \subseteq X => Without(Without(s, A), X) = Without(s, X)
<1> DEFINE T == {t \in Seq(W) : /\ HasAny(Without(t, A), X) <=> HasAny(t, X \ A)
                                /\ A \subseteq X => Without(Without(t, A), X) = Without(t, X)}
<1>1. <<>> \in T
  <2>1. <<>> \in Seq(W) /\ Without(<<>>, A) = <<>> /\ Without(<<>>, X) = <<>> BY WithoutNothing
  <2>2. ~HasAny(<<>>, X) /\ ~HasAny(<<>>, X \ A) BY HasAnyIs
  <2> QED BY <2>1, <2>2
<1>2. ASSUME NEW t \in Seq(W), NEW e \in W, t \in T PROVE Append(t, e) \in T
  <2>a. Without(t, A) \in Seq(W) BY WithoutIs
  <2>b. Without(Append(t, e), A) = IF e \in A THEN Without(t, A) ELSE Append(Without(t, A), e)
    BY WithoutIs
  <2>c. Without(Append(t, e), X) = IF e \in X THEN Without(t, X) ELSE Append(Without(t, X), e)
    BY WithoutIs
  <2> DEFINE u == Append(t, e)
             w == Without(t, A)
  <2>1. /\ w \in Seq(W) /\ Without(u, A) = IF e \in A THEN w ELSE Append(w, e)
        /\ Without(u, X) = IF e \in X THEN Without(t, X) ELSE Append(Without(t, X), e)
    BY <2>a, <2>b, <2>c
  <2>2. Without(Append(w, e), X) = IF e \in X THEN Without(w, X) ELSE Append(Without(w, X), e)
    <3>1. w \in Seq(W) BY <2>a
    <3> HIDE DEF w, u, T
    <3> QED BY <3>1, WithoutIs
  <2>3. HasAny(Append(w, e), X) <=> HasAny(w, X) \/ e \in X BY <2>1, HasAnyIs
  <2>4. HasAny(u, X \ A) <=> HasAny(t, X \ A) \/ e \in X \ A BY HasAnyIs
  <2>5. u \in Seq(W) OBVIOUS
  <2>6. (HasAny(w, X) <=> HasAny(t, X \ A)) /\ (A \subseteq X => Without(w, X) = Without(t, X))
    BY <1>2
  <2> HIDE DEF u, w
  <2>7. HasAny(Without(u, A), X) <=> HasAny(u, X \ A)
    <3>1. CASE e \in A BY <2>1, <2>4, <2>6, <3>1
    <3>2. CASE e \notin A BY <2>1, <2>3, <2>4, <2>6, <3>2
    <3> QED BY <3>1, <3>2
  <2>8. ASSUME A \subseteq X PROVE Without(Without(u, A), X) = Without(u, X)
    <3>1. CASE e \in A BY <2>1, <2>6, <2>8, <3>1
    <3>2. CASE e \notin A BY <2>1, <2>2, <2>6, <2>8, <3>2
    <3> QED BY <3>1, <3>2
  <2>9. u \in T BY <2>5, <2>7, <2>8
  <2> QED BY <2>9 DEF u
<1> HIDE DEF T
<1>3. Seq(W) \subseteq T BY <1>1, <1>2, SeqInduct
<1>4. s \in T BY <1>3
<1> QED BY <1>4 DEF T

Flags == {"--force", "--dry-run"}

LEMMA RuleIs ==
  ASSUME NEW rule \in MutationRules
  PROVE  /\ rule.applies \in BOOLEAN /\ rule.triggers \in {{}, {"rm"}}
         /\ rule.inject \in {"none", "--dry-run"} /\ rule.strip \subseteq Flags
BY DEF MutationRules, Flags, None

\* What a rule does to a text, flag by flag.
Applied(s, t, rule) ==
  /\ t \in Seq(Words) /\ Without(t, Flags) = Without(s, Flags)
  /\ \A flag : flag \in rule.strip => ~HasAny(t, {flag})
  /\ \A flag : HasAny(t, {flag}) => HasAny(s, {flag}) \/ rule.inject = flag
  /\ \A flag : HasAny(s, {flag}) /\ flag \notin rule.strip => HasAny(t, {flag})
  /\ HasAny(s, rule.triggers) /\ rule.inject # None /\ rule.inject \notin rule.strip
       => HasAny(t, {rule.inject})

LEMMA ApplyRuleDoes ==
  ASSUME NEW s \in Seq(Words), NEW rule \in MutationRules
  PROVE  Applied(s, ApplyRule(s, rule), rule)
<1> DEFINE flag0 == rule.inject
           risky == HasAny(s, rule.triggers) /\ flag0 # None /\ ~HasAny(s, {flag0})
           in == IF risky THEN Append(s, flag0) ELSE s
           t == ApplyRule(s, rule)
<1>1. flag0 \in {"none", "--dry-run"} /\ rule.strip \subseteq Flags BY RuleIs
<1>2. t = Without(in, rule.strip) BY DEF ApplyRule
<1>3. risky => flag0 = "--dry-run" /\ flag0 \in Words /\ flag0 \in Flags BY <1>1 DEF None, Words, Flags
<1> HIDE DEF t
<1>4. in \in Seq(Words)
  <2>1. risky => Append(s, flag0) \in Seq(Words) BY <1>3
  <2> HIDE DEF risky
  <2> QED BY <2>1
<1>5. ASSUME NEW X PROVE HasAny(in, X) <=> HasAny(s, X) \/ (risky /\ flag0 \in X)
  <2>1. risky => (HasAny(Append(s, flag0), X) <=> HasAny(s, X) \/ flag0 \in X) BY <1>3, HasAnyIs
  <2> HIDE DEF risky
  <2> QED BY <2>1
<1>6. Without(in, Flags) = Without(s, Flags)
  <2>1. risky => Without(Append(s, flag0), Flags) = Without(s, Flags) BY <1>3, WithoutIs
  <2> HIDE DEF risky
  <2> QED BY <2>1
<1>a. risky \/ HasAny(s, {flag0}) \/ ~(HasAny(s, rule.triggers) /\ flag0 # None) OBVIOUS
<1>b. risky => flag0 # None OBVIOUS
<1> HIDE DEF in, risky, flag0
<1>7. t \in Seq(Words)
  <2>1. PICK kept : Keeps(kept, Words, in, rule.strip) BY <1>4, WithoutScan
  <2>2. Len(in) \in 0 .. Len(in) BY <1>4
  <2> QED BY <1>2, <2>1, <2>2 DEF Keeps
<1>8. ASSUME NEW X
      PROVE  /\ HasAny(t, X) <=> HasAny(in, X \ rule.strip)
             /\ rule.strip \subseteq X => Without(t, X) = Without(in, X)
  BY <1>2, <1>4, WithoutTakesOut
<1>9. Without(t, Flags) = Without(s, Flags) BY <1>1, <1>6, <1>8
<1>10. ASSUME NEW flag
       PROVE HasAny(t, {flag})
               <=> flag \notin rule.strip /\ (HasAny(s, {flag}) \/ (risky /\ flag0 = flag))
  <2>1. CASE flag \in rule.strip
    <3>1. {flag} \ rule.strip = {} BY <2>1
    <3>2. ~HasAny(in, {}) BY DEF HasAny
    <3>3. HasAny(t, {flag}) <=> HasAny(in, {flag} \ rule.strip) BY <1>8
    <3>4. HasAny(t, {flag}) <=> HasAny(in, {}) BY <3>1, <3>3
    <3> QED BY <2>1, <3>2, <3>4
  <2>2. CASE flag \notin rule.strip
    <3>1. {flag} \ rule.strip = {flag} BY <2>2
    <3>2. HasAny(in, {flag}) <=> HasAny(s, {flag}) \/ (risky /\ flag0 \in {flag}) BY <1>5
    <3>3. HasAny(t, {flag}) <=> HasAny(in, {flag} \ rule.strip) BY <1>8
    <3>4. HasAny(t, {flag}) <=> HasAny(in, {flag}) BY <3>1, <3>3
    <3> QED BY <2>2, <3>2, <3>4
  <2> QED BY <2>1, <2>2
<1>11. HasAny(s, rule.triggers) /\ flag0 # None /\ flag0 \notin rule.strip => HasAny(t, {flag0})
  BY <1>a, <1>10
<1>12. \A flag : flag \in rule.strip => ~HasAny(t, {flag}) BY <1>10
<1>13. \A flag : HasAny(t, {flag}) => HasAny(s, {flag}) \/ flag0 = flag BY <1>10
<1>14. \A flag : HasAny(s, {flag}) /\ flag \notin rule.strip => HasAny(t, {flag}) BY <1>10
<1> QED BY <1>7, <1>9, <1>11, <1>12, <1>13, <1>14 DEF t, flag0, Applied

\* The texts after each rule.
Cleans(done, text, rules) ==
  /\ done \in [0 .. Len(rules) -> Seq(Words)] /\ done[0] = text
  /\ \A i \in 1 .. Len(rules) :
       done[i] = IF rules[i].applies THEN ApplyRule(done[i - 1], rules[i]) ELSE done[i - 1]
  /\ Sanitize(text, rules) = done[Len(rules)]

LEMMA SanitizeScan ==
  ASSUME NEW text \in Seq(Words), NEW rules \in Seq(MutationRules)
  PROVE  \E done : Cleans(done, text, rules)
<1> DEFINE n == Len(rules)
           D == Seq(Words)
           One(p, i) == IF rules[i].applies THEN ApplyRule(p, rules[i]) ELSE p
           step == [p \in D \X (1 .. n) |-> One(p[1], p[2])]
           Eq(f) == f = [i \in 0 .. n |-> IF i = 0 THEN text
                           ELSE IF rules[i].applies THEN ApplyRule(f[i - 1], rules[i]) ELSE f[i - 1]]
           scan == CHOOSE f : Eq(f)
<1>1. n \in Nat /\ text \in D /\ \A i \in 1 .. n : rules[i] \in MutationRules OBVIOUS
<1>2. Sanitize(text, rules) = scan[n] BY DEF Sanitize
<1>3. \A p \in D, i \in 1 .. n : One(p, i) \in D BY <1>1, ApplyRuleDoes DEF Applied
<1> HIDE DEF D, One, n
<1>4. step \in [D \X (1 .. n) -> D] /\ \A p \in D, i \in 1 .. n : step[<<p, i>>] = One(p, i)
  BY <1>3
<1>a. step \in [D \X (1 .. n) -> D] BY <1>4
<1> HIDE DEF step
<1>b. PICK f : Iterated(f, D, text, n, step) BY <1>1, <1>a, Iterates
<1>5. f \in [0 .. n -> D] /\ f[0] = text /\ \A i \in 1 .. n : f[i] = step[<<f[i - 1], i>>]
  BY <1>b DEF Iterated
<1>6. ASSUME NEW i \in 1 .. n PROVE f[i] = One(f[i - 1], i)
  <2>1. i - 1 \in 0 .. n BY <1>1
  <2> QED BY <1>4, <1>5, <2>1
<1>7. Eq(f)
  <2>1. f[0] = text /\ f = [i \in 0 .. n |-> f[i]] BY <1>5
  <2>2. \A i \in 0 .. n : i = 0 \/ i \in 1 .. n BY <1>1
  <2>3. \A i \in 0 .. n : f[i] = IF i = 0 THEN text
          ELSE IF rules[i].applies THEN ApplyRule(f[i - 1], rules[i]) ELSE f[i - 1]
    BY <2>1, <2>2, <1>6 DEF One
  <2> QED BY <2>1, <2>3
<1>8. Eq(scan) BY <1>7
<1> HIDE DEF scan
<1>9. scan[0] = text /\ \A i \in 1 .. n : scan[i] = One(scan[i - 1], i)
  <2>1. 0 \in 0 .. n /\ \A i \in 1 .. n : i \in 0 .. n /\ i # 0 BY <1>1
  <2> QED BY <1>8, <2>1 DEF One
<1>10. scan = [i \in 0 .. n |-> scan[i]] BY <1>8
<1> HIDE DEF Eq
<1>11. scan \in [0 .. n -> D]
  <2> DEFINE T == {i \in 0 .. n : scan[i] \in D}
  <2>1. 0 \in T BY <1>1, <1>9
  <2>2. \A i \in 1 .. n : i - 1 \in T => i \in T BY <1>3, <1>9
  <2> HIDE DEF T
  <2>3. 0 .. n \subseteq T BY <1>1, <2>1, <2>2, UpTo
  <2>4. \A i \in 0 .. n : scan[i] \in D BY <2>3 DEF T
  <2> QED BY <1>10, <2>4
<1>12. Cleans(scan, text, rules) BY <1>2, <1>9, <1>11 DEF Cleans, D, n, One
<1> QED BY <1>12

\* A statement about every number up to n that is passed on from each to the next.
LEMMA From ==
  ASSUME NEW n \in Nat, NEW m \in 0 .. n, NEW T, m \in T,
         \A k \in m + 1 .. n : k - 1 \in T => k \in T
  PROVE  \A k \in m .. n : k \in T
<1> DEFINE U == {k \in 0 .. n : k >= m => k \in T}
<1>1. 0 \in U
  <2>1. CASE m = 0 BY <2>1
  <2>2. CASE m # 0 BY <2>2
  <2> QED BY <2>1, <2>2
<1>2. ASSUME NEW k \in 1 .. n, k - 1 \in U PROVE k \in U
  <2>1. CASE k = m BY <2>1
  <2>2. CASE k > m
    <3>1. k \in m + 1 .. n /\ k - 1 >= m BY <2>2
    <3> QED BY <1>2, <3>1
  <2>3. CASE k < m BY <2>3
  <2> QED BY <2>1, <2>2, <2>3
<1> HIDE DEF U
<1>3. 0 .. n \subseteq U BY <1>1, <1>2, UpTo
<1> QED BY <1>3 DEF U

\* Any number of sanitizer rules on a text of any length: what a rule strips is gone unless a
\* later one injected it, what it injects is there unless stripped, the rest is untouched.
THEOREM SanitizeDoes ==
  ASSUME NEW text \in Seq(Words), NEW rules \in Seq(MutationRules)
  PROVE  LET final == Sanitize(text, rules)
             live == {i \in DOMAIN rules : rules[i].applies}
         IN  /\ Without(final, Flags) = Without(text, Flags)
             /\ \A i \in live : \A flag \in rules[i].strip :
                  HasAny(final, {flag}) => \E j \in live : j > i /\ rules[j].inject = flag
             /\ \A i \in live :
                  /\ HasAny(text, rules[i].triggers) /\ rules[i].inject # None
                  /\ ~\E j \in live : j >= i /\ rules[i].inject \in rules[j].strip
                  => HasAny(final, {rules[i].inject})
<1> DEFINE n == Len(rules)
           live == {i \in DOMAIN rules : rules[i].applies}
           final == Sanitize(text, rules)
<1>1. n \in Nat /\ DOMAIN rules = 1 .. n /\ \A i \in 1 .. n : rules[i] \in MutationRules OBVIOUS
<1>2. PICK done \in [0 .. n -> Seq(Words)] :
        /\ done[0] = text /\ final = done[n]
        /\ \A i \in 1 .. n :
             done[i] = IF rules[i].applies THEN ApplyRule(done[i - 1], rules[i]) ELSE done[i - 1]
  <2>1. PICK done : Cleans(done, text, rules) BY SanitizeScan
  <2> QED BY <2>1 DEF Cleans
<1>3. live = {i \in 1 .. n : rules[i].applies} BY <1>1
<1> HIDE DEF live, final, n
<1>4. ASSUME NEW i \in 1 .. n
      PROVE  i - 1 \in 0 .. n /\ done[i - 1] \in Seq(Words)
  BY <1>1
<1>5. ASSUME NEW i \in live
      PROVE  /\ i \in 1 .. n /\ i - 1 \in 0 .. n /\ i \in 0 .. n
             /\ Applied(done[i - 1], done[i], rules[i])
  <2>1. i \in 1 .. n /\ rules[i].applies BY <1>3
  <2>2. done[i] = ApplyRule(done[i - 1], rules[i]) BY <1>2, <2>1
  <2>3. rules[i] \in MutationRules /\ done[i - 1] \in Seq(Words) BY <1>1, <1>4, <2>1
  <2>4. Applied(done[i - 1], done[i], rules[i]) BY <2>2, <2>3, ApplyRuleDoes
  <2> QED BY <1>1, <2>1, <2>4
<1>6. ASSUME NEW i \in 1 .. n, i \notin live PROVE done[i] = done[i - 1]
  BY <1>2, <1>3, <1>6
<1>7. Without(final, Flags) = Without(text, Flags)
  <2> DEFINE T == {k \in 0 .. n : Without(done[k], Flags) = Without(text, Flags)}
  <2>1. 0 \in T BY <1>1, <1>2
  <2>2. ASSUME NEW k \in 1 .. n, k - 1 \in T PROVE k \in T
    <3>1. CASE k \in live BY <1>5, <2>2, <3>1 DEF Applied
    <3>2. CASE k \notin live BY <1>6, <2>2, <3>2
    <3> QED BY <3>1, <3>2
  <2> HIDE DEF T
  <2>3. 0 .. n \subseteq T BY <1>1, <2>1, <2>2, UpTo
  <2>4. n \in T BY <1>1, <2>3
  <2> QED BY <1>2, <2>4 DEF T
<1>8. ASSUME NEW i \in live, NEW flag \in rules[i].strip, HasAny(final, {flag})
      PROVE  \E j \in live : j > i /\ rules[j].inject = flag
  <2> DEFINE T == {k \in i .. n : HasAny(done[k], {flag})
                                    => \E j \in live : j > i /\ rules[j].inject = flag}
  <2>1. i \in 1 .. n /\ i \in 0 .. n BY <1>5, <1>1
  <2>2. i \in T
    <3>1. ~HasAny(done[i], {flag}) BY <1>5 DEF Applied
    <3> QED BY <1>1, <2>1, <3>1
  <2>3. ASSUME NEW k \in i + 1 .. n, k - 1 \in T PROVE k \in T
    <3>1. k \in 1 .. n /\ k \in i .. n /\ k > i BY <1>1, <2>1
    <3>2. HasAny(done[k - 1], {flag}) => \E j \in live : j > i /\ rules[j].inject = flag BY <2>3
    <3>3. CASE k \in live
      <4>1. HasAny(done[k], {flag}) => HasAny(done[k - 1], {flag}) \/ rules[k].inject = flag
        BY <1>5, <3>3 DEF Applied
      <4> QED BY <3>1, <3>2, <3>3, <4>1
    <3>4. CASE k \notin live
      <4>1. done[k] = done[k - 1] BY <1>6, <3>1, <3>4
      <4> QED BY <3>1, <3>2, <4>1
    <3> QED BY <3>3, <3>4
  <2> HIDE DEF T
  <2>4. \A k \in i .. n : k \in T BY <1>1, <2>1, <2>2, <2>3, From
  <2>5. n \in T BY <1>1, <2>1, <2>4
  <2> QED BY <1>2, <1>8, <2>5 DEF T
<1>9. ASSUME NEW i \in live, HasAny(text, rules[i].triggers), rules[i].inject # None,
             ~\E j \in live : j >= i /\ rules[i].inject \in rules[j].strip
      PROVE  HasAny(final, {rules[i].inject})
  <2> DEFINE flag == rules[i].inject
             T == {k \in i .. n : HasAny(done[k], {flag})}
             R == {k \in 0 .. n : HasAny(done[k], {"rm"})}
  <2>1. i \in 1 .. n /\ i \in 0 .. n /\ i - 1 \in 0 .. n BY <1>5, <1>1
  <2>2. rules[i].triggers = {"rm"}
    <3>1. rules[i].triggers \in {{}, {"rm"}} BY <1>1, <2>1, RuleIs
    <3>2. ~HasAny(text, {}) BY DEF HasAny
    <3> QED BY <1>9, <3>1, <3>2
  <2>3. 0 \in R BY <1>1, <1>2, <1>9, <2>2
  <2>4. ASSUME NEW k \in 1 .. n, k - 1 \in R PROVE k \in R
    <3>1. CASE k \in live
      <4>1. "rm" \notin rules[k].strip BY <1>1, RuleIs DEF Flags
      <4>2. HasAny(done[k - 1], {"rm"}) BY <2>4
      <4>3. HasAny(done[k], {"rm"}) BY <1>5, <3>1, <4>1, <4>2 DEF Applied
      <4> QED BY <1>1, <4>3
    <3>2. CASE k \notin live BY <1>1, <1>6, <2>4, <3>2
    <3> QED BY <3>1, <3>2
  <2> HIDE DEF R
  <2>5. 0 .. n \subseteq R BY <1>1, <2>3, <2>4, UpTo
  <2>6. HasAny(done[i - 1], rules[i].triggers) BY <2>1, <2>2, <2>5 DEF R
  <2>7. flag \notin rules[i].strip BY <1>1, <1>9, <2>1
  <2>8. HasAny(done[i], {flag}) BY <1>5, <1>9, <2>6, <2>7 DEF Applied
  <2>9. i \in T BY <1>1, <2>1, <2>8
  <2>10. ASSUME NEW k \in i + 1 .. n, k - 1 \in T PROVE k \in T
    <3>1. k \in 1 .. n /\ k \in i .. n /\ k >= i BY <1>1, <2>1
    <3>2. HasAny(done[k - 1], {flag}) BY <2>10
    <3>3. CASE k \in live
      <4>1. flag \notin rules[k].strip BY <1>9, <3>1, <3>3
      <4>2. HasAny(done[k], {flag}) BY <1>5, <3>2, <3>3, <4>1 DEF Applied
      <4> QED BY <3>1, <4>2
    <3>4. CASE k \notin live
      <4>1. done[k] = done[k - 1] BY <1>6, <3>1, <3>4
      <4> QED BY <3>1, <3>2, <4>1
    <3> QED BY <3>3, <3>4
  <2> HIDE DEF T, flag
  <2>11. \A k \in i .. n : k \in T BY <1>1, <2>1, <2>9, <2>10, From
  <2>12. n \in T BY <1>1, <2>1, <2>11
  <2>13. HasAny(done[n], {flag}) BY <2>12 DEF T
  <2> QED BY <1>2, <2>13 DEF flag
<1> QED BY <1>7, <1>8, <1>9 DEF live, final

LEMMA CallInputHolds == CallInput => CallsPass
<1> SUFFICES ASSUME CallInput PROVE CallsPass OBVIOUS
<1>1. PICK text \in SeqOf(Words, 2), first \in TriedRules, second \in TriedRules,
           key \in {"command", "query"}, user \in BOOLEAN :
        \E refusedPath \in {FALSE, user} :
          input = [of |-> "call",
                   call |-> [text |-> text, key |-> key, refusedPath |-> refusedPath, user |-> user],
                   rules |-> <<first, second>>]
  BY DEF CallInput
<1>2. input.call.text = text /\ input.rules = <<first, second>> BY <1>1
<1>3. text \in Seq(Words) BY SeqOfIsSeq
<1> DEFINE rules == <<first, second>>
<1>4. rules \in Seq(MutationRules) BY DEF TriedRules
<1> HIDE DEF rules
<1>5. input.rules = rules BY <1>2 DEF rules
<1>6. ASSUME LeastPrivilege(input.call) = text PROVE Mutate(input.call, input.rules) = Sanitize(text, rules)
  BY <1>2, <1>5, <1>6 DEF Mutate
<1> DEFINE live == {i \in DOMAIN rules : rules[i].applies}
           final == Sanitize(text, rules)
<1>7. /\ Without(final, Flags) = Without(text, Flags)
      /\ \A i \in live : \A flag \in rules[i].strip :
           HasAny(final, {flag}) => \E j \in live : j > i /\ rules[j].inject = flag
      /\ \A i \in live :
           /\ HasAny(text, rules[i].triggers) /\ rules[i].inject # None
           /\ ~\E j \in live : j >= i /\ rules[i].inject \in rules[j].strip
           => HasAny(final, {rules[i].inject})
  BY <1>3, <1>4, SanitizeDoes
<1> HIDE DEF final
<1>8. LeastPrivilege(input.call) = text => Mutate(input.call, input.rules) = final BY <1>6 DEF final
<1>9. ASSUME LeastPrivilege(input.call) = text
      PROVE  /\ \A i \in {i \in DOMAIN rules : rules[i].applies} : \A flag \in rules[i].strip :
                  HasAny(Mutate(input.call, input.rules), {flag})
                    => \E j \in {j \in DOMAIN rules : rules[j].applies} : j > i /\ rules[j].inject = flag
             /\ \A i \in {i \in DOMAIN rules : rules[i].applies} :
                  /\ HasAny(text, rules[i].triggers) /\ rules[i].inject # None
                  /\ ~\E j \in {j \in DOMAIN rules : rules[j].applies} :
                        j >= i /\ rules[i].inject \in rules[j].strip
                  => HasAny(Mutate(input.call, input.rules), {rules[i].inject})
             /\ Without(Mutate(input.call, input.rules), Flags) = Without(text, Flags)
  BY <1>7, <1>8, <1>9
<1> QED BY ONLY <1>2, <1>5, <1>9 DEF CallsPass, Flags

-----------------------------------------------------------------------------
(* The rules *)

\* A delegation ValidateScope accepts, of roles that have lists, gives no call the parent may
\* not make: for any roles and any signature.
THEOREM ScopeIsInherited ==
  ASSUME NEW roles, NEW child, NEW parent, parent \in DOMAIN roles,
         \A r \in DOMAIN roles : roles[r].allowed # {},
         child \in DOMAIN roles => roles[parent].denied \subseteq roles[child].denied,
         ValidateScope(roles, child, parent), NEW sig, MayCall(roles, child, sig)
  PROVE  MayCall(roles, parent, sig)
<1>1. child \in DOMAIN roles /\ MatchesAny(sig, roles[child].allowed)
      /\ ~MatchesAny(sig, roles[child].denied)
  BY DEF MayCall
<1>2. roles[child].allowed \subseteq roles[parent].allowed BY <1>1 DEF ValidateScope, ToolsForRole
<1>3. MatchesAny(sig, roles[parent].allowed) BY <1>1, <1>2 DEF MatchesAny
<1>4. ~MatchesAny(sig, roles[parent].denied) BY <1>1 DEF MatchesAny
<1> QED BY <1>3, <1>4 DEF MayCall

LEMMA ScopeInputHolds == ScopeInput => DelegationGivesNothing
<1> SUFFICES ASSUME ScopeInput PROVE DelegationGivesNothing OBVIOUS
<1>1. "parent" \in DOMAIN input.roles BY DEF ScopeInput
<1> SUFFICES ASSUME \A r \in DOMAIN input.roles : input.roles[r].allowed # {},
                    "child" \in DOMAIN input.roles =>
                      input.roles["parent"].denied \subseteq input.roles["child"].denied,
                    ValidateScope(input.roles, "child", "parent"),
                    NEW sig, MayCall(input.roles, "child", sig)
             PROVE  MayCall(input.roles, "parent", sig)
  BY DEF DelegationGivesNothing
<1> QED BY <1>1, ScopeIsInherited

\* Prefixes, letter by letter.
LEMMA PrefixIs ==
  ASSUME NEW S, NEW s \in Seq(S), NEW t \in Seq(S)
  PROVE  E!IsPrefix(s, t) <=> Len(s) <= Len(t) /\ \A i \in 1 .. Len(s) : s[i] = t[i]
<1>1. Len(s) \in Nat /\ Len(t) \in Nat OBVIOUS
<1>2. SubSeq(s, 1, Len(s)) = s OBVIOUS
<1>3. ASSUME Len(s) <= Len(t)
      PROVE  /\ SubSeq(t, 1, Len(s)) \in Seq(S) /\ Len(SubSeq(t, 1, Len(s))) = Len(s)
             /\ \A i \in 1 .. Len(s) : SubSeq(t, 1, Len(s))[i] = t[i]
  BY <1>1, <1>3
<1>4. ASSUME Len(s) <= Len(t), \A i \in 1 .. Len(s) : s[i] = t[i]
      PROVE  s = SubSeq(t, 1, Len(s))
  BY <1>1, <1>3, <1>4
<1> QED BY <1>2, <1>3, <1>4 DEF E!IsPrefix

AnEntry == [wild : BOOLEAN, name : Seq(Labels)]

LEMMA BelowIs ==
  ASSUME NEW host \in Seq(Labels), NEW name \in Seq(Labels)
  PROVE  E!Below(host, name) <=> Len(name) < Len(host) /\ \A i \in 1 .. Len(name) : name[i] = host[i]
<1>1. Len(host) \in Nat /\ Len(name) \in Nat OBVIOUS
<1>2. ASSUME Len(name) = Len(host), \A i \in 1 .. Len(name) : name[i] = host[i] PROVE name = host
  BY <1>2
<1>3. E!IsPrefix(name, host) <=> Len(name) <= Len(host) /\ \A i \in 1 .. Len(name) : name[i] = host[i]
  BY PrefixIs
<1>4. E!Below(host, name) <=> E!IsPrefix(name, host) /\ name # host
  BY DEF E!Below, E!IsStrictPrefix
<1> QED BY <1>1, <1>2, <1>3, <1>4

\* What a rendered rule lets through, the validator finds in the entry it was rendered of.
LEMMA RenderedIsNamed ==
  ASSUME NEW host \in Seq(Labels), NEW a \in AnEntry, NEW rule \in E!FqdnRules(a),
         E!Names(rule, host)
  PROVE  E!MatchesHostPattern(host, a)
<1>1. Len(host) \in Nat /\ Len(a.name) \in Nat /\ a.name \in Seq(Labels) BY DEF AnEntry
<1>2. \/ ~a.wild /\ host = a.name
      \/ Len(a.name) < Len(host) /\ \A i \in 1 .. Len(a.name) : a.name[i] = host[i]
  BY <1>1, BelowIs DEF E!FqdnRules, E!Names, E!Wild
<1>3. Len(a.name) <= Len(host) /\ \A i \in 1 .. Len(a.name) : a.name[i] = host[i] BY <1>1, <1>2
<1>4. SubSeq(host, 0 + 1, 0 + Len(a.name)) = a.name BY <1>1, <1>3
<1>5. 0 \in 0 .. Len(host) - Len(a.name) - (IF a.wild THEN 1 ELSE 0) BY <1>1, <1>2
<1> QED BY <1>4, <1>5 DEF E!MatchesHostPattern

\* Nothing an entry without conflicts is rendered to stands for what a blocked entry stands for.
LEMMA NoConflictNoName ==
  ASSUME NEW host \in Seq(Labels), NEW a \in AnEntry, NEW b \in AnEntry, ~E!Conflict(a, b),
         NEW rule \in E!FqdnRules(a), E!Names(rule, host)
  PROVE  ~E!Names(b, host)
<1> SUFFICES ASSUME E!Names(b, host) PROVE E!Conflict(a, b) OBVIOUS
<1>1. /\ Len(host) \in Nat /\ Len(a.name) \in Nat /\ Len(b.name) \in Nat
      /\ a.name \in Seq(Labels) /\ b.name \in Seq(Labels)
      /\ a = [wild |-> a.wild, name |-> a.name] /\ b = [wild |-> b.wild, name |-> b.name]
      /\ a.wild \in BOOLEAN /\ b.wild \in BOOLEAN
  BY DEF AnEntry
<1> DEFINE under(name) == Len(name) < Len(host) /\ \A i \in 1 .. Len(name) : name[i] = host[i]
<1>2. E!Below(host, a.name) <=> under(a.name) BY <1>1, BelowIs
<1>3. E!Below(host, b.name) <=> under(b.name) BY <1>1, BelowIs
<1>4. a \in E!Forms(a) /\ E!Wild(a.name) \in E!Forms(a) BY DEF E!Forms
<1>5. E!Wild(a.name) = [wild |-> TRUE, name |-> a.name] BY DEF E!Wild
<1>6. CASE ~a.wild /\ host = a.name
  <2>1. CASE ~b.wild
    <3>1. host = b.name BY <2>1 DEF E!Names
    <3>2. a = b BY <1>1, <1>6, <2>1, <3>1
    <3> QED BY <1>4, <3>2 DEF E!Conflict
  <2>2. CASE b.wild
    <3>1. under(b.name) BY <1>3, <2>2 DEF E!Names
    <3>2. E!IsPrefix(b.name, a.name) BY <1>1, <1>6, <3>1, PrefixIs
    <3>3. E!WildcardCovers(b, a) BY <2>2, <3>2 DEF E!WildcardCovers
    <3> QED BY <1>4, <3>3 DEF E!Conflict
  <2> QED BY <1>1, <2>1, <2>2
<1>7. CASE under(a.name)
  <2>1. CASE ~b.wild
    <3>1. host = b.name BY <2>1 DEF E!Names
    <3>2. E!IsPrefix(a.name, b.name) BY <1>1, <1>7, <3>1, PrefixIs
    <3>3. E!WildcardCovers(E!Wild(a.name), b) BY <1>5, <3>2 DEF E!WildcardCovers
    <3> QED BY <1>4, <3>3 DEF E!Conflict
  <2>2. CASE b.wild
    <3>1. under(b.name) BY <1>3, <2>2 DEF E!Names
    <3>2. CASE Len(a.name) <= Len(b.name)
      <4>1. E!IsPrefix(a.name, b.name) BY <1>1, <1>7, <3>1, <3>2, PrefixIs
      <4>2. E!WildcardCovers(E!Wild(a.name), b) BY <1>5, <4>1 DEF E!WildcardCovers
      <4> QED BY <1>4, <4>2 DEF E!Conflict
    <3>3. CASE Len(b.name) <= Len(a.name)
      <4>1. E!IsPrefix(b.name, a.name) BY <1>1, <1>7, <3>1, <3>3, PrefixIs
      <4>2. E!WildcardCovers(b, a) BY <2>2, <4>1 DEF E!WildcardCovers
      <4> QED BY <1>4, <4>2 DEF E!Conflict
    <3> QED BY <1>1, <3>2, <3>3
  <2> QED BY <1>1, <2>1, <2>2
<1>8. (~a.wild /\ host = a.name) \/ under(a.name)
  BY <1>2 DEF E!FqdnRules, E!Names, E!Wild
<1> QED BY <1>6, <1>7, <1>8

\* What the rendered policy lets through is named by the allow list for the validator and by no
\* blocked entry, for allow and block lists of any length.
THEOREM ListsHold ==
  ASSUME NEW lists, lists.allowed \subseteq AnEntry, lists.blocked \subseteq AnEntry,
         lists.blockUnknown, NEW host \in Seq(Labels), E!Admitted(E!Rules(lists), host)
  PROVE  /\ \E a \in lists.allowed : E!MatchesHostPattern(host, a)
         /\ \A b \in lists.blocked : ~E!Names(b, host)
<1>1. PICK rule \in E!Rules(lists) : E!Names(rule, host) BY DEF E!Admitted
<1>2. PICK a \in E!ExcludeBlockedConflicts(lists) : rule \in E!FqdnRules(a) BY DEF E!Rules
<1>3. a \in lists.allowed /\ a \in AnEntry /\ \A b \in lists.blocked : ~E!Conflict(a, b)
  BY <1>2 DEF E!ExcludeBlockedConflicts
<1>4. E!MatchesHostPattern(host, a) BY <1>1, <1>2, <1>3, RenderedIsNamed
<1>5. \A b \in lists.blocked : ~E!Names(b, host) BY <1>1, <1>2, <1>3, NoConflictNoName
<1> QED BY <1>3, <1>4, <1>5

LEMMA EgressInputHolds == EgressInput => NetworkKeepsToTheLists
<1> SUFFICES ASSUME EgressInput PROVE NetworkKeepsToTheLists OBVIOUS
<1>1. Hosts \subseteq Seq(Labels) BY RulesBounds, SeqOfIsSeq DEF Hosts
<1>2. Entries \subseteq AnEntry BY <1>1 DEF Entries, AnEntry
<1>3. PICK allowed \in AllowedLists, blocked \in BlockedLists :
        input = [of |-> "egress",
                 lists |-> [allowed |-> allowed, blocked |-> blocked, blockUnknown |-> TRUE]]
  BY DEF EgressInput
<1>4. allowed \subseteq AnEntry /\ blocked \subseteq AnEntry
  BY <1>2 DEF AllowedLists, BlockedLists
<1>5. /\ input.lists.allowed = allowed /\ input.lists.blocked = blocked /\ input.lists.blockUnknown
  BY <1>3
<1>6. \A host \in Hosts : E!Admitted(E!Rules(input.lists), host) =>
        /\ \E a \in input.lists.allowed : E!MatchesHostPattern(host, a)
        /\ \A b \in input.lists.blocked : ~E!Names(b, host)
  BY <1>1, <1>4, <1>5, ListsHold
<1> QED BY <1>6 DEF NetworkKeepsToTheLists

\* Each kind of input is one property's.
LEMMA InputIsOne ==
  /\ GlobInput => input.of = "glob"
  /\ ChainInput => input.of = "chain"
  /\ ScopeInput => input.of = "scope"
  /\ EgressInput => input.of = "egress"
  /\ OutputInput => input.of = "output"
  /\ CallInput => input.of = "call"
<1>1. GlobInput => input.of = "glob" BY DEF GlobInput
<1>2. ChainInput => input.of = "chain" BY DEF ChainInput
<1>3. ScopeInput => input.of = "scope" BY DEF ScopeInput
<1>4. EgressInput => input.of = "egress" BY DEF EgressInput
<1>5. OutputInput => input.of = "output" BY DEF OutputInput
<1>6. CallInput => input.of = "call" BY DEF CallInput
<1> QED BY <1>1, <1>2, <1>3, <1>4, <1>5, <1>6

LEMMA RulesHold ==
  ASSUME RulesInit \/ input = [of |-> "nothing"]
  PROVE  ScansMissNothing /\ DelegationGivesNothing /\ NetworkKeepsToTheLists /\ SanitizedPasses
<1>1. \/ GlobInput \/ ChainInput \/ ScopeInput \/ EgressInput \/ OutputInput \/ CallInput
      \/ input.of = "nothing"
  BY DEF RulesInit
<1>2. ScansMissNothing
  <2>1. input.of \notin {"glob", "chain"} => ScansMissNothing BY DEF ScansMissNothing
  <2> QED BY <1>1, <2>1, InputIsOne, GlobInputHolds, ChainInputHolds
<1>3. DelegationGivesNothing
  <2>1. input.of # "scope" => DelegationGivesNothing BY DEF DelegationGivesNothing
  <2> QED BY <1>1, <2>1, InputIsOne, ScopeInputHolds
<1>4. NetworkKeepsToTheLists
  <2>1. input.of # "egress" => NetworkKeepsToTheLists BY DEF NetworkKeepsToTheLists
  <2> QED BY <1>1, <2>1, InputIsOne, EgressInputHolds
<1>5. SanitizedPasses
  <2>1. input.of # "output" => OutputsPass BY DEF OutputsPass
  <2>2. input.of # "call" => CallsPass BY DEF CallsPass
  <2> QED BY <1>1, <2>1, <2>2, InputIsOne, OutputInputHolds, CallInputHolds DEF SanitizedPasses
<1> QED BY <1>2, <1>3, <1>4, <1>5

-----------------------------------------------------------------------------
(* The MCP proxy *)

Kinds    == {"tool", "other", "notice"}
Asked    == [of : Messages, kind : Kinds, params : {"asked", "mutated"}]
AReply   == [of : 0 .. MaxMessages, body : Bodies]
ProxyStages   == {"read", "judge", "forward", "await", "scan", "write", "closed"}
AProxy   == [at : ProxyStages, read : 0 .. MaxMessages, params : {"asked", "mutated"}, reply : AReply]

\* How many messages the client has an answer to.
Replied(p) == IF p.at \in {"read", "closed"} THEN p.read ELSE p.read - 1

ProxyTypes ==
  /\ link \in [messages : Seq(Kinds), upstream : {"subprocess", "http"}, dispatcher : BOOLEAN]
  /\ Len(link.messages) \in Messages
  /\ proxy \in AProxy /\ proxy.read <= Len(link.messages)
  /\ proxy.at \notin {"read", "closed"} => proxy.read \in Messages
  /\ verdict \in [Messages -> Verdicts \cup {"none"}]
  /\ toServer \in Seq(Asked) /\ fromServer \in Seq(AReply)
  /\ server \in [up : BOOLEAN, spoken : 0 .. MaxSpoken]
  /\ ran \in Seq(Asked)
  /\ answers \in Seq(AReply) /\ Len(answers) = Replied(proxy)

-----------------------------------------------------------------------------
(* Queues *)

LEMMA Longer ==
  ASSUME NEW S, NEW q \in Seq(S), NEW e \in S
  PROVE  /\ Append(q, e) \in Seq(S) /\ Len(Append(q, e)) = Len(q) + 1
         /\ Append(q, e) # <<>>
         /\ DOMAIN Append(q, e) = 1 .. Len(q) + 1 /\ DOMAIN q = 1 .. Len(q) /\ Len(q) \in Nat
         /\ \A i \in DOMAIN q : Append(q, e)[i] = q[i]
         /\ Append(q, e)[Len(q) + 1] = e
OBVIOUS

LEMMA Shorter ==
  ASSUME NEW S, NEW q \in Seq(S), q # <<>>
  PROVE  /\ Tail(q) \in Seq(S) /\ Head(q) = q[1] /\ 1 \in DOMAIN q /\ Len(q) \in Nat \ {0}
         /\ Len(Tail(q)) = Len(q) - 1
         /\ DOMAIN Tail(q) = 1 .. Len(q) - 1 /\ DOMAIN q = 1 .. Len(q)
         /\ \A i \in DOMAIN Tail(q) : i + 1 \in DOMAIN q /\ Tail(q)[i] = q[i + 1]
OBVIOUS

LEMMA Empty == ASSUME NEW S PROVE <<>> \in Seq(S) /\ DOMAIN <<>> = {} /\ Len(<<>>) = 0
OBVIOUS

LEMMA NothingIn == ASSUME NEW S, NEW q \in Seq(S) PROVE Len(q) \in Nat /\ (Len(q) = 0 => q = <<>>)
OBVIOUS

-----------------------------------------------------------------------------
(* Types *)

LEMMA ProxyStepDoes ==
  ASSUME NEW from, NEW to, ProxyStep(from, to)
  PROVE  proxy.at = from /\ proxy' = to /\ UNCHANGED <<link, server, ran>>
BY DEF ProxyStep

LEMMA FailedIs ==
  ASSUME ProxyTypes, proxy.read \in Messages
  PROVE  /\ Failed \in AProxy /\ Failed.at = "write" /\ Failed.read = proxy.read
         /\ Failed.params = proxy.params
         /\ Failed.reply = [of |-> proxy.read, body |-> "error"]
BY ProxyBounds DEF Failed, Answered, Reply, ProxyTypes, AProxy, AReply, Bodies, Messages, ProxyStages

LEMMA CorrelatedIs ==
  ASSUME ProxyTypes, NEW reply \in AReply
  PROVE  /\ Correlated(reply) \in AProxy /\ Correlated(reply).read = proxy.read
         /\ Correlated(reply).at = (IF Kind = "tool" THEN "scan" ELSE "write")
         /\ Correlated(reply).reply = reply /\ Correlated(reply).params = proxy.params
BY DEF Correlated, ProxyTypes, AProxy, ProxyStages

LEMMA ReplyIs ==
  ASSUME NEW of \in 0 .. MaxMessages, NEW body \in Bodies
  PROVE  Reply(of, body) \in AReply /\ Reply(of, body).of = of /\ Reply(of, body).body = body
BY DEF Reply, AReply

\* What each action of Run does with the message in work.
LEMMA ReadDoes ==
  ASSUME ProxyTypes, ReadRequest
  PROVE  /\ proxy.at = "read" /\ proxy.read < Len(link.messages)
         /\ proxy' \in AProxy /\ proxy'.read = proxy.read + 1 /\ proxy'.read \in Messages
         /\ proxy'.params = "asked" /\ proxy'.reply = proxy.reply
         /\ proxy'.at = (IF link.messages[proxy'.read] = "tool" THEN "judge" ELSE "forward")
         /\ UNCHANGED <<link, server, ran, verdict, toServer, fromServer, answers>>
<1> DEFINE stage == IF link.messages[proxy.read + 1] = "tool" THEN "judge" ELSE "forward"
           read == proxy.read + 1
           next == [proxy EXCEPT !.read = read, !.params = "asked", !.at = stage]
<1>1. proxy.at = "read" /\ proxy.read < Len(link.messages) /\ proxy' = next
  BY ProxyStepDoes DEF ReadRequest
<1>2. UNCHANGED <<link, server, ran, verdict, toServer, fromServer, answers>>
  BY ProxyStepDoes DEF ReadRequest
<1>3. proxy.read \in 0 .. MaxMessages /\ proxy \in AProxy BY DEF ProxyTypes, AProxy
<1>4. read \in Messages /\ read \in 0 .. MaxMessages
  BY <1>1, <1>3, ProxyBounds DEF ProxyTypes, Messages
<1>5. stage \in ProxyStages BY DEF ProxyStages
<1> HIDE DEF stage, read
<1>6. /\ next \in AProxy /\ next.read = read /\ next.params = "asked"
      /\ next.reply = proxy.reply /\ next.at = stage
  BY <1>3, <1>4, <1>5 DEF AProxy
<1> HIDE DEF next
<1> QED BY <1>1, <1>2, <1>4, <1>6 DEF stage, read

LEMMA InterceptDoes ==
  ASSUME ProxyTypes, NEW v \in Verdicts,
         ProxyStep("judge",
           IF v \in Refusing THEN Failed
           ELSE [proxy EXCEPT !.at = "forward",
                              !.params = IF v = "MUTATE" THEN "mutated" ELSE @])
  PROVE  /\ proxy.at = "judge" /\ proxy' \in AProxy /\ proxy'.read = proxy.read
         /\ v \in Refusing => /\ proxy'.at = "write"
                              /\ proxy'.reply = [of |-> proxy.read, body |-> "error"]
         /\ v \notin Refusing =>
              /\ proxy'.at = "forward"
              /\ proxy'.params = IF v = "MUTATE" THEN "mutated" ELSE proxy.params
         /\ UNCHANGED <<link, server, ran>>
<1> DEFINE changed == IF v = "MUTATE" THEN "mutated" ELSE proxy.params
           next == [proxy EXCEPT !.at = "forward", !.params = changed]
<1>1. /\ proxy.at = "judge" /\ UNCHANGED <<link, server, ran>>
      /\ proxy' = IF v \in Refusing THEN Failed ELSE next
  BY ProxyStepDoes
<1>2. proxy \in AProxy /\ proxy.read \in Messages BY <1>1 DEF ProxyTypes
<1>3. changed \in {"asked", "mutated"} BY <1>2 DEF AProxy
<1> HIDE DEF changed
<1>4. next \in AProxy /\ next.read = proxy.read /\ next.at = "forward" /\ next.params = changed
  BY <1>2, <1>3 DEF AProxy, ProxyStages
<1> HIDE DEF next
<1> QED BY <1>1, <1>2, <1>4, FailedIs DEF changed

LEMMA ScanDoes ==
  ASSUME ProxyTypes, ScanOutput
  PROVE  /\ proxy.at = "scan" /\ proxy' \in AProxy /\ proxy'.at = "write"
         /\ proxy'.read = proxy.read /\ proxy'.reply.of = proxy.reply.of
         /\ proxy'.reply.body # "dirty"
         /\ UNCHANGED <<link, server, ran, verdict, toServer, fromServer, answers>>
<1>1. PICK body \in IF proxy.reply.body = "dirty" THEN {"error", "clean"} ELSE {proxy.reply.body} :
        ProxyStep("scan", Answered([proxy.reply EXCEPT !.body = body]))
  BY DEF ScanOutput
<1> DEFINE reply == [proxy.reply EXCEPT !.body = body]
           next == [proxy EXCEPT !.at = "write", !.reply = reply]
<1>2. proxy.at = "scan" /\ proxy' = next /\ UNCHANGED <<link, server, ran>>
  BY <1>1, ProxyStepDoes DEF Answered
<1>3. UNCHANGED <<verdict, toServer, fromServer, answers>> BY DEF ScanOutput
<1>4. proxy \in AProxy /\ proxy.reply \in AReply BY DEF ProxyTypes, AProxy
<1>5. body \in Bodies /\ body # "dirty" BY <1>1, <1>4 DEF AReply, Bodies
<1>6. reply \in AReply /\ reply.of = proxy.reply.of /\ reply.body = body
  BY <1>4, <1>5 DEF AReply
<1> HIDE DEF reply
<1>7. next \in AProxy /\ next.at = "write" /\ next.read = proxy.read /\ next.reply = reply
  BY <1>4, <1>6 DEF AProxy, ProxyStages
<1> HIDE DEF next
<1> QED BY <1>2, <1>3, <1>5, <1>6, <1>7

\* A stage and nothing else of it changes.
LEMMA MovesTo ==
  ASSUME ProxyTypes, NEW at \in ProxyStages
  PROVE  /\ [proxy EXCEPT !.at = at] \in AProxy /\ [proxy EXCEPT !.at = at].at = at
         /\ [proxy EXCEPT !.at = at].read = proxy.read
         /\ [proxy EXCEPT !.at = at].params = proxy.params
         /\ [proxy EXCEPT !.at = at].reply = proxy.reply
BY DEF ProxyTypes, AProxy

\* What goes to the server, and what it makes of it.
LEMMA SendDoes ==
  ASSUME ProxyTypes, Send
  PROVE  /\ proxy.at = "forward" /\ proxy' \in AProxy /\ proxy'.read = proxy.read
         /\ server.up =>
              /\ proxy'.at = "await"
              /\ \E e \in Asked : /\ toServer' = Append(toServer, e) /\ e.of = proxy.read
                                  /\ e.kind = Kind /\ e.params = proxy.params
         /\ ~server.up =>
              /\ proxy'.at = "write" /\ proxy'.reply = [of |-> proxy.read, body |-> "error"]
              /\ UNCHANGED toServer
         /\ UNCHANGED <<link, server, ran, verdict, fromServer, answers>>
<1>1. proxy.at = "forward" /\ UNCHANGED <<link, server, ran, verdict, fromServer, answers>>
  BY ProxyStepDoes DEF Send
<1>2. proxy.read \in Messages BY <1>1 DEF ProxyTypes
<1>3. CASE server.up
  <2> DEFINE e == [of |-> proxy.read, kind |-> Kind, params |-> proxy.params]
  <2>1. proxy' = [proxy EXCEPT !.at = "await"] /\ toServer' = Append(toServer, e)
    BY <1>3, ProxyStepDoes DEF Send
  <2>2. Kind \in Kinds BY <1>2, ProxyBounds DEF Kind, ProxyTypes, Messages
  <2>3. e \in Asked /\ e.of = proxy.read /\ e.kind = Kind /\ e.params = proxy.params
    BY <1>2, <2>2 DEF Asked, ProxyTypes, AProxy
  <2> HIDE DEF e
  <2>4. "await" \in ProxyStages BY DEF ProxyStages
  <2> QED BY <1>1, <1>3, <2>1, <2>3, <2>4, MovesTo
<1>4. CASE ~server.up
  BY <1>1, <1>2, <1>4, ProxyStepDoes, FailedIs DEF Send
<1> QED BY <1>3, <1>4

LEMMA ServeDoes ==
  ASSUME ProxyTypes, Serve
  PROVE  /\ server.up /\ toServer # <<>> /\ Head(toServer) \in Asked
         /\ toServer' = Tail(toServer) /\ UNCHANGED <<link, proxy, verdict, server, answers>>
         /\ ran' = IF Head(toServer).kind = "tool" THEN Append(ran, Head(toServer)) ELSE ran
         /\ \/ /\ UNCHANGED fromServer /\ Subprocess /\ Head(toServer).kind = "notice"
            \/ \E reply \in AReply :
                 /\ fromServer' = Append(fromServer, reply) /\ reply.of = Head(toServer).of
                 /\ reply.body = "dirty" => Head(toServer).kind = "tool"
<1> DEFINE asked == Head(toServer)
<1>1. server.up /\ toServer # <<>> /\ toServer' = Tail(toServer) /\ asked \in Asked
  BY DEF Serve, ProxyTypes
<1>2. PICK body \in Outcomes(asked.kind) :
        fromServer' = IF Subprocess /\ body = "empty" THEN fromServer
                      ELSE Append(fromServer, Reply(asked.of, body))
  BY DEF Serve
<1>3. /\ body \in Bodies
      /\ body = "dirty" => asked.kind = "tool"
      /\ body = "empty" => asked.kind = "notice"
  BY <1>1, <1>2 DEF Outcomes, Bodies, Asked, Kinds
<1>4. asked.of \in 0 .. MaxMessages BY <1>1, ProxyBounds DEF Asked, Messages
<1>5. /\ Reply(asked.of, body) \in AReply /\ Reply(asked.of, body).of = asked.of
      /\ Reply(asked.of, body).body = body
  BY <1>3, <1>4, ReplyIs
<1>6. /\ UNCHANGED <<link, proxy, verdict, server, answers>>
      /\ ran' = IF asked.kind = "tool" THEN Append(ran, asked) ELSE ran
  BY DEF Serve
<1>7. CASE Subprocess /\ body = "empty" BY <1>1, <1>2, <1>3, <1>6, <1>7
<1>8. CASE ~(Subprocess /\ body = "empty")
  <2>1. fromServer' = Append(fromServer, Reply(asked.of, body)) BY <1>2, <1>8
  <2> QED BY <1>1, <1>3, <1>5, <1>6, <2>1
<1> QED BY <1>7, <1>8

\* An answer is taken, or there is none.
LEMMA AwaitDoes ==
  ASSUME ProxyTypes, Decode \/ Received
  PROVE  /\ proxy.at = "await" /\ proxy' \in AProxy /\ proxy'.read = proxy.read
         /\ UNCHANGED <<link, server, ran, verdict, toServer, answers>>
         /\ fromServer' \in Seq(AReply)
         /\ \/ /\ proxy'.at = "write" /\ proxy'.reply = [of |-> proxy.read, body |-> "error"]
               /\ Subprocess => fromServer = <<>> /\ ~server.up /\ UNCHANGED fromServer
            \/ \E k \in DOMAIN fromServer :
                 /\ proxy'.reply = fromServer[k]
                 /\ proxy'.at = IF Kind = "tool" THEN "scan" ELSE "write"
                 /\ Subprocess => k = 1 /\ fromServer' = Tail(fromServer)
                 /\ ~Subprocess => fromServer[k].of = proxy.read
         /\ ~Subprocess => fromServer' = <<>>
<1>0. proxy.at = "await" /\ UNCHANGED <<link, server, ran, verdict, toServer, answers>>
  BY ProxyStepDoes DEF Decode, Received
<1>1. proxy.read \in Messages BY <1>0 DEF ProxyTypes
<1>2. fromServer \in Seq(AReply) BY DEF ProxyTypes
<1>3. ASSUME NEW k \in DOMAIN fromServer
      PROVE  fromServer[k] \in AReply
  BY <1>2, <1>3
<1>4. CASE Decode
  <2>1. CASE fromServer # <<>> /\ ProxyStep("await", Correlated(Head(fromServer)))
             /\ fromServer' = Tail(fromServer)
    <3>1. Head(fromServer) = fromServer[1] /\ 1 \in DOMAIN fromServer BY <1>2, <2>1
    <3>2. Tail(fromServer) \in Seq(AReply) BY <1>2, <2>1
    <3>3. proxy' = Correlated(fromServer[1]) BY <2>1, <3>1, ProxyStepDoes
    <3>4. fromServer[1] \in AReply BY <1>3, <3>1
    <3> QED BY <1>0, <1>4, <2>1, <3>1, <3>2, <3>3, <3>4, CorrelatedIs DEF Decode
  <2>2. CASE fromServer = <<>> /\ ~server.up /\ ProxyStep("await", Failed)
             /\ UNCHANGED fromServer
    BY <1>0, <1>1, <1>2, <1>4, <2>2, FailedIs, ProxyStepDoes DEF Decode
  <2> QED BY <1>4, <2>1, <2>2 DEF Decode
<1>5. CASE Received
  <2>0. ~Subprocess /\ fromServer' = <<>> /\ fromServer' \in Seq(AReply)
    BY <1>5 DEF Received
  <2>1. CASE proxy' = Failed BY <1>0, <1>1, <2>0, <2>1, FailedIs
  <2>2. ASSUME NEW k \in DOMAIN fromServer, fromServer[k].of = proxy.read,
               proxy' = Correlated(fromServer[k])
        PROVE  /\ proxy' \in AProxy /\ proxy'.read = proxy.read
               /\ proxy'.reply = fromServer[k]
               /\ proxy'.at = IF Kind = "tool" THEN "scan" ELSE "write"
    BY <1>3, <2>2, CorrelatedIs
  <2>3. \/ proxy' = Failed
        \/ \E k \in DOMAIN fromServer : fromServer[k].of = proxy.read
                                        /\ proxy' = Correlated(fromServer[k])
    BY <1>5, ProxyStepDoes DEF Received
  <2>4. CASE \E k \in DOMAIN fromServer : fromServer[k].of = proxy.read
                                          /\ proxy' = Correlated(fromServer[k])
    BY <1>0, <2>0, <2>2, <2>4
  <2> QED BY <2>1, <2>3, <2>4
<1> QED BY <1>4, <1>5

LEMMA SpeakDoes ==
  ASSUME ProxyTypes, Speak
  PROVE  /\ Subprocess /\ server.up
         /\ server' \in [up : BOOLEAN, spoken : 0 .. MaxSpoken]
         /\ server'.up = server.up /\ server'.spoken > 0
         /\ \E reply \in AReply : fromServer' = Append(fromServer, reply) /\ reply.body = "notice"
         /\ UNCHANGED <<link, proxy, verdict, toServer, ran, answers>>
<1>1. /\ server' = [server EXCEPT !.spoken = @ + 1] /\ server.spoken < MaxSpoken
      /\ Subprocess /\ server.up
      /\ fromServer' = Append(fromServer, Reply(0, "notice"))
      /\ UNCHANGED <<link, proxy, verdict, toServer, ran, answers>>
  BY DEF Speak
<1>2. server \in [up : BOOLEAN, spoken : 0 .. MaxSpoken] BY DEF ProxyTypes
<1>3. server' = [up |-> server.up, spoken |-> server.spoken + 1] BY <1>1, <1>2
<1>4. server.spoken + 1 \in 0 .. MaxSpoken /\ server.spoken + 1 > 0 BY <1>1, <1>2, ProxyBounds
<1>5. Reply(0, "notice") \in AReply /\ Reply(0, "notice").body = "notice"
  BY ReplyIs, ProxyBounds DEF Bodies
<1>6. server.up \in BOOLEAN BY <1>2
<1> QED BY <1>1, <1>3, <1>4, <1>5, <1>6

LEMMA DieDoes ==
  ASSUME ProxyTypes, Die \/ Close
  PROVE  /\ server' \in [up : BOOLEAN, spoken : 0 .. MaxSpoken]
         /\ ~server'.up /\ server'.spoken = server.spoken /\ toServer' = <<>>
         /\ proxy' \in AProxy /\ proxy'.read = proxy.read
         /\ \/ proxy' = proxy
            \/ proxy.at = "read" /\ proxy'.at = "closed"
         /\ UNCHANGED <<link, verdict, fromServer, ran, answers>>
<1>1. /\ server' = [server EXCEPT !.up = FALSE] /\ toServer' = <<>>
      /\ UNCHANGED <<link, verdict, fromServer, ran, answers>>
      /\ \/ proxy' = proxy
         \/ proxy.at = "read" /\ proxy' = [proxy EXCEPT !.at = "closed"]
  BY DEF Die, Close
<1>2. server \in [up : BOOLEAN, spoken : 0 .. MaxSpoken] BY DEF ProxyTypes
<1>3. server' = [up |-> FALSE, spoken |-> server.spoken] BY <1>1, <1>2
<1>4. server.spoken \in 0 .. MaxSpoken BY <1>2
<1>5. "closed" \in ProxyStages BY DEF ProxyStages
<1>6. proxy \in AProxy BY DEF ProxyTypes
<1>7. server' \in [up : BOOLEAN, spoken : 0 .. MaxSpoken] /\ ~server'.up
      /\ server'.spoken = server.spoken
  BY <1>3, <1>4
<1>8. proxy' \in AProxy /\ proxy'.read = proxy.read
      /\ (proxy' = proxy \/ (proxy.at = "read" /\ proxy'.at = "closed"))
  <2>1. [proxy EXCEPT !.at = "closed"] \in AProxy
        /\ [proxy EXCEPT !.at = "closed"].read = proxy.read
        /\ [proxy EXCEPT !.at = "closed"].at = "closed"
    BY <1>5, <1>6, MovesTo
  <2> QED BY <1>1, <1>6, <2>1
<1> QED BY <1>1, <1>7, <1>8

LEMMA WriteDoes ==
  ASSUME ProxyTypes, WriteResponse
  PROVE  /\ proxy.at = "write" /\ proxy' \in AProxy /\ proxy'.at = "read"
         /\ proxy'.read = proxy.read /\ answers' = Append(answers, proxy.reply)
         /\ answers' \in Seq(AReply) /\ Len(answers') = proxy.read
         /\ UNCHANGED <<link, server, ran, verdict, toServer, fromServer>>
<1>1. /\ proxy.at = "write" /\ proxy' = [proxy EXCEPT !.at = "read"]
      /\ answers' = Append(answers, proxy.reply)
      /\ UNCHANGED <<link, server, ran, verdict, toServer, fromServer>>
  BY ProxyStepDoes DEF WriteResponse
<1>2. "read" \in ProxyStages BY DEF ProxyStages
<1>3. answers \in Seq(AReply) /\ proxy.reply \in AReply /\ Len(answers) = proxy.read - 1
      /\ proxy.read \in Messages
  BY <1>1 DEF ProxyTypes, AProxy, Replied
<1> QED BY <1>1, <1>2, <1>3, MovesTo DEF Messages

LEMMA ProxyTypesInit == ProxyInit => ProxyTypes
<1> SUFFICES ASSUME ProxyInit PROVE ProxyTypes
  OBVIOUS
<1>1. PICK n \in Messages, upstream \in {"subprocess", "http"}, dispatcher \in BOOLEAN :
        \E messages \in [1 .. n -> Kinds] :
          link = [messages |-> messages, upstream |-> upstream, dispatcher |-> dispatcher]
  BY DEF ProxyInit, Kinds
<1>2. PICK messages \in [1 .. n -> Kinds] :
        link = [messages |-> messages, upstream |-> upstream, dispatcher |-> dispatcher]
  BY <1>1
<1>3. messages \in Seq(Kinds) /\ Len(messages) = n BY <1>2, ProxyBounds DEF Messages
<1>4. Reply(0, "empty") \in AReply BY ReplyIs, ProxyBounds DEF Bodies
<1>5. proxy \in AProxy /\ proxy.read = 0 /\ proxy.at = "read"
  BY <1>4, ProxyBounds DEF ProxyInit, ProxyStart, AProxy, ProxyStages
<1>6. verdict \in [Messages -> Verdicts \cup {"none"}] BY DEF ProxyInit, ProxyStart
<1>7. server \in [up : BOOLEAN, spoken : 0 .. MaxSpoken]
  BY ProxyBounds DEF ProxyInit, ProxyStart
<1> QED BY <1>2, <1>3, <1>5, <1>6, <1>7, ProxyBounds
        DEF ProxyInit, ProxyStart, ProxyTypes, Replied, Messages

LEMMA ProxyTypesStep == ProxyTypes /\ [ProxyNext]_proxyVars => ProxyTypes'
<1> SUFFICES ASSUME ProxyTypes, [ProxyNext]_proxyVars PROVE ProxyTypes'
  OBVIOUS
<1>1. CASE ReadRequest BY <1>1, ReadDoes DEF ProxyTypes, AProxy, Replied
<1>2. CASE Intercept
  <2>1. PICK v \in Verdicts :
          /\ ProxyStep("judge",
               IF v \in Refusing THEN Failed
               ELSE [proxy EXCEPT !.at = "forward",
                                  !.params = IF v = "MUTATE" THEN "mutated" ELSE @])
          /\ verdict' = [verdict EXCEPT ![proxy.read] = v]
          /\ UNCHANGED <<toServer, fromServer, answers>>
    BY <1>2 DEF Intercept
  <2>2. verdict' \in [Messages -> Verdicts \cup {"none"}] BY <2>1 DEF ProxyTypes
  <2> QED BY <2>1, <2>2, InterceptDoes DEF ProxyTypes, AProxy, Replied
<1>3. CASE Send
  <2>0. toServer \in Seq(Asked) BY DEF ProxyTypes
  <2>1. toServer' \in Seq(Asked) BY <1>3, <2>0, SendDoes
  <2>2. Replied(proxy') = Replied(proxy) BY <1>3, SendDoes DEF Replied
  <2> QED BY <1>3, <2>1, <2>2, SendDoes DEF ProxyTypes, AProxy
<1>4. CASE Decode \/ Received
  <2>1. Replied(proxy') = Replied(proxy) BY <1>4, AwaitDoes DEF Replied
  <2> QED BY <1>4, <2>1, AwaitDoes DEF ProxyTypes, AProxy
<1>5. CASE ScanOutput BY <1>5, ScanDoes DEF ProxyTypes, AProxy, Replied
<1>6. CASE WriteResponse
  <2>1. Replied(proxy') = proxy.read BY <1>6, WriteDoes DEF Replied
  <2> QED BY <1>6, <2>1, WriteDoes DEF ProxyTypes
<1>7. CASE Die \/ Close
  <2>1. Replied(proxy') = Replied(proxy) BY <1>7, DieDoes DEF Replied
  <2>2. toServer' \in Seq(Asked)
    <3>1. toServer' = <<>> BY <1>7, DieDoes
    <3> QED BY <3>1, Empty
  <2>3. proxy'.at \notin {"read", "closed"} => proxy.at \notin {"read", "closed"}
    BY <1>7, DieDoes
  <2> QED BY <1>7, <2>1, <2>2, <2>3, DieDoes DEF ProxyTypes
<1>8. CASE Serve
  <2>0. toServer \in Seq(Asked) /\ ran \in Seq(Asked) /\ fromServer \in Seq(AReply)
    BY DEF ProxyTypes
  <2>1. toServer' \in Seq(Asked)
    <3>1. toServer # <<>> /\ toServer' = Tail(toServer) BY <1>8, ServeDoes
    <3> QED BY <2>0, <3>1, Shorter
  <2>2. ran' \in Seq(Asked)
    <3>1. /\ Head(toServer) \in Asked
          /\ ran' = IF Head(toServer).kind = "tool" THEN Append(ran, Head(toServer)) ELSE ran
      BY <1>8, ServeDoes
    <3> QED BY <2>0, <3>1, Longer
  <2>3. fromServer' \in Seq(AReply)
    <3>1. fromServer' = fromServer \/ \E reply \in AReply : fromServer' = Append(fromServer, reply)
      BY <1>8, ServeDoes
    <3>2. ASSUME NEW reply \in AReply PROVE Append(fromServer, reply) \in Seq(AReply)
      BY <2>0, Longer
    <3> QED BY <2>0, <3>1, <3>2
  <2> QED BY <1>8, <2>1, <2>2, <2>3, ServeDoes DEF ProxyTypes
<1>9. CASE Speak
  <2>1. fromServer' \in Seq(AReply)
    <3>1. \E reply \in AReply : fromServer' = Append(fromServer, reply) BY <1>9, SpeakDoes
    <3> QED BY <3>1, Longer DEF ProxyTypes
  <2> QED BY <1>9, <2>1, SpeakDoes DEF ProxyTypes
<1>10. CASE UNCHANGED proxyVars BY <1>10 DEF ProxyTypes, proxyVars
<1> QED BY <1>1, <1>2, <1>3, <1>4, <1>5, <1>6, <1>7, <1>8, <1>9, <1>10 DEF ProxyNext, ProxyRun

\* Whatever happens, each variable has its type, and there is an answer for each
\* message read but the one in work.
THEOREM ProxyTypeCorrect == ProxySpec => []ProxyTypeOK
<1>1. ProxySpec => []ProxyTypes BY ProxyTypesInit, ProxyTypesStep, PTL DEF ProxySpec
<1>2. ProxyTypes => ProxyTypeOK
  BY DEF ProxyTypes, ProxyTypeOK, AProxy, AReply, ProxyStages, Replied
<1> QED BY <1>1, <1>2, PTL

-----------------------------------------------------------------------------
(* What was judged, and what reaches the server *)

\* A call goes on as it was judged to: changed if it was to be changed, else as asked.
AsJudged(params, said) == said \in Verdicts \ Refusing /\ (said = "MUTATE" <=> params = "mutated")

\* The messages that were sent, or are past being sent: the one in work counts once it
\* is.
Bound(p) == IF p.at \in {"judge", "forward"} THEN p.read - 1 ELSE p.read

\* What is on the way to the server, or reached it, is one of those the client wrote
\* and, when a tool call, went on as it was judged to.
Genuine(e, messages, said, bound) ==
  /\ e.of \in 1 .. bound /\ e.kind = messages[e.of]
  /\ e.kind = "tool" => AsJudged(e.params, said[e.of])

AllGenuine(q, messages, said, bound) ==
  \A k \in DOMAIN q : Genuine(q[k], messages, said, bound)

Rising(q) == \A j, k \in DOMAIN q : j < k => q[j].of < q[k].of
Before(p, q) == \A j \in DOMAIN p, k \in DOMAIN q : p[j].of < q[k].of

\* What waits for the server and what it ran, each in the order of the client's
\* messages, and what it ran before what waits.
Ledger ==
  /\ AllGenuine(toServer, link.messages, verdict, Bound(proxy))
  /\ AllGenuine(ran, link.messages, verdict, Bound(proxy))
  /\ \A k \in DOMAIN ran : ran[k].kind = "tool"
  /\ Rising(toServer) /\ Rising(ran) /\ Before(ran, toServer)

\* The message in work was judged before it can be sent.
InWork(p, messages, said) ==
  /\ p.at = "judge" => p.params = "asked" /\ messages[p.read] = "tool"
  /\ p.at = "forward" /\ messages[p.read] = "tool" => AsJudged(p.params, said[p.read])

InWorkIsJudged == InWork(proxy, link.messages, verdict)

LEMMA GenuineStays ==
  ASSUME NEW q, NEW messages, NEW said, NEW later, NEW b \in Int, NEW c \in Int, b <= c,
         \A i \in 1 .. b : later[i] = said[i],
         AllGenuine(q, messages, said, b)
  PROVE  AllGenuine(q, messages, later, c)
<1> SUFFICES ASSUME NEW k \in DOMAIN q PROVE Genuine(q[k], messages, later, c)
  BY DEF AllGenuine
<1>1. Genuine(q[k], messages, said, b) BY DEF AllGenuine
<1>2. q[k].of \in 1 .. b /\ q[k].of \in 1 .. c BY <1>1 DEF Genuine
<1> QED BY <1>1, <1>2 DEF Genuine

LEMMA BoundGrows ==
  ASSUME ProxyTypes, [ProxyNext]_proxyVars
  PROVE  /\ Bound(proxy) \in Int /\ Bound(proxy') \in Int /\ Bound(proxy) <= Bound(proxy')
         /\ \A i \in 1 .. Bound(proxy) : verdict'[i] = verdict[i]
         /\ link' = link
<1>0. proxy \in AProxy /\ proxy.read \in Int BY DEF ProxyTypes, AProxy
<1>1. CASE ReadRequest BY <1>0, <1>1, ReadDoes DEF Bound
<1>2. CASE Intercept
  <2>1. PICK v \in Verdicts :
          /\ ProxyStep("judge",
               IF v \in Refusing THEN Failed
               ELSE [proxy EXCEPT !.at = "forward",
                                  !.params = IF v = "MUTATE" THEN "mutated" ELSE @])
          /\ verdict' = [verdict EXCEPT ![proxy.read] = v]
    BY <1>2 DEF Intercept
  <2>2. proxy.at = "judge" /\ proxy'.read = proxy.read /\ link' = link
    BY <2>1, InterceptDoes
  <2>3. \A i \in 1 .. proxy.read - 1 : verdict'[i] = verdict[i]
    <3>1. \A i \in 1 .. proxy.read - 1 : i \in Messages /\ i # proxy.read
      BY <1>0, ProxyBounds DEF AProxy, Messages
    <3> QED BY <2>1, <3>1 DEF ProxyTypes
  <2> QED BY <1>0, <2>2, <2>3 DEF Bound
<1>3. CASE Send BY <1>0, <1>3, SendDoes DEF Bound
<1>4. CASE Decode \/ Received BY <1>0, <1>4, AwaitDoes DEF Bound
<1>5. CASE ScanOutput BY <1>0, <1>5, ScanDoes DEF Bound
<1>6. CASE WriteResponse BY <1>0, <1>6, WriteDoes DEF Bound
<1>7. CASE Die \/ Close BY <1>0, <1>7, DieDoes DEF Bound
<1>8. CASE Serve BY <1>0, <1>8, ServeDoes DEF Bound
<1>9. CASE Speak BY <1>0, <1>9, SpeakDoes DEF Bound
<1>10. CASE UNCHANGED proxyVars BY <1>0, <1>10 DEF Bound, proxyVars
<1> QED BY <1>1, <1>2, <1>3, <1>4, <1>5, <1>6, <1>7, <1>8, <1>9, <1>10 DEF ProxyNext, ProxyRun

LEMMA InWorkStep ==
  ProxyTypes /\ InWorkIsJudged /\ [ProxyNext]_proxyVars => InWorkIsJudged'
<1> SUFFICES ASSUME ProxyTypes, InWorkIsJudged, [ProxyNext]_proxyVars PROVE InWorkIsJudged'
  OBVIOUS
<1>0. link' = link BY BoundGrows
<1> SUFFICES InWork(proxy', link.messages, verdict')
  BY <1>0 DEF InWorkIsJudged, InWork
<1>1. CASE ReadRequest
  BY <1>1, ReadDoes DEF InWork, ProxyTypes
<1>2. CASE Intercept
  <2>1. PICK v \in Verdicts :
          /\ ProxyStep("judge",
               IF v \in Refusing THEN Failed
               ELSE [proxy EXCEPT !.at = "forward",
                                  !.params = IF v = "MUTATE" THEN "mutated" ELSE @])
          /\ verdict' = [verdict EXCEPT ![proxy.read] = v]
    BY <1>2 DEF Intercept
  <2>2. /\ proxy.at = "judge" /\ proxy'.read = proxy.read
        /\ v \in Refusing => proxy'.at = "write"
        /\ v \notin Refusing =>
             /\ proxy'.at = "forward"
             /\ proxy'.params = IF v = "MUTATE" THEN "mutated" ELSE proxy.params
    BY <2>1, InterceptDoes
  <2>3. verdict'[proxy.read] = v BY <2>1, <2>2 DEF ProxyTypes
  <2>4. proxy.params = "asked" BY <2>2 DEF InWorkIsJudged, InWork
  <2> QED BY <2>2, <2>3, <2>4 DEF InWork, AsJudged
<1>3. CASE Send BY <1>3, SendDoes DEF InWork
<1>4. CASE Decode \/ Received BY <1>4, AwaitDoes DEF InWork
<1>5. CASE ScanOutput BY <1>5, ScanDoes DEF InWork
<1>6. CASE WriteResponse BY <1>6, WriteDoes DEF InWork
<1>7. CASE Die \/ Close BY <1>7, DieDoes DEF InWork, InWorkIsJudged
<1>8. CASE Serve BY <1>8, ServeDoes DEF InWork, InWorkIsJudged
<1>9. CASE Speak BY <1>9, SpeakDoes DEF InWork, InWorkIsJudged
<1>10. CASE UNCHANGED proxyVars BY <1>10 DEF InWork, InWorkIsJudged, proxyVars
<1> QED BY <1>1, <1>2, <1>3, <1>4, <1>5, <1>6, <1>7, <1>8, <1>9, <1>10 DEF ProxyNext, ProxyRun

\* What is true of each entry of a queue is true of one entry more, or of those left.
LEMMA GenuineQueue ==
  ASSUME NEW q \in Seq(Asked), NEW messages, NEW said, NEW b, AllGenuine(q, messages, said, b)
  PROVE  /\ \A e \in Asked : Genuine(e, messages, said, b)
                               => AllGenuine(Append(q, e), messages, said, b)
         /\ q # <<>> => AllGenuine(Tail(q), messages, said, b) /\ Genuine(q[1], messages, said, b)
<1>1. ASSUME NEW e \in Asked, Genuine(e, messages, said, b)
      PROVE  AllGenuine(Append(q, e), messages, said, b)
  <2> SUFFICES ASSUME NEW k \in DOMAIN Append(q, e)
               PROVE  Genuine(Append(q, e)[k], messages, said, b)
    BY DEF AllGenuine
  <2>1. k \in DOMAIN q \/ k = Len(q) + 1 BY Longer
  <2>2. Append(q, e)[k] = e \/ \E i \in DOMAIN q : Append(q, e)[k] = q[i] BY <2>1, Longer
  <2> QED BY <1>1, <2>2 DEF AllGenuine
<1>2. ASSUME q # <<>>
      PROVE  AllGenuine(Tail(q), messages, said, b) /\ Genuine(q[1], messages, said, b)
  <2>1. \A i \in DOMAIN Tail(q) : i + 1 \in DOMAIN q /\ Tail(q)[i] = q[i + 1] BY <1>2, Shorter
  <2>2. 1 \in DOMAIN q BY <1>2, Shorter
  <2> QED BY <2>1, <2>2 DEF AllGenuine
<1> QED BY <1>1, <1>2

LEMMA RisingQueue ==
  ASSUME NEW q \in Seq(Asked), Rising(q)
  PROVE  /\ \A e \in Asked : (\A k \in DOMAIN q : q[k].of < e.of) => Rising(Append(q, e))
         /\ q # <<>> => /\ Rising(Tail(q))
                        /\ \A k \in DOMAIN Tail(q) : q[1].of < Tail(q)[k].of
<1>1. ASSUME NEW e \in Asked, \A k \in DOMAIN q : q[k].of < e.of
      PROVE  Rising(Append(q, e))
  <2> DEFINE r == Append(q, e)
  <2>1. /\ DOMAIN r = 1 .. Len(q) + 1 /\ DOMAIN q = 1 .. Len(q) /\ Len(q) \in Nat
        /\ r[Len(q) + 1] = e
        /\ \A i \in DOMAIN q : r[i] = q[i]
    BY Longer
  <2> HIDE DEF r
  <2> SUFFICES ASSUME NEW j \in DOMAIN r, NEW k \in DOMAIN r, j < k PROVE r[j].of < r[k].of
    BY DEF Rising, r
  <2>2. j \in DOMAIN q BY <2>1
  <2>3. CASE k \in DOMAIN q BY <2>1, <2>2, <2>3 DEF Rising
  <2>4. CASE k = Len(q) + 1 BY <1>1, <2>1, <2>2, <2>4
  <2> QED BY <2>1, <2>3, <2>4
<1>2. ASSUME q # <<>>
      PROVE  Rising(Tail(q)) /\ \A k \in DOMAIN Tail(q) : q[1].of < Tail(q)[k].of
  <2> DEFINE r == Tail(q)
  <2>1. /\ DOMAIN r = 1 .. Len(q) - 1 /\ DOMAIN q = 1 .. Len(q) /\ Len(q) \in Nat /\ 1 \in DOMAIN q
        /\ \A i \in DOMAIN r : i + 1 \in DOMAIN q /\ r[i] = q[i + 1]
    BY <1>2, Shorter
  <2> HIDE DEF r
  <2>2. \A j, k \in DOMAIN r : j < k => j + 1 < k + 1 BY <2>1
  <2>3. \A k \in DOMAIN r : 1 < k + 1 BY <2>1
  <2>4. Rising(r) BY <2>1, <2>2 DEF Rising
  <2>5. \A k \in DOMAIN r : q[1].of < r[k].of BY <2>1, <2>3 DEF Rising
  <2> QED BY <2>4, <2>5 DEF r
<1> QED BY <1>1, <1>2

LEMMA LedgerStep ==
  ProxyTypes /\ InWorkIsJudged /\ Ledger /\ [ProxyNext]_proxyVars => Ledger'
<1> SUFFICES ASSUME ProxyTypes, InWorkIsJudged, Ledger, [ProxyNext]_proxyVars PROVE Ledger'
  OBVIOUS
<1> DEFINE messages == link.messages
           now == Bound(proxy')
<1>1. /\ AllGenuine(toServer, messages, verdict', now)
      /\ AllGenuine(ran, messages, verdict', now)
      /\ now \in Int /\ link' = link /\ Bound(proxy) <= now
  BY BoundGrows, GenuineStays DEF Ledger
<1>2. /\ \A k \in DOMAIN ran : ran[k].kind = "tool"
      /\ Rising(toServer) /\ Rising(ran) /\ Before(ran, toServer)
  BY DEF Ledger
<1>3. toServer \in Seq(Asked) /\ ran \in Seq(Asked) BY DEF ProxyTypes
<1> SUFFICES /\ AllGenuine(toServer', messages, verdict', now)
             /\ AllGenuine(ran', messages, verdict', now)
             /\ \A k \in DOMAIN ran' : ran'[k].kind = "tool"
             /\ Rising(toServer') /\ Rising(ran') /\ Before(ran', toServer')
  BY <1>1 DEF Ledger
<1>4. CASE UNCHANGED <<toServer, ran>> BY <1>1, <1>2, <1>4
<1>5. CASE toServer' = <<>> /\ UNCHANGED ran
  <2>1. DOMAIN toServer' = {} BY <1>5
  <2> QED BY <1>1, <1>2, <1>5, <2>1 DEF AllGenuine, Rising, Before
<1>6. CASE Send /\ server.up
  <2>1. PICK e \in Asked : /\ toServer' = Append(toServer, e) /\ e.of = proxy.read
                           /\ e.kind = Kind /\ e.params = proxy.params
    BY <1>6, SendDoes
  <2>2. /\ proxy.at = "forward" /\ proxy'.at = "await" /\ proxy'.read = proxy.read
        /\ UNCHANGED <<verdict, ran>>
    BY <1>6, SendDoes
  <2>3. proxy.read \in Nat \ {0} BY <2>2, ProxyBounds DEF ProxyTypes, Messages
  <2>4. now = proxy.read /\ Bound(proxy) = proxy.read - 1 BY <2>2 DEF Bound
  <2>5. Genuine(e, messages, verdict', now)
    BY <2>1, <2>2, <2>3, <2>4 DEF Genuine, InWorkIsJudged, InWork, Kind
  <2>6. /\ \A k \in DOMAIN toServer : toServer[k].of < e.of
        /\ \A k \in DOMAIN ran : ran[k].of < e.of
    BY <2>1, <2>3, <2>4 DEF Ledger, AllGenuine, Genuine
  <2>7. AllGenuine(toServer', messages, verdict', now) /\ Rising(toServer')
    BY <1>1, <1>2, <1>3, <2>1, <2>5, <2>6, GenuineQueue, RisingQueue
  <2>8. Before(ran, toServer')
    <3>1. \A k \in DOMAIN toServer' : \/ toServer'[k] = e
                                      \/ k \in DOMAIN toServer /\ toServer'[k] = toServer[k]
      BY <1>3, <2>1, Longer
    <3> QED BY <1>2, <2>6, <3>1 DEF Before
  <2> QED BY <1>1, <1>2, <2>2, <2>7, <2>8
<1>7. CASE Serve
  <2> DEFINE e == Head(toServer)
  <2>1. /\ toServer # <<>> /\ toServer' = Tail(toServer) /\ e \in Asked
        /\ ran' = IF e.kind = "tool" THEN Append(ran, e) ELSE ran
    BY <1>7, ServeDoes
  <2>2. e = toServer[1] /\ 1 \in DOMAIN toServer BY <1>3, <2>1, Shorter
  <2> HIDE DEF e
  <2>3. /\ AllGenuine(toServer', messages, verdict', now) /\ Rising(toServer')
        /\ Genuine(e, messages, verdict', now)
        /\ \A k \in DOMAIN toServer' : e.of < toServer'[k].of
    BY <1>1, <1>2, <1>3, <2>1, <2>2, GenuineQueue, RisingQueue
  <2>4. Before(ran, toServer')
    <3>1. \A k \in DOMAIN toServer' : k + 1 \in DOMAIN toServer
                                      /\ toServer'[k] = toServer[k + 1]
      BY <1>3, <2>1, Shorter
    <3> QED BY <1>2, <3>1 DEF Before
  <2>5. CASE e.kind # "tool" BY <1>1, <1>2, <2>1, <2>3, <2>4, <2>5
  <2>6. CASE e.kind = "tool"
    <3>1. ran' = Append(ran, e) BY <2>1, <2>6
    <3>2. \A k \in DOMAIN ran : ran[k].of < e.of BY <1>2, <2>2 DEF Before
    <3>3. AllGenuine(ran', messages, verdict', now) /\ Rising(ran')
      BY <1>1, <1>2, <1>3, <2>1, <2>3, <3>1, <3>2, GenuineQueue, RisingQueue
    <3>4. \A k \in DOMAIN ran' : ran'[k] = e \/ (k \in DOMAIN ran /\ ran'[k] = ran[k])
      BY <1>3, <2>1, <3>1, Longer
    <3> QED BY <1>2, <2>3, <2>4, <2>6, <3>3, <3>4 DEF Before
  <2> QED BY <2>5, <2>6
<1>8. \/ UNCHANGED <<toServer, ran>> \/ (toServer' = <<>> /\ UNCHANGED ran)
      \/ (Send /\ server.up) \/ Serve
  <2>1. CASE ReadRequest BY <2>1, ReadDoes
  <2>2. CASE Intercept BY <2>2, ProxyStepDoes DEF Intercept
  <2>3. CASE Send BY <2>3, SendDoes
  <2>4. CASE Decode \/ Received BY <2>4, AwaitDoes
  <2>5. CASE ScanOutput BY <2>5, ScanDoes
  <2>6. CASE WriteResponse BY <2>6, WriteDoes
  <2>7. CASE Die \/ Close BY <2>7, DieDoes
  <2>8. CASE Speak BY <2>8, SpeakDoes
  <2> QED BY <2>1, <2>2, <2>3, <2>4, <2>5, <2>6, <2>7, <2>8 DEF ProxyNext, ProxyRun, proxyVars
<1> QED BY <1>4, <1>5, <1>6, <1>7, <1>8

LEMMA LedgerInit == ProxyInit => Ledger /\ InWorkIsJudged
<1> SUFFICES ASSUME ProxyInit PROVE Ledger /\ InWorkIsJudged
  OBVIOUS
<1>1. DOMAIN toServer = {} /\ DOMAIN ran = {} /\ proxy.at = "read"
  BY DEF ProxyInit, ProxyStart
<1> QED BY <1>1 DEF Ledger, AllGenuine, Rising, Before, InWorkIsJudged, InWork

\* The server never runs a tool call twice, nor one that was not judged, was refused, or
\* is not as it was judged to go on - whatever Intercept says, whoever dies, and however
\* many calls time out and are served after all.
THEOREM ProxyNothingUnjudgedRuns == ProxySpec => []NothingUnjudgedRuns
<1> DEFINE Inv == ProxyTypes /\ InWorkIsJudged /\ Ledger
<1>1. ProxyInit => Inv BY ProxyTypesInit, LedgerInit
<1>2. Inv /\ [ProxyNext]_proxyVars => Inv' BY ProxyTypesStep, InWorkStep, LedgerStep
<1>3. Inv => NothingUnjudgedRuns
  <2> SUFFICES ASSUME Inv, NEW k \in DOMAIN ran
               PROVE  /\ verdict[ran[k].of] \in Verdicts \ Refusing
                      /\ verdict[ran[k].of] = "MUTATE" <=> ran[k].params = "mutated"
                      /\ \A j \in DOMAIN ran : ran[j].of = ran[k].of => j = k
    BY DEF NothingUnjudgedRuns
  <2>1. AsJudged(ran[k].params, verdict[ran[k].of]) BY DEF Ledger, AllGenuine, Genuine
  <2>2. ASSUME NEW j \in DOMAIN ran, ran[j].of = ran[k].of PROVE j = k
    <3>0. ran \in Seq(Asked) BY DEF ProxyTypes
    <3>1. j \in Int /\ k \in Int BY <3>0
    <3>2. ~(j < k) /\ ~(k < j)
      <4>1. ran[j] \in Asked /\ ran[k] \in Asked BY <3>0
      <4>2. ran[j].of \in Int /\ ran[k].of \in Int BY <4>1, ProxyBounds DEF Asked, Messages
      <4> QED BY <2>2, <4>2 DEF Ledger, Rising
    <3> QED BY <3>1, <3>2
  <2> QED BY <2>1, <2>2 DEF AsJudged
<1> QED BY <1>1, <1>2, <1>3, PTL DEF ProxySpec

-----------------------------------------------------------------------------
(* Whose answers the client gets *)

\* A subprocess that only speaks when asked has one thing on the way at most: the
\* message in work, or its answer, and that only while it is waited for.
Alone(p, to, from) ==
  /\ p.at # "await" => to = <<>> /\ from = <<>>
  /\ Len(to) + Len(from) <= 1
  /\ \A k \in DOMAIN to : to[k].of = p.read
  /\ \A k \in DOMAIN from : from[k].of = p.read

OwnReply(p) == p.at \in {"scan", "write"} => p.reply.of = p.read
OwnAnswers(given) == \A i \in DOMAIN given : given[i].of = i

InTurn ==
  /\ ~Subprocess => server.spoken = 0
  /\ ~server.up => toServer = <<>>
  /\ server.spoken = 0 => /\ Subprocess => Alone(proxy, toServer, fromServer)
                          /\ OwnReply(proxy) /\ OwnAnswers(answers)

\* Only a tool call has an output that would not pass the scan; when one is written all
\* the same, it answers what is no tool call, and the server had spoken unasked.
Scanned ==
  /\ \A k \in DOMAIN fromServer :
       fromServer[k].body = "dirty" => link.messages[fromServer[k].of] = "tool"
  /\ proxy.at = "write" /\ proxy.reply.body = "dirty" => Kind # "tool" /\ server.spoken > 0
  /\ \A i \in DOMAIN answers :
       answers[i].body = "dirty" => link.messages[i] # "tool" /\ server.spoken > 0

LEMMA SpeechIsKept ==
  ASSUME ProxyTypes, [ProxyNext]_proxyVars
  PROVE  /\ server.spoken \in Nat /\ server'.spoken \in Nat
         /\ link' = link /\ (Subprocess' <=> Subprocess)
         /\ server.spoken > 0 => server'.spoken > 0
<1>1. server.spoken \in Nat /\ server'.spoken \in Nat
  <2>1. ProxyTypes' BY ProxyTypesStep
  <2> QED BY <2>1, ProxyBounds DEF ProxyTypes
<1>2. server' = server \/ server'.spoken > 0 \/ server'.spoken = server.spoken
  BY ReadDoes, ProxyStepDoes, SendDoes, AwaitDoes, ScanDoes, WriteDoes, DieDoes, ServeDoes, SpeakDoes
     DEF ProxyNext, ProxyRun, proxyVars, Intercept
<1> QED BY <1>1, <1>2, BoundGrows DEF Subprocess

LEMMA InTurnStep ==
  ProxyTypes /\ InTurn /\ [ProxyNext]_proxyVars => InTurn'
<1> SUFFICES ASSUME ProxyTypes, InTurn, [ProxyNext]_proxyVars PROVE InTurn'
  OBVIOUS
<1>0. /\ server.spoken \in Nat /\ server'.spoken \in Nat /\ (Subprocess' <=> Subprocess)
      /\ server.spoken > 0 => server'.spoken > 0
  BY SpeechIsKept
<1> DEFINE Fine ==
      /\ ~Subprocess => server'.spoken = 0
      /\ ~server'.up => toServer' = <<>>
      /\ server'.spoken = 0 => /\ Subprocess => Alone(proxy', toServer', fromServer')
                               /\ OwnReply(proxy') /\ OwnAnswers(answers')
<1> SUFFICES Fine
  BY <1>0 DEF InTurn
<1>1. ASSUME ReadRequest PROVE Fine
  BY <1>1, ReadDoes DEF InTurn, Alone, OwnReply
<1>2. ASSUME Intercept PROVE Fine
  <2>1. PICK v \in Verdicts :
          /\ ProxyStep("judge",
               IF v \in Refusing THEN Failed
               ELSE [proxy EXCEPT !.at = "forward",
                                  !.params = IF v = "MUTATE" THEN "mutated" ELSE @])
          /\ UNCHANGED <<toServer, fromServer, answers>>
    BY <1>2 DEF Intercept
  <2>2. /\ proxy.at = "judge" /\ proxy'.read = proxy.read /\ server' = server
        /\ \/ proxy'.at = "forward"
           \/ proxy'.at = "write" /\ proxy'.reply = [of |-> proxy.read, body |-> "error"]
    BY <2>1, InterceptDoes
  <2> QED BY <2>1, <2>2 DEF InTurn, Alone, OwnReply
<1>3. ASSUME Send PROVE Fine
  <2>1. CASE ~server.up BY <1>3, <2>1, SendDoes DEF InTurn, Alone, OwnReply
  <2>2. CASE server.up
    <3>1. /\ proxy.at = "forward" /\ proxy'.at = "await" /\ proxy'.read = proxy.read
          /\ UNCHANGED <<server, fromServer, answers>>
      BY <1>3, <2>2, SendDoes
    <3>2. PICK e \in Asked : toServer' = Append(toServer, e) /\ e.of = proxy.read
      BY <1>3, <2>2, SendDoes
    <3>3. ASSUME server.spoken = 0, Subprocess PROVE Alone(proxy', toServer', fromServer')
      <4>1. toServer = <<>> /\ fromServer = <<>> BY <3>1, <3>3 DEF InTurn, Alone
      <4>2. toServer' = <<e>> /\ Len(toServer') = 1 /\ DOMAIN toServer' = {1} /\ toServer'[1] = e
        BY <3>2, <4>1
      <4>3. Len(fromServer') = 0 /\ DOMAIN fromServer' = {} BY <3>1, <4>1
      <4> QED BY <3>1, <3>2, <4>2, <4>3 DEF Alone
    <3> QED BY <2>2, <3>1, <3>3 DEF InTurn, OwnReply
  <2> QED BY <2>1, <2>2
<1>4. ASSUME Decode \/ Received PROVE Fine
  <2>1. /\ proxy.at = "await" /\ proxy'.read = proxy.read /\ proxy'.at \in {"scan", "write"}
        /\ UNCHANGED <<server, toServer, answers>>
    BY <1>4, AwaitDoes
  <2>2. ASSUME server.spoken = 0 PROVE proxy'.reply.of = proxy.read
    <3>1. CASE proxy'.reply = [of |-> proxy.read, body |-> "error"] BY <3>1
    <3>2. CASE \E k \in DOMAIN fromServer :
                 /\ proxy'.reply = fromServer[k]
                 /\ ~Subprocess => fromServer[k].of = proxy.read
      BY <2>2, <3>2 DEF InTurn, Alone
    <3> QED BY <1>4, <3>1, <3>2, AwaitDoes
  <2>3. ASSUME server.spoken = 0, Subprocess PROVE toServer = <<>> /\ fromServer' = <<>>
    <3>0. /\ toServer \in Seq(Asked) /\ fromServer \in Seq(AReply)
          /\ Len(toServer) + Len(fromServer) <= 1
      BY <2>3 DEF InTurn, Alone, ProxyTypes
    <3>1. CASE fromServer = <<>> /\ ~server.up /\ UNCHANGED fromServer BY <3>1 DEF InTurn
    <3>2. CASE fromServer # <<>> /\ fromServer' = Tail(fromServer)
      <4>1. Len(fromServer) \in Nat \ {0} /\ Len(toServer) \in Nat
        BY <3>0, <3>2, Shorter, NothingIn
      <4>2. Len(fromServer) = 1 /\ Len(toServer) = 0
        <5>1. \A m, n \in Nat : m + n <= 1 /\ n # 0 => n = 1 /\ m = 0 OBVIOUS
        <5>2. Len(fromServer) # 0 BY <4>1
        <5> QED BY <3>0, <4>1, <5>1, <5>2
      <4>3. toServer = <<>> BY <3>0, <4>2
      <4>4. Tail(fromServer) \in Seq(AReply) /\ Len(Tail(fromServer)) = 0
        BY <3>0, <3>2, <4>2, Shorter
      <4>5. Tail(fromServer) = <<>> BY <4>4, NothingIn
      <4> QED BY <3>2, <4>3, <4>5
    <3>3. \A k \in DOMAIN fromServer : fromServer # <<>> BY <3>0
    <3> QED BY <1>4, <2>3, <3>1, <3>2, <3>3, AwaitDoes
  <2>4. ASSUME server.spoken = 0, Subprocess PROVE Alone(proxy', toServer', fromServer')
    <3>1. toServer' = <<>> /\ fromServer' = <<>> BY <2>1, <2>3, <2>4
    <3>2. Len(toServer') + Len(fromServer') <= 1 /\ DOMAIN toServer' = {} /\ DOMAIN fromServer' = {}
      BY <3>1
    <3> QED BY <3>1, <3>2 DEF Alone
  <2> QED BY <2>1, <2>2, <2>4 DEF InTurn, OwnReply
<1>5. ASSUME ScanOutput PROVE Fine
  BY <1>5, ScanDoes DEF InTurn, Alone, OwnReply
<1>6. ASSUME WriteResponse PROVE Fine
  <2>1. /\ proxy.at = "write" /\ proxy'.at = "read" /\ proxy'.read = proxy.read
        /\ answers' = Append(answers, proxy.reply)
        /\ UNCHANGED <<server, toServer, fromServer>>
    BY <1>6, WriteDoes
  <2>2. /\ answers \in Seq(AReply) /\ proxy.reply \in AReply
        /\ proxy.read \in Messages /\ Len(answers) = proxy.read - 1
    BY <2>1 DEF ProxyTypes, AProxy, Replied
  <2>3. ASSUME server.spoken = 0 PROVE OwnAnswers(answers')
    <3>1. proxy.reply.of = Len(answers) + 1 BY <2>1, <2>2, <2>3 DEF InTurn, OwnReply, Messages
    <3>2. \A i \in DOMAIN answers' : \/ i = Len(answers) + 1 /\ answers'[i] = proxy.reply
                                     \/ i \in DOMAIN answers /\ answers'[i] = answers[i]
      BY <2>1, <2>2, Longer
    <3> QED BY <2>3, <3>1, <3>2 DEF InTurn, OwnAnswers
  <2> QED BY <2>1, <2>3 DEF InTurn, Alone, OwnReply
<1>7. ASSUME Die \/ Close PROVE Fine
  <2>1. /\ ~server'.up /\ toServer' = <<>> /\ proxy'.read = proxy.read
        /\ proxy' = proxy \/ (proxy.at = "read" /\ proxy'.at = "closed")
        /\ server'.spoken = server.spoken /\ UNCHANGED <<fromServer, answers>>
    BY <1>7, DieDoes
  <2>2. ASSUME server.spoken = 0, Subprocess PROVE Alone(proxy', toServer', fromServer')
    <3>1. Alone(proxy, toServer, fromServer) BY <2>2 DEF InTurn
    <3>2. Len(toServer') = 0 /\ DOMAIN toServer' = {} BY <2>1
    <3>3. Len(fromServer) \in Nat /\ Len(toServer) \in Nat BY DEF ProxyTypes
    <3>4. Len(toServer') + Len(fromServer') <= 1 BY <2>1, <3>1, <3>2, <3>3 DEF Alone
    <3> QED BY <2>1, <3>1, <3>2, <3>4 DEF Alone
  <2>3. server'.spoken = 0 => OwnReply(proxy') /\ OwnAnswers(answers')
    BY <2>1 DEF InTurn, OwnReply
  <2> QED BY <2>1, <2>2, <2>3 DEF InTurn
<1>8. ASSUME Serve PROVE Fine
  <2>1. /\ toServer # <<>> /\ server.up /\ toServer' = Tail(toServer)
        /\ UNCHANGED <<proxy, server, answers>>
        /\ \/ UNCHANGED fromServer
           \/ \E reply \in AReply : fromServer' = Append(fromServer, reply)
                                    /\ reply.of = Head(toServer).of
    BY <1>8, ServeDoes
  <2>2. ASSUME server.spoken = 0, Subprocess PROVE Alone(proxy, toServer', fromServer')
    <3>0. toServer \in Seq(Asked) /\ fromServer \in Seq(AReply) BY DEF ProxyTypes
    <3>1. Alone(proxy, toServer, fromServer) BY <2>2 DEF InTurn
    <3>2. /\ Len(toServer) \in Nat \ {0} /\ Len(toServer') = Len(toServer) - 1
          /\ Head(toServer) = toServer[1] /\ 1 \in DOMAIN toServer
          /\ DOMAIN toServer' = 1 .. Len(toServer) - 1
      BY <2>1, <3>0, Shorter
    <3>3. Len(fromServer) \in Nat BY <3>0
    <3>4. Len(toServer) = 1 /\ Len(fromServer) = 0 BY <3>1, <3>2, <3>3 DEF Alone
    <3>5. DOMAIN toServer' = {} /\ Len(toServer') = 0 BY <3>2, <3>4
    <3>6. proxy.at = "await" BY <2>1, <3>1 DEF Alone
    <3>7. Head(toServer).of = proxy.read BY <3>1, <3>2 DEF Alone
    <3>8. CASE UNCHANGED fromServer BY <3>1, <3>4, <3>5, <3>6, <3>8 DEF Alone
    <3>9. ASSUME NEW reply \in AReply, fromServer' = Append(fromServer, reply),
                 reply.of = Head(toServer).of
          PROVE  Alone(proxy, toServer', fromServer')
      <4>1. Len(fromServer') = 1 /\ DOMAIN fromServer' = 1 .. 1 /\ fromServer'[1] = reply
        BY <3>0, <3>4, <3>9, Longer
      <4> QED BY <3>5, <3>6, <3>7, <3>9, <4>1 DEF Alone
    <3> QED BY <2>1, <3>8, <3>9
  <2> QED BY <2>1, <2>2 DEF InTurn
<1>9. ASSUME Speak PROVE Fine
  BY <1>0, <1>9, SpeakDoes DEF InTurn
<1>10. ASSUME UNCHANGED proxyVars PROVE Fine
  BY <1>10 DEF InTurn, proxyVars
<1> HIDE DEF Fine
<1> QED BY <1>1, <1>2, <1>3, <1>4, <1>5, <1>6, <1>7, <1>8, <1>9, <1>10 DEF ProxyNext, ProxyRun

LEMMA InTurnInit == ProxyInit => InTurn /\ Scanned
<1> SUFFICES ASSUME ProxyInit PROVE InTurn /\ Scanned
  OBVIOUS
<1>1. /\ toServer = <<>> /\ fromServer = <<>> /\ answers = <<>> /\ proxy.at = "read"
      /\ server.spoken = 0
  BY DEF ProxyInit, ProxyStart
<1>2. DOMAIN toServer = {} /\ DOMAIN fromServer = {} /\ DOMAIN answers = {}
      /\ Len(toServer) + Len(fromServer) <= 1
  BY <1>1
<1> QED BY <1>1, <1>2 DEF InTurn, Scanned, Alone, OwnReply, OwnAnswers

LEMMA ScannedStep ==
  ProxyTypes /\ Ledger /\ InTurn /\ Scanned /\ [ProxyNext]_proxyVars => Scanned'
<1> SUFFICES ASSUME ProxyTypes, Ledger, InTurn, Scanned, [ProxyNext]_proxyVars PROVE Scanned'
  OBVIOUS
<1>0. /\ link' = link /\ server.spoken \in Nat
      /\ server.spoken > 0 => server'.spoken > 0
  BY SpeechIsKept
<1>a. fromServer \in Seq(AReply) /\ answers \in Seq(AReply) BY DEF ProxyTypes
<1> DEFINE Tool(i) == link.messages[i] = "tool"
           FromFine == \A k \in DOMAIN fromServer' :
                         fromServer'[k].body = "dirty" => Tool(fromServer'[k].of)
           ReplyFine == proxy'.at = "write" /\ proxy'.reply.body = "dirty"
                          => ~Tool(proxy'.read) /\ server'.spoken > 0
           GivenFine == \A i \in DOMAIN answers' :
                          answers'[i].body = "dirty" => ~Tool(i) /\ server'.spoken > 0
           Fine == FromFine /\ ReplyFine /\ GivenFine
<1> SUFFICES Fine
  BY <1>0 DEF Scanned, Kind
<1>b. UNCHANGED fromServer => FromFine BY DEF Scanned
<1>c. UNCHANGED answers => GivenFine BY <1>0 DEF Scanned
<1>d. UNCHANGED proxy => ReplyFine BY <1>0 DEF Scanned, Kind
<1>1. ASSUME ReadRequest PROVE Fine
  <2>1. proxy'.at # "write" /\ UNCHANGED <<fromServer, answers>> BY <1>1, ReadDoes
  <2> QED BY <1>b, <1>c, <2>1
<1>2. ASSUME Intercept PROVE Fine
  <2>1. PICK v \in Verdicts :
          /\ ProxyStep("judge",
               IF v \in Refusing THEN Failed
               ELSE [proxy EXCEPT !.at = "forward",
                                  !.params = IF v = "MUTATE" THEN "mutated" ELSE @])
          /\ UNCHANGED <<toServer, fromServer, answers>>
    BY <1>2 DEF Intercept
  <2>2. \/ proxy'.at = "forward"
        \/ proxy'.reply = [of |-> proxy.read, body |-> "error"]
    BY <2>1, InterceptDoes
  <2> QED BY <1>b, <1>c, <2>1, <2>2
<1>3. ASSUME Send PROVE Fine
  <2>1. /\ proxy'.at = "await" \/ proxy'.reply = [of |-> proxy.read, body |-> "error"]
        /\ UNCHANGED <<fromServer, answers>>
    BY <1>3, SendDoes
  <2> QED BY <1>b, <1>c, <2>1
<1>4. ASSUME Decode \/ Received PROVE Fine
  <2>0. /\ proxy.at = "await" /\ proxy'.read = proxy.read /\ UNCHANGED <<server, answers>>
        /\ InTurn'
    BY <1>4, AwaitDoes, InTurnStep
  <2>1. CASE proxy'.reply = [of |-> proxy.read, body |-> "error"]
             /\ (Subprocess => UNCHANGED fromServer) /\ (~Subprocess => fromServer' = <<>>)
    <3>1. ReplyFine BY <2>1
    <3>2. FromFine BY <1>b, <2>1
    <3> QED BY <1>c, <2>0, <3>1, <3>2
  <2>2. CASE \E k \in DOMAIN fromServer :
               /\ proxy'.reply = fromServer[k]
               /\ proxy'.at = IF Kind = "tool" THEN "scan" ELSE "write"
               /\ Subprocess => k = 1 /\ fromServer' = Tail(fromServer)
               /\ ~Subprocess => fromServer' = <<>>
    <3>1. PICK k \in DOMAIN fromServer :
               /\ proxy'.reply = fromServer[k]
               /\ proxy'.at = IF Kind = "tool" THEN "scan" ELSE "write"
               /\ Subprocess => k = 1 /\ fromServer' = Tail(fromServer)
               /\ ~Subprocess => fromServer' = <<>>
      BY <2>2
    <3>2. FromFine
      <4>1. fromServer # <<>> BY <1>a, <3>1
      <4>2. \A i \in DOMAIN Tail(fromServer) : i + 1 \in DOMAIN fromServer
                                              /\ Tail(fromServer)[i] = fromServer[i + 1]
        BY <1>a, <4>1, Shorter
      <4> QED BY <3>1, <4>2 DEF Scanned
    <3>3. ReplyFine
      <4> SUFFICES ASSUME proxy'.at = "write", fromServer[k].body = "dirty"
                   PROVE  ~Tool(proxy.read) /\ server.spoken > 0
        BY <2>0, <3>1
      <4>1. ~Tool(proxy.read) BY <3>1 DEF Kind
      <4>2. Tool(fromServer[k].of) BY DEF Scanned
      <4>3. proxy'.reply.of # proxy'.read BY <2>0, <3>1, <4>1, <4>2
      <4>4. server'.spoken # 0 BY <2>0, <4>3 DEF InTurn, OwnReply
      <4> QED BY <1>0, <2>0, <4>1, <4>4
    <3> QED BY <1>c, <2>0, <3>2, <3>3
  <2> QED BY <1>4, <2>1, <2>2, AwaitDoes
<1>5. ASSUME ScanOutput PROVE Fine
  <2>1. proxy'.reply.body # "dirty" /\ UNCHANGED <<fromServer, answers>> BY <1>5, ScanDoes
  <2> QED BY <1>b, <1>c, <2>1
<1>6. ASSUME WriteResponse PROVE Fine
  <2>1. /\ proxy.at = "write" /\ proxy'.at = "read" /\ server' = server
        /\ answers' = Append(answers, proxy.reply) /\ UNCHANGED fromServer
    BY <1>6, WriteDoes
  <2>2. proxy.reply \in AReply /\ Len(answers) + 1 = proxy.read
    BY <2>1 DEF ProxyTypes, AProxy, Replied, Messages
  <2>3. \A i \in DOMAIN answers' : \/ i = proxy.read /\ answers'[i] = proxy.reply
                                   \/ i \in DOMAIN answers /\ answers'[i] = answers[i]
    BY <1>a, <2>1, <2>2, Longer
  <2>4. GivenFine BY <2>1, <2>3 DEF Scanned, Kind
  <2> QED BY <1>b, <2>1, <2>4
<1>7. ASSUME Die \/ Close PROVE Fine
  <2>1. /\ proxy' = proxy \/ proxy'.at = "closed"
        /\ UNCHANGED <<fromServer, answers>>
    BY <1>7, DieDoes
  <2> QED BY <1>b, <1>c, <1>d, <2>1
<1>8. ASSUME Serve PROVE Fine
  <2>0. UNCHANGED <<proxy, answers>> BY <1>8, ServeDoes
  <2>1. CASE UNCHANGED fromServer BY <1>b, <1>c, <1>d, <2>0, <2>1
  <2>2. CASE \E reply \in AReply :
               /\ fromServer' = Append(fromServer, reply) /\ reply.of = Head(toServer).of
               /\ reply.body = "dirty" => Head(toServer).kind = "tool"
    <3>1. PICK reply \in AReply :
               /\ fromServer' = Append(fromServer, reply) /\ reply.of = Head(toServer).of
               /\ reply.body = "dirty" => Head(toServer).kind = "tool"
      BY <2>2
    <3>2. Head(toServer) = toServer[1] /\ 1 \in DOMAIN toServer
      BY <1>8, ServeDoes, Shorter DEF ProxyTypes
    <3>3. Head(toServer).kind = link.messages[Head(toServer).of]
      BY <3>2 DEF Ledger, AllGenuine, Genuine
    <3>4. \A k \in DOMAIN fromServer' : \/ fromServer'[k] = reply
                                        \/ k \in DOMAIN fromServer /\ fromServer'[k] = fromServer[k]
      BY <1>a, <3>1, Longer
    <3>5. FromFine BY <3>1, <3>3, <3>4 DEF Scanned
    <3> QED BY <1>c, <1>d, <2>0, <3>5
  <2> QED BY <1>8, <2>1, <2>2, ServeDoes
<1>9. ASSUME Speak PROVE Fine
  <2>0. UNCHANGED <<proxy, answers>> BY <1>9, SpeakDoes
  <2>1. PICK reply \in AReply : fromServer' = Append(fromServer, reply) /\ reply.body = "notice"
    BY <1>9, SpeakDoes
  <2>2. \A k \in DOMAIN fromServer' : \/ fromServer'[k] = reply
                                      \/ k \in DOMAIN fromServer /\ fromServer'[k] = fromServer[k]
    BY <1>a, <2>1, Longer
  <2>3. FromFine BY <2>1, <2>2 DEF Scanned
  <2> QED BY <1>c, <1>d, <2>0, <2>3
<1>10. ASSUME UNCHANGED proxyVars PROVE Fine
  BY <1>b, <1>c, <1>d, <1>10 DEF proxyVars
<1> HIDE DEF Fine
<1> QED BY <1>1, <1>2, <1>3, <1>4, <1>5, <1>6, <1>7, <1>8, <1>9, <1>10 DEF ProxyNext, ProxyRun

-----------------------------------------------------------------------------
(* Whether an answer comes *)

LEMMA WaitingStep ==
  ProxyTypes /\ Ledger /\ NobodyWaitsForNothing /\ [ProxyNext]_proxyVars => NobodyWaitsForNothing'
<1> SUFFICES ASSUME ProxyTypes, Ledger, NobodyWaitsForNothing, [ProxyNext]_proxyVars,
                    proxy'.at = "await"
             PROVE  \/ ~Subprocess \/ ~server'.up \/ toServer' # <<>> \/ fromServer' # <<>>
                    \/ \E i \in 1 .. proxy'.read : link.messages[i] = "notice"
  BY SpeechIsKept DEF NobodyWaitsForNothing
<1>1. CASE ReadRequest BY <1>1, ReadDoes
<1>2. CASE Intercept
  <2>1. PICK v \in Verdicts :
          ProxyStep("judge",
               IF v \in Refusing THEN Failed
               ELSE [proxy EXCEPT !.at = "forward",
                                  !.params = IF v = "MUTATE" THEN "mutated" ELSE @])
    BY <1>2 DEF Intercept
  <2>2. proxy'.at \in {"forward", "write"} BY <2>1, InterceptDoes
  <2> QED BY <2>2
<1>3. CASE Send
  <2>1. server.up BY <1>3, SendDoes
  <2>2. PICK e \in Asked : toServer' = Append(toServer, e) BY <1>3, <2>1, SendDoes
  <2>0. toServer \in Seq(Asked) BY DEF ProxyTypes
  <2>3. toServer' # <<>> BY <2>0, <2>2, Longer
  <2> QED BY <2>3
<1>4. CASE Decode \/ Received BY <1>4, AwaitDoes
<1>5. CASE ScanOutput BY <1>5, ScanDoes
<1>6. CASE WriteResponse BY <1>6, WriteDoes
<1>7. CASE Die \/ Close
  <2>1. ~server'.up BY <1>7, DieDoes
  <2> QED BY <2>1
<1>8. CASE Serve
  <2>0. UNCHANGED proxy BY <1>8, ServeDoes
  <2>1. CASE Head(toServer).kind = "notice"
    <3>1. Head(toServer) = toServer[1] /\ 1 \in DOMAIN toServer
      BY <1>8, ServeDoes, Shorter DEF ProxyTypes
    <3>2. /\ Head(toServer).kind = link.messages[Head(toServer).of]
          /\ Head(toServer).of \in 1 .. Bound(proxy)
      BY <3>1 DEF Ledger, AllGenuine, Genuine
    <3>3. Bound(proxy) = proxy.read BY <2>0 DEF Bound
    <3> QED BY <2>0, <2>1, <3>2, <3>3
  <2>2. CASE \E reply \in AReply : fromServer' = Append(fromServer, reply)
    <3>1. fromServer \in Seq(AReply) BY DEF ProxyTypes
    <3>2. fromServer' # <<>> BY <2>2, <3>1, Longer
    <3> QED BY <3>2
  <2> QED BY <1>8, <2>1, <2>2, ServeDoes
<1>9. CASE Speak
  <2>1. \E reply \in AReply : fromServer' = Append(fromServer, reply) BY <1>9, SpeakDoes
  <2>2. fromServer \in Seq(AReply) BY DEF ProxyTypes
  <2>3. fromServer' # <<>> BY <2>1, <2>2, Longer
  <2> QED BY <2>3
<1>10. CASE UNCHANGED proxyVars BY <1>10 DEF NobodyWaitsForNothing, proxyVars
<1> QED BY <1>1, <1>2, <1>3, <1>4, <1>5, <1>6, <1>7, <1>8, <1>9, <1>10 DEF ProxyNext, ProxyRun

\* Everybody gets his own answers as long as the server speaks only when asked, no output
\* that would not pass the scan answers a tool call even when it does not, and nobody
\* waits for an answer that is not on its way - but after a notification to a subprocess.
THEOREM ProxyClientsAreServed == ProxySpec => []ClientsAreServed
<1> DEFINE Inv == /\ ProxyTypes /\ InWorkIsJudged /\ Ledger /\ InTurn /\ Scanned
                  /\ NobodyWaitsForNothing
<1>1. ProxyInit => Inv
  <2>1. ProxyInit => NobodyWaitsForNothing BY DEF ProxyInit, ProxyStart, NobodyWaitsForNothing
  <2> QED BY <2>1, ProxyTypesInit, LedgerInit, InTurnInit
<1>2. Inv /\ [ProxyNext]_proxyVars => Inv'
  BY ProxyTypesStep, InWorkStep, LedgerStep, InTurnStep, ScannedStep, WaitingStep
<1>3. Inv => ClientsAreServed
  BY DEF InTurn, OwnAnswers, Scanned, ClientsAreServed, AnswersAreTheirOwn
<1> QED BY <1>1, <1>2, <1>3, PTL DEF ProxySpec

=============================================================================
