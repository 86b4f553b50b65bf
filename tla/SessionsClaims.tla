--------------------------- MODULE SessionsClaims ---------------------------
(***************************************************************************)
(* What the repository's documents, comments and messages say of sessions  *)
(* and the code does not keep.                                             *)
(***************************************************************************)
EXTENDS Sessions

\* The limits are minutes: none runs out on a session a registration or the
\* fleet is working on, steps that never block.
Untouched(s) ==
  /\ s \in Managed => reg[s] \in {"unused", "issued", "refused"}
  /\ \A h \in Handlers :
       sess[h] = s => pc[h] \in {"idle", "budget", "agent", "log"}

ClaimSpec ==
  Init /\ [][Next /\ \A s \in AllSessions : TimePasses(s) => Untouched(s)]_vars

\* "Called by DELETE /api/sessions/{id} to make termination immediate": a call
\* that holds the SessionState across the DELETE stores it again.
DeletedSessionsStayDeleted == \A s \in deleted : sessions[s] = 0
=============================================================================
