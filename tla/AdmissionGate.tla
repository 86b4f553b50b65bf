--------------------------- MODULE AdmissionGate ---------------------------
(***************************************************************************)
(* What a caller of the admission controller may rely on, whatever happens *)
(* inside it: a call it lets in is judged once, the judgement is on record *)
(* before the caller hears of it, and the caller hears what was recorded.  *)
(* Calls whose session token does not verify are turned away unrecorded.   *)
(***************************************************************************)
EXTENDS Naturals, Decisions

CONSTANT Handlers

VARIABLES
  phase,   \* of the call each handler holds
  answer,  \* what was recorded for it
  ledger,  \* records written
  replies  \* calls answered or turned away

gateVars == <<phase, answer, ledger, replies>>

Admit(h) ==
  /\ phase[h] = "free"
  /\ phase' = [phase EXCEPT ![h] = "judging"]
  /\ UNCHANGED <<answer, ledger, replies>>

TurnAway(h) ==
  /\ phase[h] = "free"
  /\ replies' = replies + 1
  /\ UNCHANGED <<phase, answer, ledger>>

Commit(h) ==
  /\ phase[h] = "judging"
  /\ phase' = [phase EXCEPT ![h] = "recorded"]
  /\ \E d \in Decision : answer' = [answer EXCEPT ![h] = d]
  /\ ledger' = ledger + 1
  /\ UNCHANGED replies

Answer(h) ==
  /\ phase[h] = "recorded"
  /\ phase' = [phase EXCEPT ![h] = "free"]
  /\ answer' = [answer EXCEPT ![h] = "ALLOW"]
  /\ replies' = replies + 1
  /\ UNCHANGED ledger

GateInit ==
  /\ phase = [h \in Handlers |-> "free"]
  /\ answer = [h \in Handlers |-> "ALLOW"]
  /\ ledger = 0
  /\ replies = 0

GateNext ==
  \E h \in Handlers : Admit(h) \/ TurnAway(h) \/ Commit(h) \/ Answer(h)

GateSpec == GateInit /\ [][GateNext]_gateVars
=============================================================================
