-------------------------- MODULE RunStates_proofs --------------------------
(***************************************************************************)
(* What the edges of agent_state.py guarantee, for the proofs about the    *)
(* runtime to cite.                                                        *)
(***************************************************************************)
EXTENDS RunStates, TLAPS

\* The table is total and stays inside RunState, so TRANSITIONS[current] never
\* raises KeyError (agent_state.py:99-102).
LEMMA TransitionsType == TRANSITIONS \in [RunState -> SUBSET RunState]
  BY DEF TRANSITIONS, RunState

\* A terminal state has no edge out of it (agent_state.py:43-45, 74-76).
LEMMA TerminalIsFinal ==
  ASSUME NEW s \in TERMINAL_STATES, NEW t
  PROVE  ~CanMove(s, t)
  BY DEF RunState, TERMINAL_STATES, CanMove, TRANSITIONS

\* The sweep can close whatever it finds: every live state has an edge to
\* "failed" (agent_state.py:57-61).
LEMMA LiveCanFail ==
  ASSUME NEW s \in OBSERVABILITY_STATES
  PROVE  CanMove(s, "failed")
  BY DEF OBSERVABILITY_STATES, RunState, TERMINAL_STATES, CanMove, TRANSITIONS

\* A reply is only ever committed from "model_calling".
LEMMA RespondingFromModelCalling ==
  ASSUME NEW s \in RunState, CanMove(s, "responding")
  PROVE  s = "model_calling"
  BY DEF RunState, CanMove, TRANSITIONS
=============================================================================
