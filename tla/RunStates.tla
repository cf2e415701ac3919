----------------------------- MODULE RunStates -----------------------------
(***************************************************************************)
(* The states of one agent run and the edges between them                  *)
(* (app/core/agent_state.py).  No variables: AgentRuntime drives the       *)
(* machine, RunStates_proofs states what its edges guarantee.              *)
(***************************************************************************)

RunState == {"received", "context_building", "model_calling",
             "model_retry_wait", "responding", "complete", "failed",
             "timed_out"}

TERMINAL_STATES == {"complete", "failed", "timed_out"}

OBSERVABILITY_STATES == RunState \ TERMINAL_STATES

\* The legal edges.  The edges into "failed" from every live state are the
\* ones the sweep relies on.
TRANSITIONS ==
  [s \in RunState |->
     CASE s = "received"         -> {"context_building", "failed"}
       [] s = "context_building" -> {"model_calling", "failed"}
       [] s = "model_calling"    -> {"responding", "model_retry_wait",
                                     "failed", "timed_out"}
       [] s = "model_retry_wait" -> {"model_calling", "failed"}
       [] s = "responding"       -> {"complete", "failed"}
       [] OTHER                  -> {}]

\* assert_transition raises exactly when this is false.
CanMove(from, to) == to \in TRANSITIONS[from]
=============================================================================
