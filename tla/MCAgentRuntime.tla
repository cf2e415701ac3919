--------------------------- MODULE MCAgentRuntime ---------------------------
(***************************************************************************)
(* AgentRuntime for TLC: model values for processes and runs.              *)
(***************************************************************************)
EXTENDS AgentRuntime

CONSTANTS p1, p2, p3, r1, r2

TwoProcs   == {p1, p2}
ThreeProcs == {p1, p2, p3}
OneRun     == {r1}
TwoRuns    == {r1, r2}

FreeOrPriced == {0, 2}
Free         == {0}
=============================================================================
