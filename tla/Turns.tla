------------------------------- MODULE Turns -------------------------------
(***************************************************************************)
(* What a turn promises the owner, with no processes, retries or database: *)
(* a run is opened, then either answered - once, with its reply - or closed *)
(* without one, for good; and the owner is told of an outcome only after it *)
(* is settled, and told the outcome it has.  AgentRuntime implements this  *)
(* as long as no sweep meets a live turn.                                  *)
(***************************************************************************)
EXTENDS Naturals

CONSTANT Runs

VARIABLES
  status,   \* none, open, answered or closed
  replies,  \* assistant messages stored for the run
  told      \* what the owner has seen of it

vars == <<status, replies, told>>

Init ==
  /\ status  = [r \in Runs |-> "none"]
  /\ replies = [r \in Runs |-> 0]
  /\ told    = [r \in Runs |-> "nothing"]

Open(r) ==
  /\ status[r] = "none"
  /\ status' = [status EXCEPT ![r] = "open"]
  /\ UNCHANGED <<replies, told>>

Answer(r) ==
  /\ status[r] = "open"
  /\ status'  = [status EXCEPT ![r] = "answered"]
  /\ replies' = [replies EXCEPT ![r] = @ + 1]
  /\ UNCHANGED told

\* A sweep closes many runs at once.
Close(S) ==
  /\ \A r \in S : status[r] = "open"
  /\ status' = [r \in Runs |-> IF r \in S THEN "closed" ELSE status[r]]
  /\ UNCHANGED <<replies, told>>

Tell(r) ==
  /\ status[r] \in {"answered", "closed"}
  /\ told[r] = "nothing"
  /\ told' = [told EXCEPT ![r] = IF status[r] = "answered" THEN "reply" ELSE "failure"]
  /\ UNCHANGED <<status, replies>>

Next ==
  \/ \E r \in Runs : Open(r) \/ Answer(r) \/ Tell(r)
  \/ \E S \in SUBSET Runs : Close(S)

Spec == Init /\ [][Next]_vars
=============================================================================
