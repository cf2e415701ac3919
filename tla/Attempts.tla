------------------------------ MODULE Attempts ------------------------------
(***************************************************************************)
(* What a turn promises about asking the model: it asks again while the    *)
(* trouble is transient and attempts are left, and never otherwise; the    *)
(* first answer ends it (ARCHITECTURE_v0.2.md:277-279, core/llm.py).  A    *)
(* turn may also end with its session, and a failed call may end the       *)
(* session only if the adapter is leaky.                                   *)
(***************************************************************************)
EXTENDS Naturals, Sequences

CONSTANT MaxAttempts   \* llm_max_attempts

VARIABLES
  leaky,    \* does the adapter let exceptions of its HTTP library through?
  seen,     \* what the provider really did, call by call
  result    \* of the turn; "open" while it lasts

vars == <<leaky, seen, result>>

Nothing == seen' = <<>> /\ result' = "none"

Init == leaky = FALSE /\ seen = <<>> /\ result = "none"

\* A session begins, with the adapter it is configured for.
Start == result \in {"none", "escaped"} /\ leaky' \in BOOLEAN /\ Nothing

\* The owner or a kill ends it, and with it any turn it was in.
Stop == leaky' = FALSE /\ Nothing

\* A turn begins; there is one at a time.
Begin ==
  /\ result \notin {"open", "escaped"}
  /\ seen' = <<>>
  /\ result' = "open"
  /\ UNCHANGED leaky

\* One call, what came of it, and what that makes of the turn.
Call(what, outcome) ==
  /\ result = "open"
  /\ Len(seen) < MaxAttempts
  /\ seen' = Append(seen, what)
  /\ result' = outcome
  /\ UNCHANGED leaky

Reply  == Call("answer", "reply")
Retry  == Len(seen) + 1 < MaxAttempts /\ Call("transient", "open")
GiveUp == Len(seen) + 1 = MaxAttempts /\ Call("transient", "failure")
Refuse == Call("permanent", "failure")

\* A failed call that is neither tried again nor recorded.
Escape ==
  /\ leaky
  /\ result = "open"
  /\ result' = "escaped"
  /\ seen' = <<>>
  /\ leaky' = FALSE

Next == Start \/ Stop \/ Begin \/ Reply \/ Retry \/ GiveUp \/ Refuse \/ Escape

Spec == Init /\ [][Next]_vars
=============================================================================
