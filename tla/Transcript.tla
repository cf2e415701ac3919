----------------------------- MODULE Transcript -----------------------------
(***************************************************************************)
(* What a conversation is to its owner: a transcript that only grows at    *)
(* its end, in which an answer stands directly after the message it        *)
(* answers.  Conversations implements it when one process drives turns.    *)
(***************************************************************************)
EXTENDS Sequences

CONSTANT Convs

VARIABLE transcript   \* transcript[c]: the roles of c's messages, in order

Init == transcript = [c \in Convs |-> <<>>]

Ask(c) == transcript' = [transcript EXCEPT ![c] = Append(@, "user")]

Answer(c) ==
  /\ transcript[c] # <<>>
  /\ transcript[c][Len(transcript[c])] = "user"
  /\ transcript' = [transcript EXCEPT ![c] = Append(@, "assistant")]

Next == \E c \in Convs : Ask(c) \/ Answer(c)

Spec == Init /\ [][Next]_transcript
=============================================================================
