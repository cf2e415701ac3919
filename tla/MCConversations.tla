-------------------------- MODULE MCConversations --------------------------
(***************************************************************************)
(* Conversations for TLC: processes, channels and channel ids are model    *)
(* values; conversations and positions are numbers, for their order.       *)
(***************************************************************************)
EXTENDS Conversations, TLC

CONSTANTS p1, p2, telegram, whatsapp, id1

OneProc      == {p1}
TwoProcs     == {p1, p2}
OneChannel   == {telegram}
TwoChannels  == {telegram, whatsapp}
OneId        == {id1}

OneConv      == 1..1
TwoConvs     == 1..2
FourMoments  == 1..4
FiveMoments  == 1..5

Symmetry == Permutations(Procs) \cup Permutations(Providers)
=============================================================================
