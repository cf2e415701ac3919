------------------------------- MODULE MCIds -------------------------------
(***************************************************************************)
(* Ids for TLC: three milliseconds, a counter of two bits seeded with one, *)
(* so that it saturates within a few ids.                                  *)
(***************************************************************************)
EXTENDS Ids

CONSTANTS t1, t2

OneTask   == {t1}
TwoTasks  == {t1, t2}
ThreeMs   == 1..3
OneBit    == 0..1
=============================================================================
