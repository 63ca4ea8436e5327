-------------------------- MODULE MCContinuationPlan --------------------------
(* A scaled-down instance of ContinuationPlan for TLC. *)
EXTENDS ContinuationPlan

\* half a frame up to four windows and a bit, in halves of a frame
ShortScenes == 1 .. 54
ShortBeats == {1, 3, 5, 7, 9, 12, 13, 17, 24}
SomeMoves == {0, 1, 4, 6}
=============================================================================
