------------------------- MODULE MCQcFinalization -------------------------
(* Small instances of QcFinalization for TLC. *)
EXTENDS QcFinalization, TLC

PromptSymmetry == Permutations(Prompts)
=============================================================================
