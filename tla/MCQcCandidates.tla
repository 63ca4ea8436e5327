--------------------------- MODULE MCQcCandidates ---------------------------
(* The quality control of one scene for TLC: the settings a run goes through.   *)
EXTENDS QcCandidates

\* with the operator deciding and drafts first, or automatically and in full quality
MixedSettings == {[auto |-> a, draft |-> ~a] : a \in BOOLEAN}
DraftSettings == {[auto |-> FALSE, draft |-> TRUE]}

\* From the fifth candidate on there is one trouble, a fault or an operation, and not both;
\* the sixth is for lineages without A repairs, and the sixth revision for the sixth candidate.
Narrowing ==
  /\ Len(cands) >= 5 => faults + ops <= 1
  /\ Len(cands) = 6 => OfTier("A1") = {}
  /\ revs = 6 => Len(cands) = 6
=============================================================================
