--------------------------- MODULE MCAutoPipeline ---------------------------
(* Instances of AutoPipeline for TLC. *)
EXTENDS AutoPipeline, TLC

\* prompt ids and job ids are interchangeable
IdSymmetry == Permutations(Jobs) \cup Permutations(Prompts)

\* A finished prompt nobody names can only be reused, so what it was is
\* irrelevant to every later step and to every property.
Forgotten(p) == FreePrompt(p)
RelevantView ==
  <<[p \in Prompts |-> IF Forgotten(p) THEN NoPrompt ELSE prompts[p]],
    pipe, status, scene, revision, files, comfyUp, asked, w, g, up, faults>>
=============================================================================
