------------------------- MODULE MCContinuationChunks -------------------------
(* Fault mixes for model checking ContinuationChunks. *)
EXTENDS ContinuationChunks

AllFaults == {"prompt", "comfy", "crash", "retry", "cancel", "damage", "upgrade",
              "download", "dispatch"}
=============================================================================
