---------------------------- MODULE MCRemakeBatches ----------------------------
(* Instances of RemakeBatches for TLC. *)
EXTENDS RemakeBatches

\* one batch that remakes a scene twice, video only and with a new image
Twice == <<<<[scene |-> 1, both |-> FALSE], [scene |-> 1, both |-> TRUE]>>>>
\* a batch of each kind
TwoBatches == <<<<[scene |-> 1, both |-> FALSE]>>, <<[scene |-> 1, both |-> TRUE]>>>>
AllFaults == {"prompt", "comfy", "crash", "dispatch", "restart", "asset", "setting",
              "damage"}
=============================================================================
