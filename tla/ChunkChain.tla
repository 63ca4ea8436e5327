------------------------------ MODULE ChunkChain ------------------------------
(***************************************************************************)
(* What the continuation renderer promises of one scene: a chain of        *)
(* accepted chunk attempts, which grows at its end, may lose a tail when   *)
(* something below it is found broken, and is published as a scene once,   *)
(* complete, exactly as it stands.  ContinuationChunks implements it.      *)
(***************************************************************************)
EXTENDS Naturals, Sequences

CONSTANT NChunks

VARIABLES chain,      \* numbers of the accepted attempts of chunks 1 .. Len(chain)
          published   \* the chain the finished scene was assembled from, or <<>>

ChainInit == chain = <<>> /\ published = <<>>

Extend == /\ published = <<>> /\ Len(chain) < NChunks
          /\ Len(chain') = Len(chain) + 1
          /\ SubSeq(chain', 1, Len(chain)) = chain
          /\ UNCHANGED published

Truncate == /\ published = <<>>
            /\ \E k \in 0 .. Len(chain) : chain' = SubSeq(chain, 1, k)
            /\ UNCHANGED published

Publish == /\ published = <<>> /\ Len(chain) = NChunks
           /\ published' = chain
           /\ UNCHANGED chain

ChainSpec == ChainInit /\ [][Extend \/ Truncate \/ Publish]_<<chain, published>>
=============================================================================
