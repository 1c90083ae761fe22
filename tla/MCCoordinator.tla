---------------------------- MODULE MCCoordinator ----------------------------
(***************************************************************************)
(* Instances of Coordinator for TLC.                                       *)
(***************************************************************************)
EXTENDS Coordinator, TLC

CONSTANTS w1, w2, first, second

TwoWorkers == {w1, w2}

\* Two encodings of a chunk that differ byte for byte.
TwoEncodings == {first, second}
OneEncoding == {first}

NoChunk == {}
LastChunk == {NChunks}

\* Worker threads and encodings are interchangeable.
WorkerSymmetry == Permutations({w1, w2})
Symmetry == Permutations({w1, w2}) \union Permutations({first, second})
=============================================================================
