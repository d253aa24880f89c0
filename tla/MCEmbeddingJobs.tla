-------------------------- MODULE MCEmbeddingJobs --------------------------
(* The instance of EmbeddingJobs for TLC. *)
EXTENDS EmbeddingJobs, TLC

CONSTANTS s1, c1

SourceOfChunk == c1 :> s1

Symmetry == Permutations(Worker) \cup Permutations(Model)
=============================================================================
