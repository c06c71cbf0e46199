-------------------------- MODULE MCJobPipeline --------------------------
(* Small instances of JobPipeline for TLC. *)
EXTENDS JobPipeline, TLC

\* Jobs, workers and clients are interchangeable: sound without liveness.
Symmetry == Permutations(Jobs) \cup Permutations(Workers) \cup Permutations(Clients)
=============================================================================
