-------------------------- MODULE MCRuntimeManager --------------------------
(* Model-checking instance of RuntimeManager: interchangeable worker slots. *)
EXTENDS RuntimeManager, TLC

WorkerSymmetry == Permutations(Workers)
=============================================================================
