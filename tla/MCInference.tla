----------------------------- MODULE MCInference -----------------------------
(* Instances of Inference for TLC. *)
EXTENDS Inference, TLC

WorkerSymmetry == Permutations(Worker)
==============================================================================
