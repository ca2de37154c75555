--------------------------- MODULE MCDiffWorker ---------------------------
(* Instances of DiffWorker for TLC: the prompts are interchangeable. *)
EXTENDS DiffWorker, TLC

PromptSymmetry == Permutations(Prompts)
=============================================================================
