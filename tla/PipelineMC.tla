----------------------------- MODULE PipelineMC -----------------------------
(* Values for model checking Pipeline. *)
EXTENDS Pipeline, TLC

\* Requests are interchangeable.
RequestSymmetry == Permutations(Tasks)
=============================================================================
