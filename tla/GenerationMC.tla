---------------------------- MODULE GenerationMC ----------------------------
(* Values for model checking Generation: two knowledge bases of one workspace and one of
   another. *)
EXTENDS Generation, TLC

CONSTANTS k1, k2, k3, w1, w2

HomeMC == k1 :> w1 @@ k2 :> w1 @@ k3 :> w2
=============================================================================
