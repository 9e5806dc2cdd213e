---------------------------- MODULE ReadinessMC ----------------------------
(* Values for model checking Readiness: a provider that may select any model, or the second *)
(* only; an index that is empty, half of it by another provider, or without its tables.      *)
EXTENDS Readiness

KeysMC == {AutoKey, 2}
VectorStatesMC == {{}, {"match", "other"}, Unmigrated}
=============================================================================
