---------------------------- MODULE FolderTreeMC ----------------------------
(* Values for model checking FolderTree. *)
EXTENDS FolderTree, TLC

CONSTANTS a, ab

Unrelated == {}
OneExtends == {<<a, ab>>}

Symmetries == Permutations(Folders) \cup Permutations(Docs) \cup Permutations(Requests)
=============================================================================
