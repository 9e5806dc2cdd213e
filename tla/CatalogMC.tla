----------------------------- MODULE CatalogMC -----------------------------
(* Values for model checking Catalog. *)
EXTENDS Catalog, TLC

Symmetries ==
    Permutations(Docs) \cup Permutations(Uploads) \cup Permutations(Contents)
        \cup Permutations(Requests)

(* A bound on what follows a move across the edge of a folder under deletion: *)
(* it is explored until the deletions under way are over, their files with    *)
(* them.                                                                      *)
Explored ==
    strays # {} => \E r \in Requests : todo[r].kind \in {"delete", "clean"}
=============================================================================
