------------------------------ MODULE DocIndex ------------------------------
(***************************************************************************)
(* What indexing promises to search about one document: at any time at     *)
(* most one version of it can be found, a newer version replaces it in one *)
(* step, the index never goes back to an older version, and a deleted      *)
(* document is never found again.                                          *)
(***************************************************************************)
EXTENDS Naturals

CONSTANT Versions

VARIABLES served,   \* the versions search can return chunks of
          removed   \* the document was deleted

Init == served = {} /\ removed = FALSE

Publish(v) ==
    /\ ~removed
    /\ \A w \in served : w < v
    /\ served' = {v}
    /\ UNCHANGED removed

Remove ==
    /\ ~removed
    /\ served' = {}
    /\ removed' = TRUE

Next == Remove \/ \E v \in Versions : Publish(v)

Spec == Init /\ [][Next]_<<served, removed>>
=============================================================================
