--------------------------- MODULE LexicalCacheMC ---------------------------
(* Values for model checking LexicalCache. *)
EXTENDS LexicalCache, TLC

\* Searches that name no document, and searches that name one.
Unfiltered == {{}}
AnyFilter == {{}} \cup {{d} : d \in Docs}

Symmetries ==
    Permutations(Docs) \cup Permutations(Versions)
        \cup Permutations(Searchers) \cup Permutations(Indexers)
=============================================================================
