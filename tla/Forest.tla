------------------------------- MODULE Forest -------------------------------
(***************************************************************************)
(* What the folders of a knowledge base promise: a forest.  A folder is    *)
(* created under a parent, moved with everything below it, but never to a  *)
(* place below itself, and deleted with everything below it and nothing    *)
(* else.                                                                   *)
(***************************************************************************)
CONSTANTS Folders, Root, Unborn, Gone

VARIABLE parent   \* a folder, Root, or the folder is Unborn or Gone

Init == parent = [f \in Folders |-> Unborn]

Present == {f \in Folders : parent[f] \notin {Unborn, Gone}}

\* f and the folders below it: the least set with f and its members' children.
Below(f) ==
    {g \in Folders : \A S \in SUBSET Folders :
        f \in S /\ (\A h \in Folders : parent[h] \in S => h \in S) => g \in S}

Create(f, p) ==
    /\ parent[f] = Unborn
    /\ p \in Present \cup {Root}
    /\ parent' = [parent EXCEPT ![f] = p]

Move(f, p) ==
    /\ f \in Present
    /\ p \in (Present \cup {Root}) \ Below(f)
    /\ parent' = [parent EXCEPT ![f] = p]

Delete(f) ==
    /\ f \in Present
    /\ parent' = [g \in Folders |-> IF g \in Below(f) THEN Gone ELSE parent[g]]

Next ==
    \E f \in Folders :
        \/ \E p \in Folders \cup {Root} : Create(f, p) \/ Move(f, p)
        \/ Delete(f)

Spec == Init /\ [][Next]_parent

\* Every set of folders has one whose parent is outside of it.
NoCycle ==
    \A S \in SUBSET Present : S # {} => \E f \in S : parent[f] \notin S
=============================================================================
