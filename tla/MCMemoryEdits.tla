---------------------------- MODULE MCMemoryEdits ----------------------------
EXTENDS MemoryEdits, TLC

CONSTANTS p1, p2

\* One client edits and deletes, the other has the requests that wait for a model.
ByClient == (p1 :> {"edit", "purge"}) @@ (p2 :> {"embed", "core", "review"})

\* Texts are only compared.
Symmetry == Permutations(Texts)

=============================================================================
