-------------------------- MODULE MCKnowledgeStore --------------------------
EXTENDS KnowledgeStore, TLC

\* Upload ids, contents and spaces are only compared.
Symmetry == Permutations(Uploads) \cup Permutations(Pieces) \cup Permutations(Spaces)

=============================================================================
