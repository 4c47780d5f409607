----------------------- MODULE MCConversationBranches -----------------------
EXTENDS ConversationBranches, TLC

\* Requests and answers are only told apart by what happens to them.
Symmetry == Permutations(Requests) \cup Permutations(Answers)

=============================================================================
