---------------------------- MODULE MCRecallCache ----------------------------
(***************************************************************************)
(* What two memories may be to the query, and the searches that ask it.    *)
(***************************************************************************)
EXTENDS RecallCache, TLC

Plain == [words |-> TRUE, vector |-> FALSE, sensitive |-> FALSE, from |-> 0]
Far == [Plain EXCEPT !.words = FALSE]
Close == [Far EXCEPT !.vector = TRUE]
Secret == [Plain EXCEPT !.sensitive = TRUE]
Later == [Plain EXCEPT !.from = 1]

AllContents == {Plain, Far, Close, Secret, Later}

Symmetry == Permutations(Ids) \cup Permutations(Requests)
=============================================================================
