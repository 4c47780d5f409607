--------------------------- MODULE MCRouteFailover ---------------------------
EXTENDS RouteFailover, TLC

\* Two deployments of one account and one of another.
TwoAccounts == [d \in Deployments |-> IF d = "other" THEN "y" ELSE "x"]
AccountFirst == <<"main", "sibling", "other">>

\* A payload fits every deployment, or all but the first target.
AllOrNotMain == {Deployments, Deployments \ {"main"}}

\* Requests are only told apart by what happens to them.
Symmetry == Permutations(Requests)

=============================================================================
