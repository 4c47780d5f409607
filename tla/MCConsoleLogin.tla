--------------------------- MODULE MCConsoleLogin ---------------------------
EXTENDS ConsoleLogin, TLC

\* Names of tokens, codes and requests are only compared.
Symmetry == Permutations(Tokens) \cup Permutations(Codes) \cup Permutations(Clients)

=============================================================================
