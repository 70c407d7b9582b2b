----------------------------- MODULE MCAccounts -----------------------------
\* Accounts for TLC: names and concurrent requests are interchangeable
EXTENDS Accounts, TLC

Symmetry == Permutations(Names) \cup Permutations(Acceptors)
=============================================================================
