----------------------------- MODULE MCAccounts -----------------------------
EXTENDS Accounts, TLC

Symmetry == Permutations(Clients) \cup Permutations(Passwords)
=============================================================================
