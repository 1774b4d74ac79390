----------------------------- MODULE MCTaskPage -----------------------------
EXTENDS TaskPage, TLC

Sym == Permutations(Changes \ Early)
=============================================================================
