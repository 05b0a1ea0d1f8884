------------------------- MODULE MCProactiveContext -------------------------
EXTENDS ProactiveContext, TLC

Tasks == Permutations(Task)
=============================================================================
