-------------------------- MODULE MCFeatureMetrics --------------------------
EXTENDS FeatureMetrics, TLC

CONSTANTS c1, c2

One == {c1}
Two == {c1, c2}

\* No client is told apart from another.
Clients == Permutations(Two)
=============================================================================
