--------------------------- MODULE MCEmailDelivery ---------------------------
\* Instances of EmailDelivery for TLC.
EXTENDS EmailDelivery, TLC

\* Jobs and workers are interchangeable.
Symmetry == Permutations(Jobs) \cup Permutations(Workers)
=============================================================================
