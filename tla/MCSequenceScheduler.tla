------------------------- MODULE MCSequenceScheduler -------------------------
\* Instances of SequenceScheduler for TLC.
EXTENDS SequenceScheduler, TLC

\* Recipients and ticks are interchangeable.
Symmetry == Permutations(Recipients) \cup Permutations(Ticks)

\* One follow-up after the first mail.
One == [s \in 1 .. 1 |-> 0]

\* Three follow-ups with simple conditions or none.
StepMatch == [s \in 1 .. 3 |-> 0]
StepNoMatch == [s \in 1 .. 3 |-> IF s < 3 THEN s + 1 ELSE 0]

\* Two follow-ups, the first of them left out if the rule is not met.
SkipMatch == [s \in 1 .. 2 |-> 0]
SkipNoMatch == [s \in 1 .. 2 |-> IF s = 1 THEN 2 ELSE 0]

\* An acyclic graph: from 1 to 3 or, without a match, to 2; from 3 to 2.
BackMatch == [s \in 1 .. 3 |-> CASE s = 1 -> 3 [] s = 3 -> 2 [] OTHER -> 0]
BackNoMatch == [s \in 1 .. 3 |-> IF s = 1 THEN 2 ELSE 0]
=============================================================================
