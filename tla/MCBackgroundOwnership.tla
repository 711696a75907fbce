------------------------ MODULE MCBackgroundOwnership ------------------------
(* Instances of BackgroundOwnership: one tab with one bridge *)
EXTENDS BackgroundOwnership

CONSTANTS t1, b1, f1, f2, o1, o2

\* One tab, one bridge, two frames of different origins.
TwoFrames == [f \in Frame |-> b1]
OneTab == [b \in Bridge |-> t1]
TwoOrigins == [f \in Frame |-> IF f = f1 THEN o1 ELSE o2]
\* Both of one origin.
OneOrigin == [f \in Frame |-> o1]

\* Tokens are interchangeable, and so are revokers.
Symmetry == Permutations(Token) \cup Permutations(Revoker)
=============================================================================
