---------------------------- MODULE MCFramePolicy -----------------------------
(* Values of FramePolicy's constants for TLC: no declaration, one for the  *)
(* document's own origin, one for another, none, two declarations, and two *)
(* that may spell one origin differently; and for the chain of documents,  *)
(* none and one that denies.                                               *)
EXTENDS FramePolicy
Declared == {{}, {{"self"}}, {{"b"}}, {{}}, {{"*"}, {"self", "b"}}, {{"self"}, {"a"}}}
Denying == {{}, {{}}}
=============================================================================
