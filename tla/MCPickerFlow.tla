----------------------------- MODULE MCPickerFlow -----------------------------
(* Values of PickerFlow's constants for TLC: one frame, embedded in the    *)
(* page of another site.                                                   *)
EXTENDS PickerFlow, TLC
Embedded == {<<1, "sub">>}
Sym == Permutations(Req)
=============================================================================
