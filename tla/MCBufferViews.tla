--------------------------- MODULE MCBufferViews ---------------------------
(* A small instance of BufferViews: every kind of container. *)
EXTENDS BufferViews, TLC

EveryKind == AllKinds
TwoStarts == {1, 4}
Widths    == {1, 2}
\* Nothing, part of the container, all of it and more than there is.
Amounts   == {0, 1, 3, 5}

Symmetry == Permutations(Slots)
=============================================================================
