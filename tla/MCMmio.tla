------------------------------- MODULE MCMmio -------------------------------
(* A small mapping for TLC: two bytes on either side of a page boundary. *)
EXTENDS Mmio, TLC

\* The region's two bytes, where an access fits or is one byte too long, and an
\* offset for which the check's second sum wraps: the byte before the mapping.
SomeOffsets == {0, 1, 12}

\* With one for which the first sum wraps: a byte of the page, before the region.
WrappingOffsets == {12, 14}

Symmetry == Permutations(Threads)
=============================================================================
