------------------------------- MODULE MCSpi -------------------------------
(* Small instances of Spi for TLC. *)
EXTENDS Spi, TLC

\* No mode bit shared, so that each must be cleared for the other.
TwoModes == {{"CPHA"}, {"CPOL"}}

Settled(mode, order, extra, speed) ==
  [mode |-> mode, order |-> order, extra |-> extra, speed |-> speed, bits |-> 8]

\* With a flag besides the mode, and without: LSB_FIRST stands for CS_HIGH too.
TwoStarts == {Settled({"CPHA"}, "LsbFirst", {}, 1),
              Settled({"CPOL"}, "MsbFirst", {}, 2)}

\* Too much, and a length that is narrowed to one byte.
SomeLens   == {3, 5}

Symmetry == Permutations(Handles)
=============================================================================
