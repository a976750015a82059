------------------------------ MODULE MCSerial ------------------------------
(* A small serial port for TLC: two threads calling every member function. *)
EXTENDS Serial, TLC

PortOps == {"read", "read_all", "read_timeout", "read_all_timeout", "write",
            "poll", "flush", "input_waiting", "output_waiting"}

\* One that can be waited for: without a timeout, the timed calls go on as those
\* that have none.
PortTimeouts == {1}

Symmetry == Permutations(Threads)
=============================================================================
