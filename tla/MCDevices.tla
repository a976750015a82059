------------------------------ MODULE MCDevices ------------------------------
(* Small instances of Devices for TLC. *)
EXTENDS Devices, TLC

Port8(parity, handshake) ==
  [baud |-> 9600, databits |-> "Eight", parity |-> parity, stopbits |-> "One",
   handshake |-> handshake]

\* Every value of every argument, with those it might be mixed up with, and one
\* invalid value of each.
SomeRequests ==
  {Port8("Even", "RtsCts"), Port8("Odd", "None"),
   [Port8("None", "RtsCtsXonXoff") EXCEPT !.databits = "Five", !.stopbits = "Two"],
   [Port8("Odd", "XonXoff") EXCEPT !.databits = "Six", !.stopbits = "Two", !.baud = 4000000],
   [Port8("Even", "XonXoff") EXCEPT !.databits = "Seven"],
   [Port8("None", "None") EXCEPT !.databits = "Nine"],
   [Port8("None", "None") EXCEPT !.stopbits = "None"],
   Port8("Mark", "None"), Port8("None", "DtrDsr"),
   [Port8("None", "None") EXCEPT !.baud = 0]}

SomeDrivers == {{}, {"CRTSCTS"}}

\* An address alone, with one byte, with too many for the kernel, and with so
\* many that the length is cut to 1; reads of no byte to more than 2^16.
SomeTransfers ==
  {<<WriteMessage(d)>> : d \in {<<>>, <<0, 1>>, <<1, 0>>, <<1, 1, 0>>, <<1, 1, 0, 0, 0>>}}
    \cup {<<ReadMessage(n)>> : n \in {0, 3, 4, 5}}
    \cup {<<WriteMessage(<<a>>), ReadMessage(n)>> : a \in {0, 1}, n \in {1, 2}}
    \cup {<<WriteMessage(<<1>>), ReadMessage(5)>>}
    \cup {<<WriteMessage(<<1>>), WriteMessage(<<0, 1>>), ReadMessage(1)>>}

SomeAccesses == {"ReadWrite", "Append"}

Symmetry == Permutations(Objects)
=============================================================================
