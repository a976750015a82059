-------------------------------- MODULE I2C --------------------------------
(***************************************************************************)
(* periphery::I2C: messages, and the combined transfer of several of them  *)
(* by one ioctl.  The device on the bus is a memory with a pointer, as the *)
(* EEPROM of test-i2c.cpp is: a written message sets the pointer with its  *)
(* first byte and stores the others from there on, a read one reads from   *)
(* the pointer.  Other masters and processes use it too, between transfers.*)
(***************************************************************************)
EXTENDS Descriptors, Sequences, FiniteSetsExt

CONSTANTS
  Cells,      \* the size of the device's memory
  Transfers,  \* bound: the sequences of messages that callers transfer
  LenLimit,   \* 2^16: the kernel's length is a __u16
  KernelMax,  \* the longest message the kernel transfers
  KernelMsgs  \* the most messages it takes at once

\* The device's cells hold what their addresses are written as: one byte each.
ASSUME I2CAssumption ==
  /\ Cells \in Nat \ {0} /\ LenLimit \in Nat \ {0}
  /\ KernelMax \in Nat /\ KernelMsgs \in Nat
  /\ Transfers \subseteq Seq([flags : SUBSET {"I2C_M_RD"}, data : Seq(0 .. Cells - 1)])

VARIABLES
  memory,     \* the device: its cells
  pointer,    \* the device: the cell that is read next
  last        \* the transfer of the last step: how it ended, how many messages the
              \* device served, and if it returned, all of them before and after

busVars == <<memory, pointer, last>>

Addresses == {"device", "nobody"}
Address   == 0 .. Cells - 1

\* Message::write() and Message::read(): flags and data.
WriteMessage(bytes) == [flags |-> {}, data |-> bytes]
ReadMessage(len) == [flags |-> {"I2C_M_RD"}, data |-> [i \in 1..len |-> 0]]

Reads(m) == "I2C_M_RD" \in m.flags

\* struct i2c_msg: the length is cut to 16 bits, buf is the message's data.
PackedUnflagged(addr, m) ==
  [addr |-> addr, flags |-> {}, len |-> Len(m.data) % LenLimit, buf |-> m.data]
PackedReading(addr, m) ==
  [addr |-> addr, flags |-> {"I2C_M_RD"}, len |-> Len(m.data) % LenLimit, buf |-> m.data]
Packed(addr, m) ==
  [addr |-> addr, flags |-> m.flags, len |-> Len(m.data) % LenLimit, buf |-> m.data]

Ended(how) == [how |-> how, count |-> 0, before |-> <<>>, after |-> <<>>]
-----------------------------------------------------------------------------
(* The bus, outside the program. *)

Cell(a, i) == (a + i) % Cells

\* One message after those that left the bus in the state st.
Serve(st, p) ==
  IF Reads(p)
  THEN [mem |-> st.mem, ptr |-> Cell(st.ptr, p.len),
        got |-> Append(st.got, [i \in 1..p.len |-> st.mem[Cell(st.ptr, i - 1)]])]
  ELSE LET at        == IF p.len = 0 THEN st.ptr ELSE p.buf[1]
           stores(a) == {i \in 2..p.len : Cell(at, i - 2) = a}
       IN  [mem |-> [a \in Address |-> IF stores(a) = {} THEN st.mem[a] ELSE p.buf[Max(stores(a))]],
            ptr |-> IF p.len = 0 THEN at ELSE Cell(at, p.len - 1),
            got |-> Append(st.got, <<>>)]

Served(packed) ==
  LET st[i \in 0..Len(packed)] ==
        IF i = 0 THEN [mem |-> memory, ptr |-> pointer, got |-> <<>>]
        ELSE Serve(st[i - 1], packed[i])
  IN  st[Len(packed)]

\* The kernel copies what it read over the buffer, as far as its length says.
Overlaid(buf, got) ==
  [i \in 1 .. (IF Len(got) > Len(buf) THEN Len(got) ELSE Len(buf)) |->
     IF i <= Len(got) THEN got[i] ELSE buf[i]]

\* How many messages the device serves: none if the kernel refuses them or
\* nobody answers, all unless something goes wrong.
Counts(packed) ==
  IF \/ Len(packed) \notin 1..KernelMsgs
     \/ \E i \in 1..Len(packed) : packed[i].len > KernelMax \/ packed[i].addr # "device"
  THEN {0}
  ELSE IF CanFail THEN 0..Len(packed) ELSE {Len(packed)}
-----------------------------------------------------------------------------
(* The member functions. *)

OpenBus(o) == Construct(o, "I2C", "opened")

\* I2C_FUNCS fails, or says that the adapter has no I2C_FUNC_I2C.
QueryFunctions(o) ==
  /\ Is(o, "I2C", "opened")
  /\ \E failed, lacking \in BOOLEAN :
       /\ failed => CanFail
       /\ IF failed \/ lacking THEN Abandon(o) ELSE Complete(o)

CloseBus(o) == Destroy(o, "I2C")

\* transfer_impl() returns: the vectors of the n messages that were served have
\* what was read, the others are as before.
Answered(msgs, n, got) ==
  [how |-> "returned", count |-> n, before |-> msgs,
   after |-> [i \in 1..Len(msgs) |->
     IF i > n THEN msgs[i] ELSE [msgs[i] EXCEPT !.data = Overlaid(@, got[i])]]]

\* transfer_impl(): all the messages in one ioctl.  It fails for a negative
\* result only; a count below that of the messages is taken for success.
Transfer(o) ==
  /\ Is(o, "I2C", "alive")
  /\ \E addr \in Addresses, msgs \in Transfers :
       LET packed == [i \in 1..Len(msgs) |-> Packed(addr, msgs[i])]
       IN  \E n \in Counts(packed) :
             LET st == Served(SubSeq(packed, 1, n))
             IN  /\ memory' = st.mem /\ pointer' = st.ptr
                 /\ \/ n > 0 /\ last' = Answered(msgs, n, st.got)
                    \/ (n < Len(msgs) \/ n = 0) /\ last' = Ended("threw")
  /\ UNCHANGED descriptorVars

\* Another process or master uses the device.
OtherMaster ==
  /\ \/ pointer' \in Address /\ UNCHANGED memory
     \/ \E a \in Address, v \in Address : memory' = [memory EXCEPT ![a] = v] /\ UNCHANGED pointer
  /\ last' = Ended("none")

BusInit ==
  /\ memory \in [Address -> Address]
  /\ pointer \in Address
  /\ last = Ended("none")
-----------------------------------------------------------------------------
(* Properties. *)

\* This step is a transfer of sent that the device completes, of lengths that
\* the kernel's type can hold, and that begins by writing the address a.
Addressed(a, sent) ==
  /\ last'.how = "returned" /\ last'.count = Len(sent)
  /\ \A i \in 1..Len(sent) : Len(sent[i].data) < LenLimit
  /\ ~Reads(sent[1]) /\ sent[1].data # <<>> /\ sent[1].data[1] = a

\* Then it reads: the cells from a on.
RegisterRead(a, sent) ==
  Len(sent) = 2 /\ Len(sent[1].data) = 1 /\ Reads(sent[2])
    => /\ memory' = memory
       /\ \A i \in 1..Len(sent[2].data) : last'.after[2].data[i] = memory[Cell(a, i - 1)]

\* Or it writes: these cells, if there are as many.
RegisterWrite(a, sent) ==
  LET n == Len(sent[1].data) - 1
  IN  Len(sent) = 1 /\ n <= Cells
        => /\ \A i \in 1..n : memory'[Cell(a, i - 1)] = sent[1].data[1 + i]
           /\ \A b \in Address \ {Cell(a, i - 1) : i \in 1..n} : memory'[b] = memory[b]

\* The program of test-i2c.cpp gets what it asks for, also while others move
\* the device's pointer and write to it: an address written and a message read
\* in one transfer give the cells from that address on and change none; an
\* address written with bytes stores these there and nothing else.  For the
\* transfers that the device completes, lengths that fit the kernel's, and no
\* more bytes than the device has cells.
RegisterAccess ==
  [][\A a \in Address : Addressed(a, last'.before)
       => RegisterRead(a, last'.before) /\ RegisterWrite(a, last'.before)]_busVars

\* A transfer keeps every vector's size and changes none that is written; of a
\* vector of 2^16 bytes or more, whose length is cut, it changes nothing behind
\* the length that is left.
NarrowedFront ==
  \A i \in 1..Len(last.before) :
    LET b == last.before[i].data
        a == last.after[i].data
    IN  /\ Len(a) = Len(b)
        /\ \A j \in 1..Len(b) :
             a[j] # b[j] => Reads(last.before[i]) /\ j <= Len(b) % LenLimit
=============================================================================
