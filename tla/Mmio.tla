-------------------------------- MODULE Mmio --------------------------------
(***************************************************************************)
(* periphery::Mmio: `size` bytes of physical memory at `base`, mapped from *)
(* the start of the page that holds `base`.  The member functions are      *)
(* const, so several threads may be inside one object; set and clear read  *)
(* a register and write it back in a second step.                          *)
(*                                                                         *)
(* Memory is the set of bits that are 1, each named <<address, number>>    *)
(* with the address counted from m_ptr, and the value of a register is the *)
(* set of those that lie in it: the byte order then does not show, and     *)
(* & ~ and | are difference and union.  Offsets wrap as a size_t does.     *)
(***************************************************************************)
EXTENDS Integers, FiniteSets

CONSTANTS
  Threads,    \* threads that use the object
  Base,       \* the constructor's base
  Size,       \* the constructor's size
  PageSize,   \* sysconf(_SC_PAGESIZE)
  SizeMax1,   \* SIZE_MAX + 1, where offsets wrap
  Bits,       \* numbers of the bits of a byte
  Widths,     \* sizeof(T): {1, 2, 4} in the source
  Lens,       \* lengths of bulk transfers
  Offsets,    \* the offsets that callers pass
  CanFail     \* may open, mmap or close fail?

\* From the start of the page of base: base itself, and the end of the region.
AlignedBase == Base - (Base % PageSize)
Delta       == Base - AlignedBase
AlignedSize == Size + Delta

ASSUME MmioAssumption ==
  /\ Base \in Nat /\ Size \in Nat /\ PageSize \in Nat \ {0}
  /\ SizeMax1 \in Nat /\ Base + Size < SizeMax1 /\ AlignedSize < SizeMax1
  /\ Widths \subseteq Nat \ {0} /\ Lens \subseteq 0 .. SizeMax1 - 1
  /\ Offsets \subseteq 0 .. SizeMax1 - 1
  /\ CanFail \in BOOLEAN

VARIABLES
  life,     \* "none", how far the constructor is ("opened", "mapped"), "alive", or
            \* "killed" with the whole process
  fd,       \* is the descriptor of /dev/mem open?
  mapped,   \* the bytes, counted from m_ptr, that are mapped
  mem,      \* the bits that are 1
  call      \* per thread: its current call, or its last one while nobody else
            \* has changed the bytes it is about

vars == <<life, fd, mapped, mem, call>>

\* The bytes and bits of a register or block.
BytesOf(first, len) == first .. first + len - 1
BitsOf(first, len)  == BytesOf(first, len) \X Bits

\* mmap and munmap round a length up to whole pages.
Pages(len) == BytesOf(0, ((len + PageSize - 1) \div PageSize) * PageSize)

\* offset += m_base - m_aligned_base
Shifted(offset) == (offset + Delta) % SizeMax1

\* The check that every read and write begins with.
InBoundsOfSize(offset, len) == (Shifted(offset) + len) % SizeMax1 <= Size
InBounds(offset, len) == (Shifted(offset) + len) % SizeMax1 <= AlignedSize

\* op, the bytes it is about, how far it is, what it has read or will write,
\* and the bytes a block transfer has still to copy.  History: what the bits
\* should be when it returns, and whether nobody else changed them meanwhile.
Begun(op, offset, len, at, data, left, goal) ==
  [op |-> op, offset |-> offset, first |-> Shifted(offset), len |-> len, at |-> at,
   data |-> data, left |-> left, goal |-> goal, calm |-> TRUE]

NoCall == [op |-> "none", offset |-> 0, first |-> 0, len |-> 0, at |-> "idle",
           data |-> {}, left |-> {}, goal |-> {}, calm |-> TRUE]

Busy(t) == call[t].at \in {"write", "copy"}

\* A step of t that leaves its call as c and memory as m.
Steps(t, c, m) ==
  /\ mem' = m
  /\ call' = [u \in Threads |->
       LET d == call[u]
           touched == (mem \ m) \cup (m \ mem)
       IN  IF u = t THEN c
           ELSE IF \A b \in touched : b[1] \notin BytesOf(d.first, d.len) THEN d
           ELSE IF Busy(u) THEN [d EXCEPT !.calm = FALSE] ELSE NoCall]

\* The offset check, and what follows it: an exception, or an access that leaves
\* call c and memory m.  One that goes outside of the mapping meets another one
\* of the process, or nothing, and that ends the process.
Enters(t, c, m) ==
  /\ life = "alive" /\ ~Busy(t)
  /\ \/ /\ ~InBounds(c.offset, c.len)
        /\ Steps(t, [NoCall EXCEPT !.offset = c.offset, !.len = c.len, !.at = "threw"], mem)
        /\ UNCHANGED <<life, mapped>>
     \/ /\ InBounds(c.offset, c.len)
        /\ Steps(t, c, m)
        /\ UNCHANGED <<life, mapped>>
     \/ /\ InBounds(c.offset, c.len) /\ ~(BytesOf(c.first, c.len) \subseteq mapped)
        /\ Steps(t, [NoCall EXCEPT !.offset = c.offset, !.len = c.len, !.at = "fault"], mem)
        /\ life' = "killed" /\ mapped' = {}
  /\ UNCHANGED fd

\* A call goes on.
Continues(t, c, m) == Steps(t, c, m) /\ UNCHANGED <<life, fd, mapped>>
-----------------------------------------------------------------------------
(* Constructor and destructor. *)

Open ==
  /\ life = "none"
  /\ \/ life' = "opened" /\ fd' = TRUE
     \/ CanFail /\ UNCHANGED <<life, fd>>
  /\ UNCHANGED <<mapped, mem, call>>

\* mmap refuses to map no byte at all.
Map ==
  /\ life = "opened"
  /\ \/ /\ AlignedSize > 0
        /\ life' = "mapped" /\ mapped' = Pages(AlignedSize)
        /\ UNCHANGED fd
     \/ /\ CanFail \/ AlignedSize = 0
        /\ life' = "none" /\ fd' = FALSE
        /\ UNCHANGED mapped
  /\ UNCHANGED <<mem, call>>

\* munmap(m_ptr, m_aligned_size)
UnmapSize == mapped' = mapped \ Pages(Size)
Unmap == mapped' = mapped \ Pages(AlignedSize)

\* A close that fails has released the descriptor all the same.
CloseMemory ==
  /\ life = "mapped"
  /\ fd' = FALSE
  /\ \/ life' = "alive" /\ UNCHANGED mapped
     \/ CanFail /\ life' = "none" /\ Unmap
  /\ UNCHANGED <<mem, call>>

\* The program destroys the object when no thread is inside.
Destroy ==
  /\ life = "alive" /\ \A t \in Threads : ~Busy(t)
  /\ life' = "none" /\ Unmap
  /\ UNCHANGED <<fd, mem, call>>
-----------------------------------------------------------------------------
(* The member functions. *)

\* read<T>: one access.
Read(t) ==
  \E offset \in Offsets, w \in Widths :
    LET bits == BitsOf(Shifted(offset), w)
    IN  Enters(t, Begun("read", offset, w, "idle", mem \cap bits, {}, mem \cap bits), mem)

\* write<T>: one access.
Write(t) ==
  \E offset \in Offsets, w \in Widths :
    LET bits == BitsOf(Shifted(offset), w)
    IN  \E value \in SUBSET bits :
          Enters(t, Begun("write", offset, w, "idle", {}, {}, value), (mem \ bits) \cup value)

\* What set and clear write back.
ModifiedSwapped(op, value, mask) ==
  IF op = "set" THEN value \cup mask ELSE value \cap mask
Modified(op, value, mask) ==
  IF op = "set" THEN value \cup mask ELSE value \ mask

\* set and clear: read<T>, then write<T>.
Modify(t) ==
  \/ \E op \in {"set", "clear"}, offset \in Offsets, w \in Widths :
       LET bits == BitsOf(Shifted(offset), w)
       IN  \E mask \in SUBSET bits :
             Enters(t, Begun(op, offset, w, "write", Modified(op, mem \cap bits, mask), {},
                             {b \in bits : IF b \in mask THEN op = "set" ELSE b \in mem}), mem)
  \/ /\ call[t].op \in {"set", "clear"} /\ call[t].at = "write"
     /\ Continues(t, [call[t] EXCEPT !.at = "idle", !.data = {}],
                  (mem \ BitsOf(call[t].first, call[t].len)) \cup call[t].data)

\* The bytes that a block transfer copies.
Block(offset, len) == BytesOf(Shifted(offset), len)

\* memcpy copies byte by byte, in an order of its own.
Copying(op, offset, len, data) ==
  Begun(op, offset, len, IF Block(offset, len) = {} THEN "idle" ELSE "copy", data,
        Block(offset, len), data)

Copied(t, b, data) ==
  [call[t] EXCEPT !.data = data, !.left = @ \ {b},
                  !.at = IF call[t].left = {b} THEN "idle" ELSE "copy"]

ReadBlock(t) ==
  \/ \E offset \in Offsets, len \in Lens :
       Enters(t, Copying("read_block", offset, len, {}), mem)
  \/ /\ call[t].op = "read_block" /\ call[t].at = "copy"
     /\ \E b \in call[t].left :
          Continues(t, Copied(t, b, call[t].data \cup (mem \cap ({b} \X Bits))), mem)

WriteBlock(t) ==
  \/ \E offset \in Offsets, len \in Lens :
       \E data \in SUBSET BitsOf(Shifted(offset), len) :
         Enters(t, Copying("write_block", offset, len, data), mem)
  \/ /\ call[t].op = "write_block" /\ call[t].at = "copy"
     /\ \E b \in call[t].left :
          Continues(t, Copied(t, b, call[t].data),
                    (mem \ ({b} \X Bits)) \cup (call[t].data \cap ({b} \X Bits)))
-----------------------------------------------------------------------------
Init ==
  /\ life = "none" /\ fd = FALSE /\ mapped = {}
  /\ mem = {}
  /\ call = [t \in Threads |-> NoCall]

Step(t) == Read(t) \/ Write(t) \/ Modify(t) \/ ReadBlock(t) \/ WriteBlock(t)

Next == Open \/ Map \/ CloseMemory \/ Destroy \/ \E t \in Threads : Step(t)

Spec == Init /\ [][Next]_vars
-----------------------------------------------------------------------------
(* Properties. *)

\* An access that leaves the region, and one for which the check's sums wrap.
Outside(c) == c.offset + c.len > Size
Wraps(c)   == c.offset + Delta + c.len >= SizeMax1

\* The check is made on sums from the start of the page and stands for the
\* region the constructor was given: no access inside throws, and one outside
\* does, or its sums wrap.  Only such a one can end the process.  That the
\* wrapping ones are refused too is not true: OutsideRefused.
RegionExact ==
  \A t \in Threads :
    LET c == call[t]
    IN  /\ c.at = "threw" => Outside(c)
        /\ Outside(c) /\ c.at # "threw" => Wraps(c)
        /\ c.at = "fault" => Wraps(c)

\* An offset outside of the region throws, as "offset out of bounds" (mmio.cpp:72)
\* says.  The sums of the check wrap, so some offsets near SIZE_MAX do not.
OutsideRefused == \A t \in Threads : Outside(call[t]) => call[t].at = "threw"

\* Undisturbed, a call is atomic, although set and clear take two steps and a
\* block one for each byte: what it read is there, what it wrote is there, and
\* set and clear changed the bits of the mask and no other.
CallsExact ==
  \A t \in Threads :
    LET c == call[t]
        now == mem \cap BitsOf(c.first, c.len)
    IN  c.calm /\ c.at = "idle" => now = IF c.op = "read_block" THEN c.data ELSE c.goal

\* Whatever open, mmap and close do: where there is no object there is neither
\* a descriptor nor a page that nothing would give back, and a living object has
\* its whole region mapped and has given the descriptor back.
NothingLeaked ==
  /\ life \in {"none", "alive", "killed"} => ~fd
  /\ life \in {"none", "killed"} => mapped = {}
  /\ life = "alive" => BytesOf(Delta, Size) \subseteq mapped
=============================================================================
