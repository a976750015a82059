----------------------------- MODULE MmioProofs -----------------------------
(***************************************************************************)
(* The bounds check of Mmio refuses the accesses outside of the region and *)
(* no other, but for those whose sums wrap, which it may let through; the  *)
(* constructor leaks nothing; and a call that nobody disturbs is atomic:   *)
(* for every base, size, page size and width of size_t.                    *)
(***************************************************************************)
EXTENDS Mmio, TLAPS

\* A sum that does not reach the limit does not wrap.
LEMMA SmallMod ==
  ASSUME NEW k \in Nat \ {0}, NEW n \in Nat, n < k
  PROVE  n % k = n
  OBVIOUS

\* Whole pages cover what they were rounded up from.
LEMMA RoundedUp ==
  ASSUME NEW n \in Nat, NEW p \in Nat \ {0}
  PROVE  /\ ((n + p - 1) \div p) * p \in Int
         /\ n <= ((n + p - 1) \div p) * p
<1> DEFINE a == n + p - 1
<1>1. a \in Nat
  OBVIOUS
<1>2. a = (a \div p) * p + (a % p) /\ a % p \in 0 .. p - 1 /\ a \div p \in Nat
  BY <1>1
<1> QED
  BY <1>2

\* The constructor's sums, made without a wrap.
LEMMA Sizes ==
  /\ Base \in Nat /\ Size \in Nat /\ SizeMax1 \in Nat \ {0}
  /\ Delta \in Nat /\ AlignedSize \in Nat /\ AlignedSize = Size + Delta
  /\ AlignedSize < SizeMax1
  /\ Delta = Base % PageSize /\ Delta < PageSize
<1>1. /\ Base \in Nat /\ Size \in Nat /\ SizeMax1 \in Nat /\ PageSize \in Nat \ {0}
      /\ Base + Size < SizeMax1 /\ AlignedSize < SizeMax1
  BY MmioAssumption
<1>2. Base % PageSize \in 0 .. PageSize - 1
  BY <1>1
<1>3. Delta = Base % PageSize
  BY <1>1, <1>2 DEF Delta, AlignedBase
<1> QED
  BY <1>1, <1>2, <1>3 DEF AlignedSize

\* For an offset whose sums do not wrap, the check that read and write make on
\* sums from the start of the page passes exactly the accesses that lie in the
\* region the constructor was given, and those lie in what was mapped.
LEMMA CheckExact ==
  ASSUME NEW offset \in Nat, NEW len \in Nat, offset + Delta + len < SizeMax1
  PROVE  /\ InBounds(offset, len) <=> offset + len <= Size
         /\ InBounds(offset, len) => BytesOf(Shifted(offset), len) \subseteq Pages(AlignedSize)
<1>1. offset + Delta \in Nat /\ offset + Delta + len \in Nat
      /\ offset + Delta + len < SizeMax1 /\ offset + Delta < SizeMax1
  BY Sizes
<1>2. Shifted(offset) = offset + Delta
  BY <1>1, Sizes, SmallMod DEF Shifted
<1>3. (Shifted(offset) + len) % SizeMax1 = offset + Delta + len
  BY <1>1, <1>2, Sizes, SmallMod
<1>4. InBounds(offset, len) <=> offset + len <= Size
  BY <1>3, Sizes DEF InBounds
<1> DEFINE whole == ((AlignedSize + PageSize - 1) \div PageSize) * PageSize
<1>5. AlignedSize <= whole /\ whole \in Int
  <2>1. PageSize \in Nat \ {0} /\ AlignedSize \in Nat
    BY MmioAssumption, Sizes
  <2> QED
    BY <2>1, RoundedUp, Zenon
<1>6. ASSUME InBounds(offset, len)
      PROVE  BytesOf(Shifted(offset), len) \subseteq Pages(AlignedSize)
  <2> HIDE DEF whole
  <2>1. offset + Delta + len <= AlignedSize
    BY <1>3, <1>6 DEF InBounds
  <2>2. Pages(AlignedSize) = 0 .. whole - 1
    BY <1>5 DEF Pages, BytesOf, whole
  <2>3. BytesOf(Shifted(offset), len) = offset + Delta .. offset + Delta + len - 1
    BY <1>2 DEF BytesOf
  <2>4. ASSUME NEW x \in Nat, NEW y \in Nat, NEW z \in Int, y <= z
        PROVE  x .. y - 1 \subseteq 0 .. z - 1
    BY <2>4
  <2>5. offset + Delta + len <= whole
    BY <2>1, <1>1, <1>5, Sizes
  <2> QED
    BY <2>2, <2>3, <2>4, <2>5, <1>1, <1>5
<1> QED
  BY <1>4, <1>6
-----------------------------------------------------------------------------
(* The descriptor and the mapping. *)

\* What is held after each step of the constructor, and at no other time.
Kept ==
  /\ fd <=> life \in {"opened", "mapped"}
  /\ mapped = IF life \in {"mapped", "alive"} THEN Pages(AlignedSize) ELSE {}

\* Calls leave it so, also the one that ends the process.
LEMMA CallsKept ==
  ASSUME Kept, NEW t \in Threads, NEW c, NEW m, Enters(t, c, m) \/ Continues(t, c, m)
  PROVE  Kept'
<1>1. CASE UNCHANGED <<life, fd, mapped>>
  BY <1>1 DEF Kept
<1>2. CASE life = "alive" /\ life' = "killed" /\ mapped' = {} /\ UNCHANGED fd
  BY <1>2 DEF Kept
<1> QED
  BY <1>1, <1>2 DEF Enters, Continues

LEMMA AlwaysKept == Spec => []Kept
<1>1. Init => Kept
  BY DEF Init, Kept
<1>2. Kept /\ [Next]_vars => Kept'
  <2> SUFFICES ASSUME Kept, [Next]_vars PROVE Kept'
    OBVIOUS
  <2>1. CASE Open
    BY <2>1 DEF Open, Kept
  <2>2. CASE Map
    BY <2>2 DEF Map, Kept
  <2>3. CASE CloseMemory
    BY <2>3 DEF CloseMemory, Unmap, Kept
  <2>4. CASE Destroy
    BY <2>4 DEF Destroy, Unmap, Kept
  <2>5. ASSUME NEW t \in Threads, Read(t) \/ Write(t) PROVE Kept'
    BY <2>5, CallsKept, Zenon DEF Read, Write
  <2>6. ASSUME NEW t \in Threads, Modify(t) PROVE Kept'
    BY <2>6, CallsKept, Zenon DEF Modify
  <2>7. ASSUME NEW t \in Threads, ReadBlock(t) \/ WriteBlock(t) PROVE Kept'
    BY <2>7, CallsKept, Zenon DEF ReadBlock, WriteBlock
  <2>8. CASE UNCHANGED vars
    BY <2>8 DEF Kept, vars
  <2> QED
    BY <2>1, <2>2, <2>3, <2>4, <2>5, <2>6, <2>7, <2>8 DEF Next, Step
<1> QED
  BY <1>1, <1>2, PTL DEF Spec

\* Each error path of the constructor gives back what the steps before it took,
\* by the length that was mapped, so neither a descriptor nor a page is left;
\* and what a living object has mapped covers the region.
THEOREM LeakTheorem == Spec => []NothingLeaked
<1>1. BytesOf(Delta, Size) \subseteq Pages(AlignedSize)
  <2> DEFINE whole == ((AlignedSize + PageSize - 1) \div PageSize) * PageSize
  <2>1. PageSize \in Nat \ {0} /\ AlignedSize \in Nat
    BY MmioAssumption, Sizes
  <2>2. AlignedSize <= whole /\ whole \in Int
    BY <2>1, RoundedUp, Zenon
  <2>3. Pages(AlignedSize) = 0 .. whole - 1
    BY <2>2 DEF Pages, BytesOf, whole
  <2> HIDE DEF whole
  <2> QED
    BY <2>2, <2>3, Sizes DEF BytesOf
<1>2. Kept => NothingLeaked
  BY <1>1 DEF Kept, NothingLeaked
<1> QED
  BY <1>2, AlwaysKept, PTL
-----------------------------------------------------------------------------
(* The invariant. *)

Memory == SUBSET (Int \X Bits)

Ops == {"none", "read", "write", "set", "clear", "read_block", "write_block"}

Calls == [op : Ops, offset : Nat, first : Int, len : Nat,
          at : {"idle", "write", "copy", "threw", "fault"},
          data : Memory, left : SUBSET Int, goal : Memory, calm : BOOLEAN]

\* What RegionExact says of one call.
Region(c) ==
  /\ c.at = "threw" => Outside(c)
  /\ Outside(c) /\ c.at # "threw" => Wraps(c)
  /\ c.at = "fault" => Wraps(c)

\* A region that ends below SIZE_MAX has no access inside whose sums wrap.
LEMMA WrapsOutside ==
  ASSUME NEW c, c.offset \in Nat, c.len \in Nat, Wraps(c) PROVE Outside(c)
BY Sizes DEF Wraps, Outside

\* Calls in their types, each refused exactly when it had to be.
Checked ==
  /\ mem \in Memory
  /\ call \in [Threads -> Calls]
  /\ \A t \in Threads : Region(call[t])

\* A thread without a call satisfies it.
LEMMA NoCallChecked == NoCall \in Calls /\ Region(NoCall)
<1>1. {} \in Memory
  BY DEF Memory
<1>2. NoCall \in Calls
  BY <1>1 DEF NoCall, Calls, Ops
<1>3. NoCall.at = "idle" /\ NoCall.offset = 0 /\ NoCall.len = 0
  BY DEF NoCall
<1>4. ~(0 + 0 > Size)
  BY Sizes
<1>5. Region(NoCall)
  BY <1>3, <1>4 DEF Region, Outside
<1> QED
  BY <1>2, <1>5

\* A step leaves the other calls checked if it leaves its own.
LEMMA StepsChecked ==
  ASSUME Checked, NEW t \in Threads, NEW c \in Calls, Region(c), NEW m \in Memory,
         Steps(t, c, m)
  PROVE  Checked'
<1>1. mem' \in Memory
  BY DEF Steps
<1>2. DOMAIN call' = Threads /\ call' = [u \in Threads |-> call'[u]]
  BY DEF Steps
<1>3. ASSUME NEW u \in Threads
      PROVE  call'[u] \in Calls /\ Region(call'[u])
  <2>1. call'[u] \in {c, call[u], [call[u] EXCEPT !.calm = FALSE], NoCall}
    BY DEF Steps
  <2>2. call[u] \in Calls /\ Region(call[u])
    BY DEF Checked
  <2> DEFINE d == [call[u] EXCEPT !.calm = FALSE]
  <2>3. d \in Calls /\ d.offset = call[u].offset /\ d.len = call[u].len /\ d.at = call[u].at
    BY <2>2 DEF Calls
  <2>4. Region(d)
    BY <2>2, <2>3 DEF Region, Outside, Wraps
  <2> QED
    BY <2>1, <2>2, <2>3, <2>4, NoCallChecked
<1>4. \A u \in Threads : Region(call'[u])
  BY <1>3
<1>5. call' \in [Threads -> Calls]
  BY <1>2, <1>3
<1> QED
  BY <1>1, <1>4, <1>5 DEF Checked, Region, Outside, Wraps

\* Calls begin with the check, so whatever follows it they are checked.
LEMMA EntersChecked ==
  ASSUME Checked, Kept, NEW t \in Threads, NEW c \in Calls, c.first = Shifted(c.offset),
         c.at \notin {"threw", "fault"}, NEW m \in Memory, Enters(t, c, m)
  PROVE  Checked'
<1>1. c.offset \in Nat /\ c.len \in Nat
  BY DEF Calls
<1> DEFINE ended(how) == [NoCall EXCEPT !.offset = c.offset, !.len = c.len, !.at = how]
<1>2. ASSUME NEW how \in {"threw", "fault"}
      PROVE  /\ ended(how) \in Calls
             /\ ended(how).offset = c.offset /\ ended(how).len = c.len /\ ended(how).at = how
  BY <1>1, NoCallChecked DEF Calls
<1>3. mem \in Memory
  BY DEF Checked
<1>4. ~InBounds(c.offset, c.len) => Outside(c)
  <2>1. CASE Wraps(c) BY <1>1, <2>1, WrapsOutside
  <2>2. CASE ~Wraps(c) BY <1>1, <2>2, CheckExact, Sizes DEF Wraps, Outside
  <2> QED BY <2>1, <2>2
<1>5. InBounds(c.offset, c.len) /\ Outside(c) => Wraps(c)
  BY <1>1, CheckExact, Sizes DEF Wraps, Outside
<1>6. mapped = Pages(AlignedSize)
  BY DEF Kept, Enters
<1>7. InBounds(c.offset, c.len) /\ ~(BytesOf(c.first, c.len) \subseteq mapped) => Wraps(c)
  BY <1>1, <1>6, CheckExact, Sizes DEF Wraps
<1>8. CASE ~InBounds(c.offset, c.len) /\ Steps(t, ended("threw"), mem)
  <2>1. Region(ended("threw"))
    BY <1>1, <1>2, <1>8, <1>4 DEF Region, Outside, Wraps
  <2> HIDE DEF ended
  <2> QED
    BY <1>2, <1>3, <1>8, <2>1, StepsChecked
<1>9. CASE InBounds(c.offset, c.len) /\ Steps(t, c, m)
  <2>1. Region(c)
    BY <1>1, <1>9, <1>5 DEF Region, Outside, Wraps
  <2> QED
    BY <1>9, <2>1, StepsChecked
<1>10. CASE /\ InBounds(c.offset, c.len) /\ ~(BytesOf(c.first, c.len) \subseteq mapped)
           /\ Steps(t, ended("fault"), mem)
  <2>1. Region(ended("fault"))
    BY <1>1, <1>2, <1>10, <1>7 DEF Region, Outside, Wraps
  <2> HIDE DEF ended
  <2> QED
    BY <1>2, <1>3, <1>10, <2>1, StepsChecked
<1> QED
  BY <1>8, <1>9, <1>10 DEF Enters
-----------------------------------------------------------------------------
(* The actions. *)

\* What a call starts as.
LEMMA BegunCall ==
  ASSUME NEW op \in Ops, NEW offset \in Offsets, NEW len \in Nat,
         NEW at \in {"idle", "write", "copy"}, NEW data \in Memory, NEW left \in SUBSET Int,
         NEW goal \in Memory
  PROVE  LET c == Begun(op, offset, len, at, data, left, goal)
         IN  c \in Calls /\ c.first = Shifted(c.offset) /\ c.at \notin {"threw", "fault"}
<1>1. offset \in Nat
  BY Sizes, MmioAssumption
<1>2. Shifted(offset) \in Int
  BY <1>1, Sizes DEF Shifted
<1> QED
  BY <1>1, <1>2 DEF Begun, Calls

\* The bits of a register or a block.
LEMMA BitsInMemory ==
  ASSUME NEW offset \in Offsets, NEW len \in Nat
  PROVE  /\ BitsOf(Shifted(offset), len) \in Memory
         /\ BytesOf(Shifted(offset), len) \in SUBSET Int
<1>1. offset \in Nat
  BY Sizes, MmioAssumption
<1>2. Shifted(offset) \in Int
  BY <1>1, Sizes DEF Shifted
<1> QED
  BY <1>1, <1>2 DEF BitsOf, BytesOf, Memory

\* A call that goes on was not refused, and is not now.
LEMMA ContinuesChecked ==
  ASSUME Checked, NEW t \in Threads, call[t].at \in {"write", "copy"},
         NEW c \in Calls, c.offset = call[t].offset, c.len = call[t].len,
         c.at \notin {"threw", "fault"}, NEW m \in Memory, Continues(t, c, m)
  PROVE  Checked'
<1>1. Region(call[t])
  BY DEF Checked
<1>2. Region(c)
  BY <1>1 DEF Region, Outside, Wraps
<1> QED
  BY <1>2, StepsChecked DEF Continues

\* read<T>, which only begins.
LEMMA ReadChecked == ASSUME Checked, Kept, NEW t \in Threads, Read(t) PROVE Checked'
<1>1. PICK offset \in Offsets, w \in Widths :
        LET bits == BitsOf(Shifted(offset), w)
        IN  Enters(t, Begun("read", offset, w, "idle", mem \cap bits, {}, mem \cap bits), mem)
  BY DEF Read
<1> DEFINE bits == BitsOf(Shifted(offset), w)
           c == Begun("read", offset, w, "idle", mem \cap bits, {}, mem \cap bits)
<1>2. w \in Nat /\ mem \in Memory
  BY MmioAssumption DEF Checked
<1>3. mem \cap bits \in Memory
  BY <1>2 DEF Memory
<1>4. "read" \in Ops
  BY DEF Ops
<1>5. c \in Calls /\ c.first = Shifted(c.offset) /\ c.at \notin {"threw", "fault"}
  BY <1>2, <1>3, <1>4, BegunCall
<1> HIDE DEF c
<1> QED
  BY <1>1, <1>2, <1>5, EntersChecked DEF c

\* write<T>, which only begins.
LEMMA WriteChecked == ASSUME Checked, Kept, NEW t \in Threads, Write(t) PROVE Checked'
<1>1. PICK offset \in Offsets, w \in Widths :
        LET bits == BitsOf(Shifted(offset), w)
        IN  \E value \in SUBSET bits :
              Enters(t, Begun("write", offset, w, "idle", {}, {}, value), (mem \ bits) \cup value)
  BY DEF Write
<1> DEFINE bits == BitsOf(Shifted(offset), w)
<1>2. PICK value \in SUBSET bits :
        Enters(t, Begun("write", offset, w, "idle", {}, {}, value), (mem \ bits) \cup value)
  BY <1>1
<1> DEFINE c == Begun("write", offset, w, "idle", {}, {}, value)
           m == (mem \ bits) \cup value
<1>3. w \in Nat /\ mem \in Memory
  BY MmioAssumption DEF Checked
<1>4. bits \in Memory
  BY <1>3, BitsInMemory
<1>5. value \in Memory /\ {} \in Memory /\ m \in Memory
  BY <1>3, <1>4 DEF Memory
<1>6. "write" \in Ops
  BY DEF Ops
<1>7. c \in Calls /\ c.first = Shifted(c.offset) /\ c.at \notin {"threw", "fault"}
  BY <1>3, <1>5, <1>6, BegunCall
<1> HIDE DEF c, m
<1> QED
  BY <1>2, <1>5, <1>7, EntersChecked DEF c, m

\* set and clear: the read, with the check, and the write, without.
LEMMA ModifyChecked == ASSUME Checked, Kept, NEW t \in Threads, Modify(t) PROVE Checked'
<1>1. mem \in Memory /\ call[t] \in Calls
  BY DEF Checked
<1>2. CASE \E op \in {"set", "clear"}, offset \in Offsets, w \in Widths :
             LET bits == BitsOf(Shifted(offset), w)
             IN  \E mask \in SUBSET bits :
                   Enters(t, Begun(op, offset, w, "write", Modified(op, mem \cap bits, mask), {},
                                   {b \in bits : IF b \in mask THEN op = "set" ELSE b \in mem}),
                          mem)
  <2>1. PICK op \in {"set", "clear"}, offset \in Offsets, w \in Widths :
             LET bits == BitsOf(Shifted(offset), w)
             IN  \E mask \in SUBSET bits :
                   Enters(t, Begun(op, offset, w, "write", Modified(op, mem \cap bits, mask), {},
                                   {b \in bits : IF b \in mask THEN op = "set" ELSE b \in mem}),
                          mem)
    BY <1>2
  <2> DEFINE bits == BitsOf(Shifted(offset), w)
  <2>2. PICK mask \in SUBSET bits :
          Enters(t, Begun(op, offset, w, "write", Modified(op, mem \cap bits, mask), {},
                          {b \in bits : IF b \in mask THEN op = "set" ELSE b \in mem}), mem)
    BY <2>1
  <2> DEFINE data == Modified(op, mem \cap bits, mask)
             goal == {b \in bits : IF b \in mask THEN op = "set" ELSE b \in mem}
             c == Begun(op, offset, w, "write", data, {}, goal)
  <2>3. w \in Nat /\ op \in Ops
    BY MmioAssumption DEF Ops
  <2>4. bits \in Memory
    BY <2>3, BitsInMemory
  <2>5. data \in Memory /\ goal \in Memory
    <3> HIDE DEF bits
    <3> QED
      BY <1>1, <2>4 DEF Memory, Modified
  <2> HIDE DEF data, goal
  <2>6. c \in Calls /\ c.first = Shifted(c.offset) /\ c.at \notin {"threw", "fault"}
    BY <2>3, <2>5, BegunCall
  <2>7. Enters(t, c, mem)
    BY <2>2 DEF data, goal
  <2> HIDE DEF c
  <2> QED
    BY <1>1, <2>6, <2>7, EntersChecked
<1>3. CASE /\ call[t].op \in {"set", "clear"} /\ call[t].at = "write"
           /\ Continues(t, [call[t] EXCEPT !.at = "idle", !.data = {}],
                        (mem \ BitsOf(call[t].first, call[t].len)) \cup call[t].data)
  <2> DEFINE c == [call[t] EXCEPT !.at = "idle", !.data = {}]
             m == (mem \ BitsOf(call[t].first, call[t].len)) \cup call[t].data
  <2>1. {} \in Memory /\ call[t].data \in Memory
    BY <1>1 DEF Memory, Calls
  <2>2. m \in Memory
    BY <1>1, <2>1 DEF Memory
  <2>3. /\ c \in Calls /\ c.offset = call[t].offset /\ c.len = call[t].len
        /\ c.at \notin {"threw", "fault"}
    BY <1>1, <2>1 DEF Calls
  <2>4. Continues(t, c, m)
    BY <1>3
  <2> HIDE DEF c, m
  <2> QED
    BY <1>3, <2>2, <2>3, <2>4, ContinuesChecked
<1> QED
  BY <1>2, <1>3 DEF Modify

\* What a block transfer starts as, and what it is after another byte.
LEMMA CopyingCall ==
  ASSUME NEW op \in Ops, NEW offset \in Offsets, NEW len \in Nat, NEW data \in Memory
  PROVE  LET c == Copying(op, offset, len, data)
         IN  c \in Calls /\ c.first = Shifted(c.offset) /\ c.at \notin {"threw", "fault"}
<1> DEFINE at == IF Block(offset, len) = {} THEN "idle" ELSE "copy"
<1>1. Block(offset, len) \in SUBSET Int
  BY BitsInMemory DEF Block
<1>2. at \in {"idle", "write", "copy"}
  OBVIOUS
<1>3. Copying(op, offset, len, data) = Begun(op, offset, len, at, data, Block(offset, len), data)
  BY DEF Copying
<1> HIDE DEF at
<1> QED
  BY <1>1, <1>2, <1>3, BegunCall

\* A copied byte leaves the call what it is about.
LEMMA CopiedCall ==
  ASSUME NEW t \in Threads, call[t] \in Calls, NEW b, NEW data \in Memory
  PROVE  LET c == Copied(t, b, data)
         IN  /\ c \in Calls /\ c.offset = call[t].offset /\ c.len = call[t].len
             /\ c.at \notin {"threw", "fault"}
  BY DEF Copied, Calls

\* The bulk read: the check, and then each byte.
LEMMA ReadBlockChecked == ASSUME Checked, Kept, NEW t \in Threads, ReadBlock(t) PROVE Checked'
<1>1. mem \in Memory /\ call[t] \in Calls /\ {} \in Memory
  BY DEF Checked, Memory
<1>2. ASSUME NEW offset \in Offsets, NEW len \in Lens,
             Enters(t, Copying("read_block", offset, len, {}), mem)
      PROVE  Checked'
  <2>1. len \in Nat /\ "read_block" \in Ops
    BY MmioAssumption DEF Ops
  <2> QED
    BY <1>1, <1>2, <2>1, CopyingCall, EntersChecked
<1>3. ASSUME call[t].at = "copy", NEW b \in call[t].left,
             Continues(t, Copied(t, b, call[t].data \cup (mem \cap ({b} \X Bits))), mem)
      PROVE  Checked'
  <2> DEFINE data == call[t].data \cup (mem \cap ({b} \X Bits))
  <2>1. call[t].data \in Memory
    BY <1>1 DEF Calls
  <2>2. data \in Memory
    BY <1>1, <2>1 DEF Memory
  <2> HIDE DEF data
  <2>3. Continues(t, Copied(t, b, data), mem)
    BY <1>3 DEF data
  <2> QED
    BY <1>1, <1>3, <2>2, <2>3, CopiedCall, ContinuesChecked
<1> QED
  BY <1>2, <1>3 DEF ReadBlock

\* The bulk write: the check, and then each byte.
LEMMA WriteBlockChecked == ASSUME Checked, Kept, NEW t \in Threads, WriteBlock(t) PROVE Checked'
<1>1. mem \in Memory /\ call[t] \in Calls
  BY DEF Checked
<1>2. ASSUME NEW offset \in Offsets, NEW len \in Lens,
             NEW data \in SUBSET BitsOf(Shifted(offset), len),
             Enters(t, Copying("write_block", offset, len, data), mem)
      PROVE  Checked'
  <2>1. len \in Nat /\ "write_block" \in Ops
    BY MmioAssumption DEF Ops
  <2>2. data \in Memory
    BY <2>1, BitsInMemory DEF Memory
  <2> QED
    BY <1>1, <1>2, <2>1, <2>2, CopyingCall, EntersChecked
<1>3. ASSUME call[t].at = "copy", NEW b \in call[t].left,
             Continues(t, Copied(t, b, call[t].data),
                       (mem \ ({b} \X Bits)) \cup (call[t].data \cap ({b} \X Bits)))
      PROVE  Checked'
  <2> DEFINE m == (mem \ ({b} \X Bits)) \cup (call[t].data \cap ({b} \X Bits))
  <2>1. call[t].data \in Memory
    BY <1>1 DEF Calls
  <2>2. m \in Memory
    BY <1>1, <2>1 DEF Memory
  <2> HIDE DEF m
  <2>3. Continues(t, Copied(t, b, call[t].data), m)
    BY <1>3 DEF m
  <2> QED
    BY <1>1, <1>3, <2>1, <2>2, <2>3, CopiedCall, ContinuesChecked
<1> QED
  BY <1>2, <1>3 DEF WriteBlock

LEMMA InitChecked == Init => Checked
<1> SUFFICES ASSUME Init PROVE Checked
  OBVIOUS
<1>1. mem \in Memory
  BY DEF Init, Memory
<1> QED
  BY <1>1, NoCallChecked DEF Init, Checked

LEMMA NextChecked == Checked /\ Kept /\ [Next]_vars => Checked'
<1> SUFFICES ASSUME Checked, Kept, [Next]_vars PROVE Checked'
  OBVIOUS
<1>1. CASE UNCHANGED <<mem, call>>
  BY <1>1 DEF Checked, Region, Outside, Wraps
<1>2. ASSUME NEW t \in Threads, Step(t) PROVE Checked'
  BY <1>2, ReadChecked, WriteChecked, ModifyChecked, ReadBlockChecked, WriteBlockChecked
     DEF Step
<1>3. CASE Open \/ Map \/ CloseMemory \/ Destroy \/ UNCHANGED vars
  BY <1>1, <1>3 DEF Open, Map, CloseMemory, Destroy, vars
<1> QED
  BY <1>2, <1>3 DEF Next

LEMMA AlwaysChecked == Spec => []Checked
  BY InitChecked, NextChecked, AlwaysKept, PTL DEF Spec

\* The object's check on every read and write: for every base, size, page size
\* and width of size_t, no access inside the region throws, one outside does
\* unless its sums wrap, and only one whose sums wrap leaves the mapping.
THEOREM RegionTheorem == Spec => []RegionExact
<1>1. Checked => RegionExact
  BY DEF Checked, Region, RegionExact
<1> QED
  BY <1>1, AlwaysChecked, PTL
-----------------------------------------------------------------------------
(* Atomicity. *)

\* The bits of m that lie in the given bytes.
In(m, bytes) == {b \in m : b[1] \in bytes}

LEMMA InIsPart ==
  ASSUME NEW m \in Memory, NEW bytes \in SUBSET Int
  PROVE  m \cap (bytes \X Bits) = In(m, bytes) /\ In(m, bytes) \in Memory
  BY DEF In, Memory

\* How far a call is: what is to be written is what it should leave; of a block,
\* the bytes that were copied are the same on both sides; and when it is over,
\* the memory is as it should be.
Exact(c, m) ==
  LET block == BytesOf(c.first, c.len)
      done  == block \ c.left
  IN  /\ c.at = "write" => /\ c.op \in {"set", "clear"}
                           /\ c.data = c.goal /\ In(c.data, block) = c.data
      /\ c.at = "copy" =>
           /\ c.op \in {"read_block", "write_block"} /\ c.left \subseteq block
           /\ c.op = "read_block" => In(c.data, done) = c.data
           /\ c.op = "write_block" => c.data = c.goal /\ In(c.data, block) = c.data
           /\ c.calm => In(m, done) = In(c.data, done)
      /\ c.at = "idle" /\ c.calm =>
           In(m, block) = IF c.op = "read_block" THEN c.data ELSE c.goal

Atomic == \A t \in Threads : Exact(call[t], mem)

\* A call is exact as long as nobody touches its bytes, and is not asked to be
\* when somebody does.
LEMMA OthersExact ==
  ASSUME NEW d \in Calls, NEW m \in Memory, NEW n \in Memory, Exact(d, m)
  PROVE  /\ (\A b \in (m \ n) \cup (n \ m) : b[1] \notin BytesOf(d.first, d.len))
              => Exact(d, n)
         /\ d.at \in {"write", "copy"} => Exact([d EXCEPT !.calm = FALSE], n)
         /\ Exact(NoCall, n)
<1> DEFINE block == BytesOf(d.first, d.len)
<1>1. ASSUME \A b \in (m \ n) \cup (n \ m) : b[1] \notin block
      PROVE  Exact(d, n)
  <2>1. In(n, block) = In(m, block) /\ In(n, block \ d.left) = In(m, block \ d.left)
    BY <1>1 DEF In
  <2> QED
    BY <2>1 DEF Exact
<1>2. ASSUME d.at \in {"write", "copy"}
      PROVE  Exact([d EXCEPT !.calm = FALSE], n)
  <2> DEFINE e == [d EXCEPT !.calm = FALSE]
  <2>1. /\ e.first = d.first /\ e.len = d.len /\ e.at = d.at /\ e.op = d.op
        /\ e.data = d.data /\ e.left = d.left /\ e.goal = d.goal /\ e.calm = FALSE
    BY DEF Calls
  <2> HIDE DEF e
  <2> QED
    BY <1>2, <2>1 DEF Exact
<1>3. Exact(NoCall, n)
  BY DEF Exact, NoCall, In, BytesOf
<1> QED
  BY <1>1, <1>2, <1>3

\* A step whose own call is exact leaves every call so.
LEMMA StepsAtomic ==
  ASSUME Checked, Atomic, NEW t \in Threads, NEW c, NEW m \in Memory,
         Exact(c, m), Steps(t, c, m)
  PROVE  Atomic'
<1>1. mem' = m /\ mem \in Memory
  BY DEF Steps, Checked
<1> SUFFICES ASSUME NEW u \in Threads PROVE Exact(call'[u], m)
  BY <1>1 DEF Atomic, Exact
<1>2. CASE u = t
  BY <1>2 DEF Steps
<1>3. CASE u # t
  <2>1. call[u] \in Calls /\ Exact(call[u], mem)
    BY DEF Checked, Atomic
  <2>2. \/ /\ \A b \in (mem \ m) \cup (m \ mem) : b[1] \notin BytesOf(call[u].first, call[u].len)
           /\ call'[u] = call[u]
        \/ call[u].at \in {"write", "copy"} /\ call'[u] = [call[u] EXCEPT !.calm = FALSE]
        \/ call'[u] = NoCall
    BY <1>3 DEF Steps, Busy
  <2> QED
    BY <1>1, <2>1, <2>2, OthersExact
<1> QED
  BY <1>2, <1>3

\* So is one that begins a call, or that is refused.
LEMMA EntersAtomic ==
  ASSUME Checked, Atomic, NEW t \in Threads, NEW c, NEW m \in Memory,
         Exact(c, m), Enters(t, c, m)
  PROVE  Atomic'
<1>1. mem \in Memory
  BY DEF Checked
<1>2. ASSUME NEW how \in {"threw", "fault"}
      PROVE  Exact([NoCall EXCEPT !.offset = c.offset, !.len = c.len, !.at = how], mem)
  BY DEF Exact, NoCall
<1> QED
  BY <1>1, <1>2, StepsAtomic DEF Enters

LEMMA ReadAtomic == ASSUME Checked, Atomic, NEW t \in Threads, Read(t) PROVE Atomic'
<1>1. PICK offset \in Offsets, w \in Widths :
        LET bits == BitsOf(Shifted(offset), w)
        IN  Enters(t, Begun("read", offset, w, "idle", mem \cap bits, {}, mem \cap bits), mem)
  BY DEF Read
<1> DEFINE block == BytesOf(Shifted(offset), w)
           c == Begun("read", offset, w, "idle", mem \cap BitsOf(Shifted(offset), w), {},
                      mem \cap BitsOf(Shifted(offset), w))
<1>2. w \in Nat /\ mem \in Memory
  BY MmioAssumption DEF Checked
<1>3. block \in SUBSET Int /\ BitsOf(Shifted(offset), w) = block \X Bits
  BY <1>2, BitsInMemory DEF BitsOf
<1>4. mem \cap BitsOf(Shifted(offset), w) = In(mem, block)
  BY <1>2, <1>3, InIsPart
<1>5. Exact(c, mem)
  <2> HIDE DEF block
  <2>1. c.first = Shifted(offset) /\ c.len = w /\ c.at = "idle" /\ c.op = "read"
        /\ c.goal = In(mem, block)
    BY <1>4 DEF Begun
  <2> QED
    BY <2>1 DEF Exact, block
<1> QED
  BY <1>1, <1>2, <1>5, EntersAtomic

LEMMA WriteAtomic == ASSUME Checked, Atomic, NEW t \in Threads, Write(t) PROVE Atomic'
<1>1. PICK offset \in Offsets, w \in Widths :
        LET bits == BitsOf(Shifted(offset), w)
        IN  \E value \in SUBSET bits :
              Enters(t, Begun("write", offset, w, "idle", {}, {}, value), (mem \ bits) \cup value)
  BY DEF Write
<1> DEFINE block == BytesOf(Shifted(offset), w)
<1>2. w \in Nat /\ mem \in Memory
  BY MmioAssumption DEF Checked
<1>3. block \in SUBSET Int /\ BitsOf(Shifted(offset), w) = block \X Bits
  BY <1>2, BitsInMemory DEF BitsOf
<1>4. PICK value \in SUBSET (block \X Bits) :
        Enters(t, Begun("write", offset, w, "idle", {}, {}, value),
               (mem \ (block \X Bits)) \cup value)
  BY <1>1, <1>3
<1> DEFINE c == Begun("write", offset, w, "idle", {}, {}, value)
           m == (mem \ (block \X Bits)) \cup value
<1>5. m \in Memory /\ In(m, block) = value
  <2> HIDE DEF block
  <2>1. mem \in Memory /\ block \in SUBSET Int /\ value \subseteq block \X Bits
    BY <1>2, <1>3
  <2> HIDE DEF m
  <2>2. m = (mem \ (block \X Bits)) \cup value
    BY DEF m
  <2> QED
    BY <2>1, <2>2 DEF In, Memory
<1>6. Exact(c, m)
  <2>1. c.first = Shifted(offset) /\ c.len = w /\ c.at = "idle" /\ c.op = "write"
        /\ c.goal = value
    BY DEF Begun
  <2> HIDE DEF c, m
  <2> QED
    BY <1>5, <2>1 DEF Exact
<1> QED
  BY <1>4, <1>5, <1>6, EntersAtomic

\* set and clear compute what they should leave, from one read.
LEMMA ModifyAtomic == ASSUME Checked, Atomic, NEW t \in Threads, Modify(t) PROVE Atomic'
<1>1. mem \in Memory /\ call[t] \in Calls /\ Exact(call[t], mem)
  BY DEF Checked, Atomic
<1>2. ASSUME NEW op \in {"set", "clear"}, NEW offset \in Offsets, NEW w \in Widths,
             NEW mask \in SUBSET BitsOf(Shifted(offset), w),
             Enters(t, Begun(op, offset, w, "write",
                             Modified(op, mem \cap BitsOf(Shifted(offset), w), mask), {},
                             {b \in BitsOf(Shifted(offset), w) :
                                IF b \in mask THEN op = "set" ELSE b \in mem}), mem)
      PROVE  Atomic'
  <2> DEFINE block == BytesOf(Shifted(offset), w)
             bits == BitsOf(Shifted(offset), w)
             data == Modified(op, mem \cap bits, mask)
             goal == {b \in bits : IF b \in mask THEN op = "set" ELSE b \in mem}
             c == Begun(op, offset, w, "write", data, {}, goal)
  <2>1. w \in Nat
    BY MmioAssumption
  <2>2. block \in SUBSET Int /\ bits = block \X Bits
    BY <2>1, BitsInMemory DEF BitsOf
  <2>3. data = goal /\ data \subseteq bits
    <3> HIDE DEF bits
    <3> QED
      BY <1>2 DEF Modified, bits
  <2>4. In(data, block) = data
    <3> HIDE DEF data, bits, block
    <3> QED
      BY <2>2, <2>3 DEF In
  <2>5. c.first = Shifted(offset) /\ c.len = w /\ c.at = "write" /\ c.op = op
        /\ c.data = data /\ c.goal = goal
    BY DEF Begun
  <2>6. Exact(c, mem)
    <3> HIDE DEF c, data, goal
    <3> QED
      BY <1>2, <2>3, <2>4, <2>5 DEF Exact
  <2> QED
    BY <1>1, <1>2, <2>6, EntersAtomic
<1>3. ASSUME call[t].op \in {"set", "clear"}, call[t].at = "write",
             Continues(t, [call[t] EXCEPT !.at = "idle", !.data = {}],
                       (mem \ BitsOf(call[t].first, call[t].len)) \cup call[t].data)
      PROVE  Atomic'
  <2> DEFINE d == call[t]
             block == BytesOf(d.first, d.len)
             c == [d EXCEPT !.at = "idle", !.data = {}]
             m == (mem \ (block \X Bits)) \cup d.data
  <2>1. block \in SUBSET Int /\ BitsOf(d.first, d.len) = block \X Bits
    BY <1>1 DEF Calls, BytesOf, BitsOf
  <2>2. d.data = d.goal /\ In(d.data, block) = d.data /\ d.data \in Memory
    BY <1>1, <1>3 DEF Exact, Calls
  <2>3. d.data \subseteq block \X Bits
    BY <2>1, <2>2, InIsPart
  <2>4. m \in Memory /\ In(m, block) = d.data
    <3> HIDE DEF block, m
    <3>1. m = (mem \ (block \X Bits)) \cup d.data
      BY DEF m
    <3> QED
      BY <1>1, <2>1, <2>3, <3>1 DEF In, Memory
  <2>5. c.first = d.first /\ c.len = d.len /\ c.at = "idle" /\ c.op = d.op /\ c.goal = d.goal
    BY <1>1 DEF Calls
  <2>6. Exact(c, m)
    <3> HIDE DEF c, m
    <3> QED
      BY <1>3, <2>2, <2>4, <2>5 DEF Exact
  <2>7. Steps(t, c, m)
    BY <1>3, <2>1 DEF Continues
  <2> HIDE DEF c, m
  <2> QED
    BY <2>4, <2>6, <2>7, StepsAtomic
<1> QED
  BY <1>2, <1>3 DEF Modify

\* A block transfer that begins has copied nothing.
LEMMA CopyingExact ==
  ASSUME NEW op \in {"read_block", "write_block"}, NEW offset \in Offsets, NEW len \in Nat,
         NEW data \in Memory, In(data, Block(offset, len)) = data,
         op = "read_block" => data = {}, NEW m \in Memory
  PROVE  Exact(Copying(op, offset, len, data), m)
<1> DEFINE c == Copying(op, offset, len, data)
           block == Block(offset, len)
<1>1. /\ c.op = op /\ c.data = data /\ c.goal = data /\ c.left = block
      /\ c.at = (IF block = {} THEN "idle" ELSE "copy")
      /\ BytesOf(c.first, c.len) = block
  BY DEF Copying, Begun, Block
<1>2. block \ block = {} /\ In(m, {}) = {} /\ In(data, {}) = {}
  BY DEF In
<1> HIDE DEF c, block
<1>3. ASSUME block = {} PROVE Exact(c, m)
  <2>1. data = {}
    BY <1>3 DEF In, block
  <2> QED
    BY <1>1, <1>2, <1>3, <2>1 DEF Exact
<1>4. ASSUME block # {} PROVE Exact(c, m)
  <2>1. In(data, block) = data
    BY DEF block
  <2> QED
    BY <1>1, <1>2, <1>4, <2>1 DEF Exact
<1> QED
  BY <1>3, <1>4 DEF c

\* One byte more: as long as nobody disturbs it, what the call has and what the
\* memory has agree on one byte more.
LEMMA CopiedExact ==
  ASSUME Checked, Atomic, NEW t \in Threads, call[t].at = "copy", NEW b \in call[t].left,
         NEW data \in Memory, NEW m \in Memory,
         LET d == call[t]
             done == BytesOf(d.first, d.len) \ d.left
         IN  /\ In(m, done) = In(mem, done) /\ In(data, done) = In(d.data, done)
             /\ In(m, {b}) = In(data, {b})
             /\ IF d.op = "read_block" THEN In(data, done \cup {b}) = data
                                       ELSE data = d.data
  PROVE  Exact(Copied(t, b, data), m)
<1> DEFINE d == call[t]
           c == Copied(t, b, data)
           block == BytesOf(d.first, d.len)
           done == block \ d.left
           more == block \ (d.left \ {b})
<1>1. d \in Calls /\ Exact(d, mem)
  BY DEF Checked, Atomic
<1>2. /\ c.op = d.op /\ c.first = d.first /\ c.len = d.len /\ c.goal = d.goal
      /\ c.calm = d.calm /\ c.data = data /\ c.left = d.left \ {b}
      /\ c.at = (IF d.left = {b} THEN "idle" ELSE "copy")
  BY <1>1 DEF Copied, Calls
<1>3. /\ d.op \in {"read_block", "write_block"} /\ d.left \subseteq block
      /\ d.op = "write_block" => d.data = d.goal /\ In(d.data, block) = d.data
      /\ d.calm => In(mem, done) = In(d.data, done)
  BY <1>1 DEF Exact
<1>4. more = done \cup {b} /\ (d.left = {b} => more = block)
  BY <1>3
<1> HIDE DEF d, c, block, done, more
<1>5. d.calm => In(m, more) = In(data, more)
  <2>1. /\ In(m, more) = In(m, done) \cup In(m, {b})
        /\ In(data, more) = In(data, done) \cup In(data, {b})
    BY <1>4 DEF In
  <2> QED
    BY <1>3, <2>1 DEF d, done, block
<1>6. IF d.op = "read_block" THEN In(data, more) = data ELSE data = d.data
  BY <1>4 DEF d, done, block
<1>7. CASE d.left = {b}
  <2>1. In(data, block) = data /\ (d.op = "write_block" => data = d.goal)
    BY <1>3, <1>4, <1>6, <1>7
  <2>2. c.at = "idle" /\ BytesOf(c.first, c.len) = block
    BY <1>2, <1>7 DEF block
  <2>3. d.calm => In(m, block) = data
    BY <1>4, <1>5, <1>7, <2>1
  <2> QED
    BY <1>2, <1>3, <2>1, <2>2, <2>3 DEF Exact, c
<1>8. CASE d.left # {b}
  <2>1. c.at = "copy" /\ BytesOf(c.first, c.len) = block
    BY <1>2, <1>8 DEF block
  <2>2. block \ c.left = more /\ c.left \subseteq block
    BY <1>2, <1>3 DEF more
  <2> QED
    BY <1>2, <1>3, <1>5, <1>6, <2>1, <2>2 DEF Exact, c
<1> QED
  BY <1>7, <1>8

LEMMA ReadBlockAtomic == ASSUME Checked, Atomic, NEW t \in Threads, ReadBlock(t) PROVE Atomic'
<1>1. mem \in Memory /\ call[t] \in Calls /\ Exact(call[t], mem) /\ {} \in Memory
  BY DEF Checked, Atomic, Memory
<1>2. ASSUME NEW offset \in Offsets, NEW len \in Lens,
             Enters(t, Copying("read_block", offset, len, {}), mem)
      PROVE  Atomic'
  <2>1. len \in Nat /\ In({}, Block(offset, len)) = {}
    BY MmioAssumption DEF In
  <2> QED
    BY <1>1, <1>2, <2>1, CopyingExact, EntersAtomic
<1>3. ASSUME call[t].op = "read_block", call[t].at = "copy", NEW b \in call[t].left,
             Continues(t, Copied(t, b, call[t].data \cup (mem \cap ({b} \X Bits))), mem)
      PROVE  Atomic'
  <2> DEFINE d == call[t]
             done == BytesOf(d.first, d.len) \ d.left
             data == d.data \cup In(mem, {b})
  <2>1. d.data \in Memory /\ b \in Int /\ In(d.data, done) = d.data /\ b \notin done
    BY <1>1, <1>3 DEF Exact, Calls
  <2>2. mem \cap ({b} \X Bits) = In(mem, {b}) /\ In(mem, {b}) \in Memory
    BY <1>1, <2>1, InIsPart
  <2>3. data \in Memory
    BY <2>1, <2>2 DEF Memory
  <2> HIDE DEF d, done
  <2>4. /\ In(data, done) = In(d.data, done) /\ In(mem, {b}) = In(data, {b})
        /\ In(data, done \cup {b}) = data
    BY <2>1 DEF In
  <2> HIDE DEF data
  <2>5. Exact(Copied(t, b, data), mem)
    BY <1>1, <1>3, <2>3, <2>4, CopiedExact DEF d, done
  <2>6. Steps(t, Copied(t, b, data), mem)
    BY <1>3, <2>2 DEF Continues, data, d
  <2> QED
    BY <1>1, <2>5, <2>6, StepsAtomic
<1> QED
  BY <1>2, <1>3 DEF ReadBlock

LEMMA WriteBlockAtomic == ASSUME Checked, Atomic, NEW t \in Threads, WriteBlock(t) PROVE Atomic'
<1>1. mem \in Memory /\ call[t] \in Calls /\ Exact(call[t], mem)
  BY DEF Checked, Atomic
<1>2. ASSUME NEW offset \in Offsets, NEW len \in Lens,
             NEW data \in SUBSET BitsOf(Shifted(offset), len),
             Enters(t, Copying("write_block", offset, len, data), mem)
      PROVE  Atomic'
  <2>1. len \in Nat
    BY MmioAssumption
  <2>2. data \in Memory /\ In(data, Block(offset, len)) = data
    BY <2>1, BitsInMemory DEF Memory, In, Block, BitsOf
  <2> QED
    BY <1>1, <1>2, <2>1, <2>2, CopyingExact, EntersAtomic
<1>3. ASSUME call[t].op = "write_block", call[t].at = "copy", NEW b \in call[t].left,
             Continues(t, Copied(t, b, call[t].data),
                       (mem \ ({b} \X Bits)) \cup (call[t].data \cap ({b} \X Bits)))
      PROVE  Atomic'
  <2> DEFINE d == call[t]
             done == BytesOf(d.first, d.len) \ d.left
             m == (mem \ ({b} \X Bits)) \cup (d.data \cap ({b} \X Bits))
  <2>1. d.data \in Memory /\ b \in Int /\ b \notin done
    BY <1>1, <1>3 DEF Calls
  <2>2. m \in Memory
    BY <1>1, <2>1 DEF Memory
  <2> HIDE DEF d, done
  <2>3. In(m, done) = In(mem, done)
    BY <1>1, <2>1 DEF In, Memory
  <2>4. In(m, {b}) = In(d.data, {b})
    BY <1>1, <2>1 DEF In, Memory
  <2> HIDE DEF m
  <2>5. Exact(Copied(t, b, d.data), m)
    BY <1>1, <1>3, <2>1, <2>2, <2>3, <2>4, CopiedExact DEF d, done
  <2>6. Steps(t, Copied(t, b, d.data), m)
    BY <1>3 DEF Continues, m, d
  <2> QED
    BY <2>2, <2>5, <2>6, StepsAtomic
<1> QED
  BY <1>2, <1>3 DEF WriteBlock

LEMMA AlwaysAtomic == Spec => []Atomic
<1>1. Init => Atomic
  BY DEF Init, Atomic, Exact, NoCall, In, BytesOf
<1>2. Checked /\ Atomic /\ [Next]_vars => Atomic'
  <2> SUFFICES ASSUME Checked, Atomic, [Next]_vars PROVE Atomic'
    OBVIOUS
  <2>1. CASE UNCHANGED <<mem, call>>
    BY <2>1 DEF Atomic, Exact
  <2>2. ASSUME NEW t \in Threads, Step(t) PROVE Atomic'
    BY <2>2, ReadAtomic, WriteAtomic, ModifyAtomic, ReadBlockAtomic, WriteBlockAtomic DEF Step
  <2>3. CASE Open \/ Map \/ CloseMemory \/ Destroy \/ UNCHANGED vars
    BY <2>1, <2>3 DEF Open, Map, CloseMemory, Destroy, vars
  <2> QED
    BY <2>2, <2>3 DEF Next
<1> QED
  BY <1>1, <1>2, AlwaysChecked, PTL DEF Spec

\* For any threads, widths and blocks, a call that nobody disturbs is atomic,
\* although set and clear take two steps and a block one for each byte.
THEOREM AtomicTheorem == Spec => []CallsExact
<1>1. Checked /\ Atomic => CallsExact
  <2> SUFFICES ASSUME Checked, Atomic, NEW t \in Threads,
                      call[t].calm, call[t].at = "idle"
               PROVE  mem \cap BitsOf(call[t].first, call[t].len) =
                        IF call[t].op = "read_block" THEN call[t].data ELSE call[t].goal
    BY DEF CallsExact
  <2> DEFINE block == BytesOf(call[t].first, call[t].len)
  <2>1. mem \in Memory /\ call[t] \in Calls
    BY DEF Checked
  <2>2. block \in SUBSET Int
    BY <2>1 DEF Calls, BytesOf
  <2>3. mem \cap BitsOf(call[t].first, call[t].len) = In(mem, block)
    BY <2>1, <2>2, InIsPart DEF BitsOf
  <2> QED
    BY <2>3 DEF Atomic, Exact
<1> QED
  BY <1>1, AlwaysChecked, AlwaysAtomic, PTL
=============================================================================
