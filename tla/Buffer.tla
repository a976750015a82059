------------------------------ MODULE Buffer ------------------------------
(***************************************************************************)
(* mutable_buffer and const_buffer: a view of `size` bytes starting at the *)
(* address `data`, and the functions that make one view from another or    *)
(* from a container.  The two classes have the same members; they differ   *)
(* in whether the bytes may be written, which the field `class` records.   *)
(*                                                                         *)
(* Addresses and sizes are natural numbers.  No width is kept: every sum   *)
(* below is the address of a byte of one object or of its end, and every   *)
(* product the size of an object that exists, so neither wraps.            *)
(***************************************************************************)
EXTENDS Naturals

\* The null pointer an empty vector or string gives.
Null == 0

Views == [data : Nat, size : Nat, class : {"mutable", "const"}]

MutableBuffer(data, size) == [data |-> data, size |-> size, class |-> "mutable"]
ConstBuffer(data, size)   == [data |-> data, size |-> size, class |-> "const"]

\* The converting constructor const_buffer(const mutable_buffer&).
AsConst(b) == ConstBuffer(b.data, b.size)

\* How far a view of b.size bytes moves when asked to move n.
Offset(b, n) == IF n < b.size THEN n ELSE b.size

\* operator+= : the same view object, moved.
AdvanceKeepsSize(b, n) ==
  [data |-> b.data + Offset(b, n), size |-> b.size, class |-> b.class]
Advance(b, n) ==
  [data |-> b.data + Offset(b, n), size |-> b.size - Offset(b, n), class |-> b.class]

\* operator+ : a new view, made from the parts of the old one.
PlusKeepsSize(b, n) ==
  [data |-> b.data + Offset(b, n), size |-> b.size, class |-> b.class]
Plus(b, n) ==
  LET offset == IF n < b.size THEN n ELSE b.size
  IN  IF b.class = "mutable" THEN MutableBuffer(b.data + offset, b.size - offset)
                              ELSE ConstBuffer(b.data + offset, b.size - offset)

\* buffer(b, max_size_in_bytes).
LimitToMax(b, max) == [data |-> b.data, size |-> max, class |-> b.class]
Limit(b, max) ==
  [data |-> b.data, size |-> IF b.size < max THEN b.size ELSE max, class |-> b.class]

\* The size a container of n elements of `elem` bytes gives its view: all of
\* it, or the ternary that every overload with max_size_in_bytes repeats.
Bytes(n, elem) == n * elem

BytesUpToLarger(n, elem, max) == IF n * elem < max THEN max ELSE n * elem
BytesUpTo(n, elem, max) == IF n * elem < max THEN n * elem ELSE max

\* buffer(data, size_in_bytes), and buffer(array) for a C array or std::array.
OfMemory(data, bytes, writable) ==
  IF writable THEN MutableBuffer(data, bytes) ELSE ConstBuffer(data, bytes)
OfArray(data, bytes, writable) == OfMemory(data, bytes, writable)

\* buffer(vector): &data[0] only when there is a first element.
OfVector(data, n, bytes, writable) ==
  OfMemory(IF n > 0 THEN data ELSE Null, bytes, writable)

\* buffer(string): a const string gives data(), which is never null.
OfString(data, n, bytes, writable) ==
  OfMemory(IF n > 0 \/ ~writable THEN data ELSE Null, bytes, writable)

\* buffer(string_view): read-only, and null when empty.
OfStringView(data, n, bytes) ==
  OfMemory(IF n > 0 THEN data ELSE Null, bytes, FALSE)
=============================================================================
