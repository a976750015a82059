---------------------------- MODULE BufferViews ----------------------------
(***************************************************************************)
(* A program holding views of one container: it makes them with buffer(),  *)
(* derives others with + and buffer(view, max), moves them with +=, hands  *)
(* them on as const_buffer, and now and then changes the container, which  *)
(* may move its elements.  A view records the container's epoch in which   *)
(* it was made; a change of the container ends the epoch, and the views of *)
(* earlier epochs are those the notes in buffer.hpp call invalidated.      *)
(***************************************************************************)
EXTENDS Buffer, Integers

CONSTANTS
  Slots,      \* variables of the program that hold a view
  Kinds,      \* container kinds: subset of AllKinds
  Starts,     \* addresses at which elements may be placed
  MaxElems,   \* bound: elements of the container
  ElemSizes,  \* sizes of one element, in bytes
  Steps,      \* how far + and += move, and the limits given
  MaxEpoch    \* bound: changes of the container

AllKinds == {"array", "vector", "string", "string_view"}

ASSUME BufferViewsAssumption ==
  /\ Kinds \subseteq AllKinds
  /\ Starts \subseteq Nat \ {Null}
  /\ MaxElems \in Nat /\ ElemSizes \subseteq Nat \ {0}
  /\ Steps \subseteq Nat /\ MaxEpoch \in Nat

VARIABLES
  kind,    \* the container's kind
  start,   \* address of its first element
  elems,   \* how many elements it has
  elem,    \* sizeof one element
  epoch,   \* how often its elements may have moved
  view,    \* per slot: the view it holds
  made,    \* per slot: the epoch of that view; -1 for none
  last     \* the operation that gave a slot its view, for the properties

vars == <<kind, start, elems, elem, epoch, view, made, last>>

container == <<kind, start, elems, elem, epoch>>

Hold(s, b, e, how) ==
  /\ view' = [view EXCEPT ![s] = b]
  /\ made' = [made EXCEPT ![s] = e]
  /\ last' = how
  /\ UNCHANGED container

\* buffer(container) and buffer(container, max_size_in_bytes).  A view of a
\* string_view is read-only; other containers may be const or not.
Of(bytes, writable) ==
  CASE kind = "array"       -> OfArray(start, bytes, writable)
    [] kind = "vector"      -> OfVector(start, elems, bytes, writable)
    [] kind = "string"      -> OfString(start, elems, bytes, writable)
    [] kind = "string_view" -> OfStringView(start, elems, bytes)

Make(s) ==
  \E writable \in BOOLEAN :
    \/ Hold(s, Of(Bytes(elems, elem), writable), epoch, "make")
    \/ \E max \in Steps : Hold(s, Of(BytesUpTo(elems, elem, max), writable), epoch, "make")

\* The classes' operations, on a view held in r; += changes r itself.
AddTo(s, r) == \E n \in Steps : Hold(s, Plus(view[r], n), made[r], "derive")
LimitTo(s, r) == \E n \in Steps : Hold(s, Limit(view[r], n), made[r], "derive")
ConstOf(s, r) == Hold(s, AsConst(view[r]), made[r], "derive")
Move(r) == \E n \in Steps : Hold(r, Advance(view[r], n), made[r], "derive")

\* A vector or string changes its size, and its elements may move.
Change ==
  /\ kind \in {"vector", "string"} /\ epoch < MaxEpoch
  /\ epoch' = epoch + 1
  /\ start' \in Starts /\ elems' \in 0..MaxElems
  /\ last' = "change"
  /\ UNCHANGED <<kind, elem, view, made>>

Init ==
  /\ kind \in Kinds /\ start \in Starts /\ elem \in ElemSizes
  /\ elems \in 0..MaxElems /\ (kind = "array" => elems > 0)
  /\ epoch = 0
  /\ view = [s \in Slots |-> ConstBuffer(Null, 0)]
  /\ made = [s \in Slots |-> -1]
  /\ last = "none"

Next ==
  \/ Change
  \/ \E s \in Slots : Make(s) \/ Move(s)
  \/ \E s, r \in Slots : AddTo(s, r) \/ LimitTo(s, r) \/ ConstOf(s, r)

Spec == Init /\ [][Next]_vars
-----------------------------------------------------------------------------
(* Properties. *)

End(b) == b.data + b.size

\* View a covers only bytes that b covers, and may not be written if b may not.
Within(a, b) ==
  /\ b.data <= a.data /\ End(a) <= End(b)
  /\ a.class = "mutable" => b.class = "mutable"

\* The container, as a view.
Whole == MutableBuffer(start, elems * elem)

\* No chain of derivations leads outside the container: a view of the current
\* epoch covers bytes of the container only, or none; and a view of a
\* string_view can never be written through.
ViewsInside ==
  \A s \in Slots :
    made[s] = epoch =>
      /\ view[s].size > 0 => Within(view[s], Whole)
      /\ kind = "string_view" => view[s].class = "const"

\* Deriving a view never widens it: what a slot gets is within a view that was
\* held before, of the same epoch, so const-ness and validity are inherited too.
NeverWidens ==
  [][last' = "derive" =>
       \A s \in Slots : view'[s] # view[s] =>
         \E r \in Slots : Within(view'[s], view[r]) /\ made'[s] = made[r]]_vars

\* Splitting a view at n loses no byte and shares none: buffer(v, n) ends where
\* v + n begins, v + n ends where v does, and += moves v to just that.
SplitExact ==
  \A s \in Slots, n \in Steps :
    LET v == view[s]
    IN  /\ Limit(v, n).data = v.data
        /\ End(Limit(v, n)) = Plus(v, n).data
        /\ End(Plus(v, n)) = End(v)
        /\ Advance(v, n) = Plus(v, n)
=============================================================================
