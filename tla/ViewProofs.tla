----------------------------- MODULE ViewProofs -----------------------------
(***************************************************************************)
(* Theorems about the views of one container, for any container, any       *)
(* number of views and changes, and moves and limits of any size.          *)
(***************************************************************************)
EXTENDS BufferViews, TLAPS

-----------------------------------------------------------------------------
(* What the operations on views return, for views of any size. *)

\* + makes the view that += would turn the old one into.
LEMMA PlusIsAdvance ==
  ASSUME NEW b \in Views, NEW n \in Nat
  PROVE  Plus(b, n) = Advance(b, n)
<1>1. /\ b.class \in {"mutable", "const"}
      /\ b = [data |-> b.data, size |-> b.size, class |-> b.class]
  BY DEF Views
<1>2. Plus(b, n) = [data |-> b.data + Offset(b, n), size |-> b.size - Offset(b, n),
                    class |-> b.class]
  BY <1>1 DEF Plus, Offset, MutableBuffer, ConstBuffer
<1> QED
  BY <1>1, <1>2 DEF Advance

\* buffer(b, max) keeps the front of a view and at most max bytes of it.
LEMMA LimitView ==
  ASSUME NEW b \in Views, NEW n \in Nat
  PROVE  LET c == Limit(b, n)
         IN  /\ c \in Views
             /\ c.data = b.data /\ c.size <= b.size /\ c.size <= n
             /\ c.class = b.class
             /\ n <= b.size => c.size = n
  BY DEF Views, Limit

\* buffer(b, n) and b + n split b: they meet, and end where b ends.
THEOREM SplitMeets ==
  ASSUME NEW b \in Views, NEW n \in Nat
  PROVE  /\ Limit(b, n).data = b.data
         /\ Limit(b, n).data + Limit(b, n).size = Plus(b, n).data
         /\ Plus(b, n).data + Plus(b, n).size = b.data + b.size
<1>1. Plus(b, n) = Advance(b, n)
  BY PlusIsAdvance
<1> QED
  BY <1>1 DEF Views, Advance, Offset, Limit
-----------------------------------------------------------------------------
(* The program. *)

Typed ==
  /\ kind \in AllKinds /\ start \in Nat /\ elems \in Nat /\ elem \in Nat /\ epoch \in Nat
  /\ view \in [Slots -> Views] /\ made \in [Slots -> Int]

\* A change of the container begins an epoch that no view is of.
Dated == \A s \in Slots : made[s] <= epoch

Sound == Typed /\ Dated /\ ViewsInside

\* A view b of epoch e that may be held in this state.
Fits(b, e) ==
  /\ b \in Views /\ e \in Int /\ e <= epoch
  /\ e = epoch => /\ b.size > 0 => Within(b, Whole)
                  /\ kind = "string_view" => b.class = "const"

\* What lies between a view and the state that it is held in.
LEMMA HeldFits ==
  ASSUME Sound, NEW s \in Slots
  PROVE  Fits(view[s], made[s])
  BY DEF Sound, Typed, Dated, ViewsInside, Fits

\* A view that fits is held soundly.
LEMMA HoldSound ==
  ASSUME Sound, NEW s \in Slots, NEW b, NEW e, NEW how, Fits(b, e), Hold(s, b, e, how)
  PROVE  Sound'
<1>1. /\ UNCHANGED <<kind, start, elems, elem, epoch>>
      /\ view' = [view EXCEPT ![s] = b] /\ made' = [made EXCEPT ![s] = e]
  BY DEF Hold, container
<1>2. Typed' BY <1>1 DEF Sound, Typed, Fits
<1>3. Dated' BY <1>1 DEF Sound, Typed, Dated, Fits
<1>4. ViewsInside'
  <2> SUFFICES ASSUME NEW r \in Slots, made'[r] = epoch
               PROVE  /\ view'[r].size > 0 => Within(view'[r], Whole)
                      /\ kind = "string_view" => view'[r].class = "const"
    BY <1>1 DEF ViewsInside, Whole, MutableBuffer
  <2>1. CASE r = s BY <1>1, <2>1 DEF Sound, Typed, Fits
  <2>2. CASE r # s BY <1>1, <2>2 DEF Sound, Typed, ViewsInside
  <2> QED BY <2>1, <2>2
<1> QED BY <1>2, <1>3, <1>4 DEF Sound

\* The size of a container's elements, whole or limited, is at most its size.
LEMMA SizesFit ==
  ASSUME Sound, NEW max \in Nat
  PROVE  /\ elems * elem \in Nat
         /\ Bytes(elems, elem) \in 0 .. elems * elem
         /\ BytesUpTo(elems, elem, max) \in 0 .. elems * elem
<1>1. elems * elem \in Nat BY DEF Sound, Typed
<1> DEFINE bytes == elems * elem
<1>2. Bytes(elems, elem) = bytes /\ BytesUpTo(elems, elem, max) = IF bytes < max THEN bytes ELSE max
  BY DEF Bytes, BytesUpTo
<1> HIDE DEF bytes
<1> QED BY <1>1, <1>2 DEF bytes

\* buffer(container) gives a view inside the container, and a read-only one of
\* a string_view.
LEMMA OfFits ==
  ASSUME Sound, NEW writable \in BOOLEAN, NEW n \in 0 .. elems * elem
  PROVE  Fits(Of(n, writable), epoch)
<1> DEFINE bytes == elems * elem
<1>1. bytes \in Nat /\ n \in Nat /\ n <= bytes BY SizesFit
<1>2. elems = 0 => bytes = 0 BY DEF Sound, Typed
<1>3. Whole = [data |-> start, size |-> bytes, class |-> "mutable"]
  BY DEF Whole, MutableBuffer
<1>4. PICK d \in Nat, c \in {"mutable", "const"} :
        /\ Of(n, writable) = [data |-> d, size |-> n, class |-> c]
        /\ n > 0 => d = start
        /\ kind = "string_view" => c = "const"
  <2> HIDE DEF bytes
  <2>0. start \in Nat /\ elems \in Nat /\ kind \in AllKinds /\ (elems > 0 \/ n = 0)
    BY <1>1, <1>2 DEF Sound, Typed
  <2> DEFINE Result(d, c) == [data |-> d, size |-> n, class |-> c]
             Class == IF writable THEN "mutable" ELSE "const"
  <2>1. CASE kind = "array"
    <3>1. Of(n, writable) = Result(start, Class)
      BY <2>1 DEF Of, OfArray, OfMemory, MutableBuffer, ConstBuffer
    <3> QED BY <2>0, <2>1, <3>1
  <2>2. CASE kind = "vector"
    <3>1. Of(n, writable) = Result(IF elems > 0 THEN start ELSE Null, Class)
      BY <2>2 DEF Of, OfVector, OfMemory, MutableBuffer, ConstBuffer
    <3> QED BY <2>0, <2>2, <3>1 DEF Null
  <2>3. CASE kind = "string"
    <3>1. Of(n, writable) = Result(IF elems > 0 \/ ~writable THEN start ELSE Null, Class)
      BY <2>3 DEF Of, OfString, OfMemory, MutableBuffer, ConstBuffer
    <3> QED BY <2>0, <2>3, <3>1 DEF Null
  <2>4. CASE kind = "string_view"
    <3>1. Of(n, writable) = Result(IF elems > 0 THEN start ELSE Null, "const")
      BY <2>4 DEF Of, OfStringView, OfMemory, ConstBuffer
    <3> QED BY <2>0, <2>4, <3>1 DEF Null
  <2> QED BY <2>0, <2>1, <2>2, <2>3, <2>4 DEF AllKinds
<1>5. Of(n, writable) \in Views BY <1>1, <1>4 DEF Views
<1>6. n > 0 => Within(Of(n, writable), Whole)
  <2> HIDE DEF bytes
  <2> QED BY <1>1, <1>3, <1>4 DEF Within, End, Sound, Typed
<1> QED BY <1>4, <1>5, <1>6 DEF Fits, Sound, Typed

\* What a view is derived into covers no byte that it does not cover itself,
\* and can be written no more than it.
LEMMA Derived ==
  ASSUME NEW b \in Views, NEW n \in Nat
  PROVE  \A c \in {Plus(b, n), Advance(b, n), Limit(b, n), AsConst(b)} :
           c \in Views /\ Within(c, b) /\ c.size <= b.size
                       /\ (b.class = "const" => c.class = "const")
<1>1. Plus(b, n) = Advance(b, n) /\ Limit(b, n) \in Views
  BY PlusIsAdvance, LimitView
<1>2. /\ Advance(b, n) \in Views /\ Within(Advance(b, n), b)
      /\ Advance(b, n).size <= b.size /\ Advance(b, n).class = b.class
  <2> DEFINE c == Advance(b, n)
  <2>1. /\ c \in Views /\ c.data + c.size = b.data + b.size
        /\ b.data <= c.data /\ c.size <= b.size /\ c.class = b.class
    BY DEF Advance, Offset, Views
  <2> HIDE DEF c
  <2>2. Within(c, b) BY <2>1 DEF Within, End, Views
  <2> QED BY <2>1, <2>2 DEF c
<1>3. Within(Limit(b, n), b) /\ Limit(b, n).size <= b.size /\ Limit(b, n).class = b.class
  <2> DEFINE c == Limit(b, n)
  <2>1. c \in Views /\ c.data = b.data /\ c.size <= b.size /\ c.class = b.class
    BY LimitView
  <2> HIDE DEF c
  <2>2. Within(c, b) BY <2>1 DEF Within, End, Views
  <2> QED BY <2>1, <2>2 DEF c
<1>4. /\ AsConst(b) \in Views /\ Within(AsConst(b), b) /\ AsConst(b).size <= b.size
      /\ AsConst(b).class = "const"
  BY DEF AsConst, ConstBuffer, Views, Within, End
<1> QED BY <1>1, <1>2, <1>3, <1>4

\* One view held in r gives another, which is held in s.
Derives(s, r) ==
  \E c \in Views :
    /\ Within(c, view[r]) /\ c.size <= view[r].size
    /\ view[r].class = "const" => c.class = "const"
    /\ Hold(s, c, made[r], "derive")

LEMMA DerivingSteps ==
  ASSUME Sound, NEW s \in Slots, NEW r \in Slots,
         AddTo(s, r) \/ LimitTo(s, r) \/ ConstOf(s, r) \/ (s = r /\ Move(r))
  PROVE  Derives(s, r)
<1>1. view[r] \in Views BY DEF Sound, Typed
<1>2. PICK n \in Nat :
        \/ Hold(s, Plus(view[r], n), made[r], "derive")
        \/ Hold(s, Limit(view[r], n), made[r], "derive")
        \/ Hold(s, AsConst(view[r]), made[r], "derive")
        \/ Hold(s, Advance(view[r], n), made[r], "derive")
  <2>1. \A n \in Steps : n \in Nat BY BufferViewsAssumption
  <2>2. CASE ConstOf(s, r) BY <2>2 DEF ConstOf
  <2>3. CASE AddTo(s, r) BY <2>1, <2>3 DEF AddTo
  <2>4. CASE LimitTo(s, r) BY <2>1, <2>4 DEF LimitTo
  <2>5. CASE s = r /\ Move(r) BY <2>1, <2>5 DEF Move
  <2> QED BY <2>2, <2>3, <2>4, <2>5
<1> QED BY <1>1, <1>2, Derived DEF Derives

\* Bytes within bytes that lie inside the container lie inside it.
LEMMA DerivesSound ==
  ASSUME Sound, NEW s \in Slots, NEW r \in Slots, Derives(s, r)
  PROVE  Sound'
<1>1. PICK c \in Views :
        /\ Within(c, view[r]) /\ c.size <= view[r].size
        /\ view[r].class = "const" => c.class = "const"
        /\ Hold(s, c, made[r], "derive")
  BY DEF Derives
<1>2. Fits(view[r], made[r]) BY HeldFits
<1>3. Within(view[r], Whole) => Within(c, Whole)
  <2>1. Whole.data \in Nat /\ Whole.size \in Nat
    BY SizesFit DEF Whole, MutableBuffer, Sound, Typed
  <2> QED BY <1>1, <1>2, <2>1 DEF Within, End, Views, Fits
<1>4. Fits(c, made[r])
  BY <1>1, <1>2, <1>3 DEF Fits, Views
<1> QED BY <1>1, <1>4, HoldSound

LEMMA InitSound == Init => Sound
<1> SUFFICES ASSUME Init PROVE Sound
  OBVIOUS
<1>1. Typed
  BY BufferViewsAssumption DEF Init, Typed, Views, ConstBuffer, Null
<1>2. Dated /\ ViewsInside BY DEF Init, Dated, ViewsInside
<1> QED BY <1>1, <1>2 DEF Sound

LEMMA StepSound == Sound /\ [Next]_vars => Sound'
<1> SUFFICES ASSUME Sound, [Next]_vars PROVE Sound'
  OBVIOUS
<1>1. CASE UNCHANGED vars
  BY <1>1 DEF vars, Sound, Typed, Dated, ViewsInside, Whole
<1>2. CASE Change
  <2>1. Typed' BY <1>2, BufferViewsAssumption DEF Change, Sound, Typed
  <2>2. \A s \in Slots : made'[s] < epoch' BY <1>2 DEF Change, Sound, Typed, Dated
  <2>3. Dated' /\ ViewsInside'
    BY <2>1, <2>2 DEF Dated, ViewsInside, Typed
  <2> QED BY <2>1, <2>3 DEF Sound
<1>3. ASSUME NEW s \in Slots, Make(s) PROVE Sound'
  <2>1. PICK writable \in BOOLEAN :
          \/ Hold(s, Of(Bytes(elems, elem), writable), epoch, "make")
          \/ \E max \in Steps : Hold(s, Of(BytesUpTo(elems, elem, max), writable), epoch, "make")
    BY <1>3 DEF Make
  <2>2. \A max \in Steps : max \in Nat BY BufferViewsAssumption
  <2>3. PICK n \in 0 .. elems * elem : Hold(s, Of(n, writable), epoch, "make")
    BY <2>1, <2>2, SizesFit
  <2> QED BY <2>3, OfFits, HoldSound
<1>4. ASSUME NEW s \in Slots, NEW r \in Slots,
             AddTo(s, r) \/ LimitTo(s, r) \/ ConstOf(s, r) \/ (s = r /\ Move(r))
      PROVE  Sound'
  BY <1>4, DerivingSteps, DerivesSound
<1> QED BY <1>1, <1>2, <1>3, <1>4 DEF Next

LEMMA AlwaysSound == Spec => []Sound
  BY InitSound, StepSound, PTL DEF Spec

\* However views are made, moved, limited, added to and handed on, and whatever
\* becomes of the container, a view that buffer.hpp calls valid covers bytes of
\* the container only, and none of a string_view can be written through.
THEOREM InsideTheorem == Spec => []ViewsInside
<1>1. Sound => ViewsInside BY DEF Sound
<1> QED BY <1>1, AlwaysSound, PTL

\* A derived view covers no byte, may be written nowhere and is valid no longer
\* than the one that it is derived from.
THEOREM WidensTheorem == Spec => NeverWidens
<1> DEFINE Narrows ==
      last' = "derive" =>
        \A s \in Slots : view'[s] # view[s] =>
          \E r \in Slots : Within(view'[s], view[r]) /\ made'[s] = made[r]
<1>1. Sound /\ [Next]_vars => [Narrows]_vars
  <2> SUFFICES ASSUME Sound, Next, last' = "derive", NEW s \in Slots, view'[s] # view[s]
               PROVE  \E r \in Slots : Within(view'[s], view[r]) /\ made'[s] = made[r]
    OBVIOUS
  <2>1. PICK q \in Slots, r \in Slots :
          AddTo(q, r) \/ LimitTo(q, r) \/ ConstOf(q, r) \/ (q = r /\ Move(r))
    BY DEF Next, Change, Make, Hold
  <2>2. PICK c \in Views : Within(c, view[r]) /\ Hold(q, c, made[r], "derive")
    BY <2>1, DerivingSteps DEF Derives
  <2>3. q = s BY <2>2 DEF Hold, Sound, Typed
  <2> QED BY <2>2, <2>3 DEF Hold, Sound, Typed
<1> QED BY <1>1, AlwaysSound, PTL DEF Spec, NeverWidens

\* Wherever a view is split, no byte is lost or shared.
THEOREM SplitTheorem == Spec => []SplitExact
<1>1. Sound => SplitExact
  <2> SUFFICES ASSUME Sound, NEW s \in Slots, NEW n \in Steps
               PROVE  LET v == view[s]
                      IN  /\ Limit(v, n).data = v.data
                          /\ End(Limit(v, n)) = Plus(v, n).data
                          /\ End(Plus(v, n)) = End(v)
                          /\ Advance(v, n) = Plus(v, n)
    BY DEF SplitExact
  <2>1. view[s] \in Views /\ n \in Nat BY BufferViewsAssumption DEF Sound, Typed
  <2> QED BY <2>1, SplitMeets, PlusIsAdvance DEF End
<1> QED BY <1>1, AlwaysSound, PTL
=============================================================================
