----------------------------- MODULE GpioProofs -----------------------------
(***************************************************************************)
(* Theorems about Gpio: who holds which handle, that what a pin reports is *)
(* in effect, that outputs carry what was asked for, and that the lines    *)
(* change hands as LineLeases says, for any pins, lines, descriptor        *)
(* numbers, attributes and failures.                                       *)
(***************************************************************************)
EXTENDS Gpio, FiniteSetTheorems, TLAPS

PinRecords ==
  [fd : Fds \cup {-1}, line : Lines \cup {NoLine}, direction : AllDirections,
   edge : AllEdges, bias : AllBiases, drive : AllDrives, invert : Inverts]

Typed ==
  /\ life \in [Pins -> {"none", "building", "alive"}]
  /\ pin \in [Pins -> PinRecords]
  /\ todo \in [Pins -> SUBSET Attributes]
  /\ \A p \in Pins : todo[p] = {} \/ \E c \in Attributes : todo[p] = {c}
  /\ res \in [Pins -> {"pending", "returned", "threw", "low", "high"}]
  /\ handle \in [Fds -> Handles]
  /\ foreign \subseteq Lines /\ driven \subseteq Lines
  /\ level \in [Lines -> {0, 1}] /\ asked \in [Pins -> {0, 1}]

\* Where a pin is in its life: only a living one, between calls, has a handle.
Staged ==
  \A p \in Pins :
    /\ life[p] # "none" => pin[p].line \in Lines
    /\ pin[p].fd # -1 => life[p] = "alive" /\ todo[p] = {}
    /\ todo[p] # {} => life[p] # "none"

\* The kernel gives a line to one consumer.
Exclusive ==
  \A f \in Fds : IsOpen(f) =>
    /\ handle[f].line \in Lines \ foreign
    /\ \A g \in Fds \ {f} : IsOpen(g) => handle[g].line # handle[f].line

Sound ==
  Typed /\ Staged /\ Exclusive /\ HandleOwned /\ NoHandleLeaked /\ RecordedInEffect

-----------------------------------------------------------------------------
(* The steps, by what they do with handles. *)

\* Only p's members, and not the lines of others, change.
Alone(p) ==
  /\ \A q \in Pins \ {p} : /\ pin'[q] = pin[q] /\ life'[q] = life[q] /\ todo'[q] = todo[q]
                           /\ res'[q] = res[q] /\ asked'[q] = asked[q]
  /\ foreign' = foreign

\* p is without a handle afterwards, and the one it had is closed.
Yields(p) ==
  /\ Alone(p)
  /\ pin'[p].fd = -1
  /\ handle' = IF pin[p].fd >= 0 THEN [handle EXCEPT ![pin[p].fd] = Closed] ELSE handle
  /\ driven' = IF pin[p].fd >= 0 THEN driven \ {handle[pin[p].fd].line} ELSE driven
  /\ level' = level

\* A call that changes no handle, or does not get to it.
Quiet == UNCHANGED <<life, pin, todo, handle, foreign>>

LEMMA Numbers ==
  /\ Fds \subseteq Nat /\ -1 \notin Fds /\ -1 < 0
  /\ \A f \in Fds : f # -1 /\ f >= 0 /\ ~(f < 0)
<1>1. \A f \in Fds : f \in Nat BY GpioAssumption
<1>2. -1 < 0 /\ \A f \in Nat : f # -1 /\ f >= 0 /\ ~(f < 0) OBVIOUS
<1> QED BY <1>1, <1>2, GpioAssumption

\* Members keep their types when one is assigned.
LEMMA Assigned ==
  ASSUME NEW r \in PinRecords, NEW f \in Fds \cup {-1}, NEW l \in Lines \cup {NoLine}
  PROVE  [r EXCEPT !.fd = f] \in PinRecords /\ [r EXCEPT !.fd = f, !.line = l] \in PinRecords
BY DEF PinRecords

LEMMA CloseYields ==
  ASSUME Typed, Staged, NEW p \in Pins, NEW c \in Configs, Ready(p), Close(p, c)
  PROVE  /\ Typed' /\ Staged'
         /\ Yields(p) \/ (Quiet /\ driven' = driven /\ level' = level /\ asked' = asked)
         /\ res' = [res EXCEPT ![p] = "threw"] \/ todo'[p] # {}
<1> USE GpioAssumption, Numbers DEF Typed, Staged
<1>1. c \in Attributes OBVIOUS
<1>2. CASE BiasRefused(c) \/ (pin[p].fd >= 0 /\ ~IsOpen(pin[p].fd))
  BY <1>2 DEF Close, End, Quiet
<1>3. CASE ~(BiasRefused(c) \/ (pin[p].fd >= 0 /\ ~IsOpen(pin[p].fd)))
  <2>1. /\ handle' = IF pin[p].fd >= 0 THEN [handle EXCEPT ![pin[p].fd] = Closed] ELSE handle
        /\ driven' = IF pin[p].fd >= 0 THEN driven \ {handle[pin[p].fd].line} ELSE driven
        /\ pin' = [pin EXCEPT ![p].fd = -1]
        /\ todo' = [todo EXCEPT ![p] = {c}]
        /\ res' = [res EXCEPT ![p] = "pending"]
        /\ UNCHANGED <<life, foreign, level, asked>>
    BY <1>3 DEF Close, CloseFd, End
  <2>2. pin'[p].fd = -1 /\ pin'[p].line = pin[p].line BY <2>1
  <2>3. Yields(p) BY <2>1, <2>2 DEF Yields, Alone
  <2>4. Typed'
    <3>1. Closed \in Handles BY DEF Closed, Handles
    <3>2. handle' \in [Fds -> Handles] BY <2>1, <3>1
    <3>3. pin' \in [Pins -> PinRecords]
      <4>1. pin[p] \in PinRecords /\ pin[p].line \in Lines \cup {NoLine} BY DEF PinRecords
      <4>2. -1 \in Fds \cup {-1} OBVIOUS
      <4>3. [pin[p] EXCEPT !.fd = -1] \in PinRecords BY ONLY <4>1, <4>2, Assigned
      <4> QED BY <2>1, <4>3
    <3>4. \A q \in Pins : todo'[q] = {} \/ \E d \in Attributes : todo'[q] = {d}
      BY <2>1, <1>1
    <3> QED BY <2>1, <1>1, <3>2, <3>3, <3>4
  <2>5. Staged' BY <2>1, <2>2 DEF Ready
  <2> QED BY <2>1, <2>3, <2>4, <2>5
<1> QED BY <1>2, <1>3

LEMMA DestroyYields ==
  ASSUME Typed, Staged, NEW p \in Pins, Destroy(p)
  PROVE  Typed' /\ Staged' /\ Yields(p)
<1> USE GpioAssumption, Numbers DEF Typed, Staged
<1>1. /\ handle' = IF pin[p].fd >= 0 THEN [handle EXCEPT ![pin[p].fd] = Closed] ELSE handle
      /\ driven' = IF pin[p].fd >= 0 THEN driven \ {handle[pin[p].fd].line} ELSE driven
      /\ pin' = [pin EXCEPT ![p] = Blank]
      /\ life' = [life EXCEPT ![p] = "none"]
      /\ res' = [res EXCEPT ![p] = "returned"]
      /\ UNCHANGED <<todo, foreign, level, asked>>
  BY DEF Destroy, CloseFd, End
<1>2. Blank \in PinRecords /\ Blank.fd = -1
  BY DEF Blank, PinWith, PinRecords, AllDirections, AllEdges, AllBiases, AllDrives, Inverts
<1>3. handle' \in [Fds -> Handles]
  <2>1. Closed \in Handles BY DEF Closed, Handles
  <2> QED BY <1>1, <2>1
<1>4. Yields(p) BY <1>1, <1>2 DEF Yields, Alone
<1>5. Typed' BY <1>1, <1>2, <1>3
<1>6. Staged' BY <1>1, <1>2 DEF Destroy, Ready
<1> QED BY <1>4, <1>5, <1>6

LEMMA ConstructYields ==
  ASSUME Typed, Staged, NEW p \in Pins, Construct(p)
  PROVE  /\ Typed' /\ Staged'
         /\ Yields(p) \/ (Quiet /\ driven' = driven /\ level' = level /\ asked' = asked)
         /\ res' = [res EXCEPT ![p] = "threw"] \/ todo'[p] # {}
<1> USE GpioAssumption, Numbers DEF Typed, Staged
<1>1. PICK l \in Lines, c \in Configs :
        IF BiasRefused(c)
        THEN End(p, "threw") /\ UNCHANGED <<life, pin, todo>>
        ELSE /\ life' = [life EXCEPT ![p] = "building"]
             /\ pin' = [pin EXCEPT ![p].fd = -1, ![p].line = l]
             /\ todo' = [todo EXCEPT ![p] = {c}]
             /\ End(p, "pending")
  BY DEF Construct
<1>2. UNCHANGED <<handle, foreign, driven, level, asked>> /\ life[p] = "none" BY DEF Construct
<1>3. CASE BiasRefused(c) BY <1>1, <1>2, <1>3 DEF End, Quiet
<1>4. CASE ~BiasRefused(c)
  <2>1. /\ life' = [life EXCEPT ![p] = "building"]
        /\ pin' = [pin EXCEPT ![p] = [pin[p] EXCEPT !.fd = -1, !.line = l]]
        /\ todo' = [todo EXCEPT ![p] = {c}]
        /\ res' = [res EXCEPT ![p] = "pending"]
    <3>1. pin' = [pin EXCEPT ![p].fd = -1, ![p].line = l] BY <1>1, <1>4
    <3>2. pin' = [pin EXCEPT ![p] = [pin[p] EXCEPT !.fd = -1, !.line = l]] BY <3>1
    <3> QED BY <1>1, <1>4, <3>2 DEF End
  <2> DEFINE r == [pin[p] EXCEPT !.fd = -1, !.line = l]
  <2>2. r \in PinRecords BY Assigned
  <2>3. r.fd = -1 /\ r.line = l BY DEF PinRecords
  <2>4. pin'[p] = r /\ \A q \in Pins \ {p} : pin'[q] = pin[q] BY <2>1
  <2> HIDE DEF r
  <2>5. pin[p].fd = -1 BY <1>2
  <2>6. Yields(p) BY <1>2, <2>1, <2>3, <2>4, <2>5 DEF Yields, Alone
  <2>7. pin' \in [Pins -> PinRecords] BY <2>1, <2>2 DEF r
  <2>8. \A q \in Pins : todo'[q] = {} \/ \E d \in Attributes : todo'[q] = {d}
    BY <2>1
  <2>9. Typed' BY <1>2, <2>1, <2>7, <2>8
  <2>10. Staged' BY <2>1, <2>3, <2>4
  <2> QED BY <2>1, <2>6, <2>9, <2>10
<1> QED BY <1>3, <1>4

\* A pin that yields leaves the others with what they have.
LEMMA YieldsSound ==
  ASSUME Sound, NEW p \in Pins, Yields(p)
  PROVE  Exclusive' /\ HandleOwned' /\ NoHandleLeaked' /\ RecordedInEffect'
<1> USE GpioAssumption, Numbers DEF Sound, Yields
<1>0. \A q \in Pins : pin[q].fd \in Fds \cup {-1} BY DEF Typed, PinRecords
<1>1. \A q \in Pins \ {p} : pin'[q] = pin[q] /\ life'[q] = life[q] BY DEF Alone
<1>2. foreign' = foreign /\ pin'[p].fd = -1 BY DEF Alone
<1>3. \A q \in Pins : Holds(q)' => q # p /\ Holds(q) /\ pin'[q] = pin[q]
  BY <1>1, <1>2 DEF Holds
<1>4. \A q \in Pins \ {p} : Holds(q) => /\ Holds(q)'
                                        /\ pin[p].fd \in Fds => pin[q].fd # pin[p].fd
  <2> SUFFICES ASSUME NEW q \in Pins \ {p}, Holds(q)
               PROVE  Holds(q)' /\ (pin[p].fd \in Fds => pin[q].fd # pin[p].fd)
    OBVIOUS
  <2>1. Holds(q)' BY <1>1 DEF Holds
  <2>2. pin[p].fd \in Fds => pin[p].fd # -1 /\ pin[p].fd >= 0 OBVIOUS
  <2>3. pin[p].fd \in Fds => Holds(p) BY <2>2 DEF Holds, Staged
  <2> QED BY <2>1, <2>3 DEF HandleOwned
<1>5. handle \in [Fds -> Handles] BY DEF Typed
<1>6. \A f \in Fds : handle'[f] = IF f = pin[p].fd THEN Closed ELSE handle[f]
  <2>1. CASE pin[p].fd = -1 BY <2>1
  <2>2. CASE pin[p].fd \in Fds
    <3>1. handle' = [handle EXCEPT ![pin[p].fd] = Closed] BY <2>2
    <3> QED BY <2>2, <3>1, <1>5
  <2> QED BY <1>0, <2>1, <2>2
<1>7. \A f \in Fds : IsOpen(f)' => IsOpen(f) /\ f # pin[p].fd /\ handle'[f] = handle[f]
  BY <1>6 DEF IsOpen, Closed
<1>8. \A q \in Pins : Holds(q)' => /\ pin[q].fd \in Fds /\ handle'[pin[q].fd] = handle[pin[q].fd]
                                   /\ IsOpen(pin[q].fd)' <=> IsOpen(pin[q].fd)
  BY <1>0, <1>3, <1>4, <1>6 DEF Holds, IsOpen
<1>9. Exclusive' BY <1>2, <1>7 DEF Exclusive
<1>10. HandleOwned' BY <1>3, <1>8 DEF HandleOwned
<1>11. NoHandleLeaked'
  <2> SUFFICES ASSUME NEW f \in Fds, IsOpen(f)'
               PROVE  \E q \in Pins : Holds(q)' /\ pin'[q].fd = f
    BY DEF NoHandleLeaked
  <2>1. IsOpen(f) /\ f # pin[p].fd BY <1>7
  <2>2. PICK q \in Pins : Holds(q) /\ pin[q].fd = f BY <2>1 DEF NoHandleLeaked
  <2> QED BY <2>1, <2>2, <1>1, <1>4
<1>12. RecordedInEffect'
  BY <1>3, <1>8 DEF RecordedInEffect, IsOutput, Polarity
<1> QED BY <1>9, <1>10, <1>11, <1>12
-----------------------------------------------------------------------------
(* The request. *)

\* to_request() gives each value its flags, and no attribute another's.
LEMMA FlagsAsAsked ==
  ASSUME NEW c \in Attributes, NEW l \in Lines
  PROVE  /\ Wanted(l, c) \in Handles /\ Wanted(l, c).flags # {} /\ Wanted(l, c).line = l
         /\ IsOutput(Wanted(l, c)) <=> c.direction # "In"
         /\ Polarity(Wanted(l, c)) = c.invert
         /\ "OPEN_DRAIN" \in Wanted(l, c).flags <=> c.drive = "OpenDrain"
         /\ "OPEN_SOURCE" \in Wanted(l, c).flags <=> c.drive = "OpenSource"
         /\ c.direction = "In" =>
              /\ "RISING_EDGE" \in Wanted(l, c).events <=> c.edge \in {"Rising", "Both"}
              /\ "FALLING_EDGE" \in Wanted(l, c).events <=> c.edge \in {"Falling", "Both"}
<1> DEFINE dr == DriveFlags[c.drive]
           iv == InvertFlags[c.invert]
           di == DirectionFlags[c.direction]
           ev == IF c.direction = "In" THEN EdgeFlags[c.edge] ELSE {}
<1>1. dr = IF c.drive = "OpenDrain" THEN {"OPEN_DRAIN"}
           ELSE IF c.drive = "OpenSource" THEN {"OPEN_SOURCE"} ELSE {}
  <2>1. c.drive \in AllDrives BY DEF Attributes
  <2> QED BY <2>1 DEF DriveFlags, AllDrives
<1>2. c.invert \in Inverts /\ iv = IF c.invert = "On" THEN {"ACTIVE_LOW"} ELSE {}
  <2>1. c.invert \in Inverts BY DEF Attributes
  <2> QED BY <2>1 DEF InvertFlags, Inverts
<1>3. di = IF c.direction = "In" THEN {"INPUT"} ELSE {"OUTPUT"}
  <2>1. c.direction \in AllDirections BY DEF Attributes
  <2> QED BY <2>1 DEF DirectionFlags, AllDirections
<1>4. c.direction = "In" =>
        /\ "RISING_EDGE" \in ev <=> c.edge \in {"Rising", "Both"}
        /\ "FALLING_EDGE" \in ev <=> c.edge \in {"Falling", "Both"}
  <2>1. c.edge \in AllEdges BY DEF Attributes
  <2> QED BY <2>1 DEF EdgeFlags, AllEdges
<1>5. ev \subseteq {"RISING_EDGE", "FALLING_EDGE"}
  <2>1. c.edge \in AllEdges BY DEF Attributes
  <2>2. EdgeFlags[c.edge] \subseteq {"RISING_EDGE", "FALLING_EDGE"} BY <2>1 DEF EdgeFlags, AllEdges
  <2> QED BY <2>2
<1> HIDE DEF dr, iv, di, ev
<1>6. Wanted(l, c) = [line |-> l, flags |-> dr \cup iv \cup di, events |-> ev]
  BY DEF Wanted, dr, iv, di, ev
<1>7. Wanted(l, c).line = l /\ Wanted(l, c).flags = dr \cup iv \cup di /\ Wanted(l, c).events = ev
  BY <1>6
<1>8. dr \cup iv \cup di \subseteq {"INPUT", "OUTPUT", "ACTIVE_LOW", "OPEN_DRAIN", "OPEN_SOURCE"}
  BY <1>1, <1>2, <1>3
<1>9. Wanted(l, c) \in Handles BY <1>5, <1>6, <1>8 DEF Handles
<1>10. IsOutput(Wanted(l, c)) <=> c.direction # "In" BY <1>1, <1>2, <1>3, <1>7 DEF IsOutput
<1>11. Polarity(Wanted(l, c)) = c.invert
  <2>1. "ACTIVE_LOW" \in Wanted(l, c).flags <=> c.invert = "On" BY <1>1, <1>2, <1>3, <1>7
  <2> QED BY <2>1, <1>2 DEF Polarity, Inverts
<1>12. /\ "OPEN_DRAIN" \in Wanted(l, c).flags <=> c.drive = "OpenDrain"
       /\ "OPEN_SOURCE" \in Wanted(l, c).flags <=> c.drive = "OpenSource"
       /\ Wanted(l, c).flags # {}
  BY <1>1, <1>2, <1>3, <1>7
<1> QED BY <1>4, <1>7, <1>9, <1>10, <1>11, <1>12

\* The kernel grants p its line with the flags of c, by a number not in use.
Gains(p, c, f) ==
  LET h == Wanted(pin[p].line, c)
  IN  /\ Alone(p)
      /\ todo[p] # {} /\ ~Held(h.line) /\ ~IsOpen(f)
      /\ handle' = [handle EXCEPT ![f] = h]
      /\ pin' = [pin EXCEPT ![p] = PinWith(f, h.line, c)]
      /\ life'[p] = "alive" /\ todo'[p] = {}
      /\ asked'[p] = IF c.direction = "High" THEN 1 ELSE 0
      /\ IF IsOutput(h) THEN Put(h, asked'[p]) ELSE UNCHANGED <<driven, level>>
      /\ res'[p] = "returned"

\* The value that is sent with the request is what the direction asks for,
\* once the kernel has inverted it.
LEMMA InvertedTwice ==
  ASSUME NEW c \in Attributes
  PROVE  Logical(InitialValue(c), c.invert) = IF c.direction = "High" THEN 1 ELSE 0
BY DEF Logical, InitialValue

LEMMA RequestGainsOrYields ==
  ASSUME Typed, Staged, NEW p \in Pins, Request(p)
  PROVE  /\ Typed' /\ Staged'
         /\ \/ \E c \in Attributes, f \in Fds : Gains(p, c, f)
            \/ Yields(p) /\ res' = [res EXCEPT ![p] = "threw"]
<1> USE GpioAssumption, Numbers DEF Typed, Staged
<1>1. PICK c \in todo[p] : /\ Granted(p, c) \/ Refused(p, c)
                           /\ todo' = [todo EXCEPT ![p] = {}]
                           /\ UNCHANGED foreign
  BY DEF Request
<1>2. c \in Attributes /\ pin[p].fd = -1 /\ pin[p].line \in Lines /\ todo[p] # {} BY <1>1
<1>3. \A q \in Pins : todo'[q] = {} \/ \E d \in Attributes : todo'[q] = {d} BY <1>1
<1>4. CASE Granted(p, c)
  <2> DEFINE h == Wanted(pin[p].line, c)
             v == IF c.direction = "High" THEN 1 ELSE 0
  <2>1. h \in Handles /\ h.line = pin[p].line BY <1>2, FlagsAsAsked
  <2>2. PICK f \in Fds : /\ ~IsOpen(f)
                         /\ handle' = [handle EXCEPT ![f] = h]
                         /\ pin' = [pin EXCEPT ![p] = PinWith(f, h.line, c)]
    BY <1>4 DEF Granted
  <2>3. /\ ~Held(h.line)
        /\ life' = [life EXCEPT ![p] = "alive"]
        /\ IF IsOutput(h) THEN Put(h, v) ELSE UNCHANGED <<driven, level>>
        /\ asked' = [asked EXCEPT ![p] = v]
        /\ res' = [res EXCEPT ![p] = "returned"]
    BY <1>2, <1>4, InvertedTwice DEF Granted, Grantable, End
  <2>4. PinWith(f, h.line, c) \in PinRecords /\ PinWith(f, h.line, c).line = pin[p].line
    BY <1>2, <2>1 DEF PinWith, PinRecords, Attributes
  <2>5. v \in {0, 1} OBVIOUS
  <2> HIDE DEF h, v
  <2>6. Typed'
    <3>1. handle' \in [Fds -> Handles] /\ pin' \in [Pins -> PinRecords] BY <2>1, <2>2, <2>4
    <3>2. driven' \subseteq Lines /\ level' \in [Lines -> {0, 1}] /\ asked' \in [Pins -> {0, 1}]
      BY <1>2, <2>1, <2>3, <2>5 DEF Put
    <3>3. /\ life' \in [Pins -> {"none", "building", "alive"}]
          /\ todo' \in [Pins -> SUBSET Attributes]
          /\ res' \in [Pins -> {"pending", "returned", "threw", "low", "high"}]
          /\ foreign' \subseteq Lines
      BY <1>1, <2>3
    <3> QED BY <3>1, <3>2, <3>3, <1>3
  <2>7. Staged' BY <1>1, <1>2, <2>2, <2>3, <2>4
  <2>8. Gains(p, c, f)
    <3>1. Alone(p) BY <1>1, <2>2, <2>3 DEF Alone
    <3>2. life'[p] = "alive" /\ todo'[p] = {} /\ res'[p] = "returned" /\ asked'[p] = v
      BY <1>1, <2>3
    <3> QED BY <1>2, <2>2, <2>3, <3>1, <3>2 DEF Gains, h, v
  <2> QED BY <1>2, <2>6, <2>7, <2>8
<1>5. CASE Refused(p, c)
  <2>1. /\ \/ life' = [life EXCEPT ![p] = "none"] /\ pin' = [pin EXCEPT ![p] = Blank]
           \/ UNCHANGED <<life, pin>>
        /\ res' = [res EXCEPT ![p] = "threw"]
        /\ UNCHANGED <<handle, driven, level, asked>>
    BY <1>5 DEF Refused, End
  <2>2. Blank \in PinRecords /\ Blank.fd = -1
    BY DEF Blank, PinWith, PinRecords, AllDirections, AllEdges, AllBiases, AllDrives, Inverts
  <2>3. Alone(p) BY <1>1, <2>1 DEF Alone
  <2>4. pin'[p].fd = -1 /\ handle' = handle BY <1>2, <2>1, <2>2
  <2>5. Yields(p) BY <1>2, <2>1, <2>3, <2>4 DEF Yields
  <2>6. Typed' BY <1>1, <1>3, <2>1, <2>2
  <2>7. Staged' BY <1>1, <2>1, <2>2
  <2> QED BY <2>1, <2>5, <2>6, <2>7
<1> QED BY <1>1, <1>4, <1>5

\* A handle that p gains is for its own line, with what p records of it.
LEMMA GainsSound ==
  ASSUME Sound, NEW p \in Pins, NEW c \in Attributes, NEW f \in Fds, Gains(p, c, f)
  PROVE  Exclusive' /\ HandleOwned' /\ NoHandleLeaked' /\ RecordedInEffect'
<1> USE GpioAssumption, Numbers DEF Sound
<1> DEFINE h == Wanted(pin[p].line, c)
<1>1. pin[p].line \in Lines /\ pin[p].fd = -1 BY DEF Gains, Staged
<1>2. /\ h.flags # {} /\ h.line = pin[p].line
      /\ IsOutput(h) <=> c.direction # "In"
      /\ Polarity(h) = c.invert
      /\ "OPEN_DRAIN" \in h.flags <=> c.drive = "OpenDrain"
      /\ "OPEN_SOURCE" \in h.flags <=> c.drive = "OpenSource"
      /\ c.direction = "In" =>
           /\ "RISING_EDGE" \in h.events <=> c.edge \in {"Rising", "Both"}
           /\ "FALLING_EDGE" \in h.events <=> c.edge \in {"Falling", "Both"}
  BY <1>1, FlagsAsAsked
<1> HIDE DEF h
<1>3. /\ ~Held(h.line) /\ ~IsOpen(f) /\ foreign' = foreign
      /\ handle' = [handle EXCEPT ![f] = h]
      /\ pin' = [pin EXCEPT ![p] = PinWith(f, h.line, c)]
  BY DEF Gains, Alone, h
<1>4. /\ \A q \in Pins : pin[q].fd \in Fds \cup {-1}
      /\ pin \in [Pins -> PinRecords] /\ handle \in [Fds -> Handles]
  BY DEF Typed, PinRecords
<1>5. handle'[f] = h /\ \A g \in Fds \ {f} : handle'[g] = handle[g] BY <1>3, <1>4
<1>6. /\ pin'[p].fd = f /\ pin'[p].line = h.line /\ pin'[p].direction = c.direction
      /\ pin'[p].edge = c.edge /\ pin'[p].drive = c.drive /\ pin'[p].invert = c.invert
  BY <1>3, <1>4 DEF PinWith
<1>7. Holds(p)' BY <1>6 DEF Holds, Gains
<1>8. \A q \in Pins \ {p} : pin'[q] = pin[q] /\ (Holds(q)' <=> Holds(q))
  BY DEF Gains, Alone, Holds
<1>9. \A q \in Pins \ {p} : Holds(q) => pin[q].fd \in Fds \ {f}
  <2> SUFFICES ASSUME NEW q \in Pins \ {p}, Holds(q) PROVE pin[q].fd \in Fds \ {f}
    OBVIOUS
  <2>1. IsOpen(pin[q].fd) BY DEF HandleOwned
  <2>2. pin[q].fd # -1 BY DEF Holds
  <2> QED BY <2>1, <2>2, <1>3, <1>4
<1>10. IsOpen(f)' /\ \A g \in Fds \ {f} : IsOpen(g)' <=> IsOpen(g)
  BY <1>2, <1>5 DEF IsOpen
<1>11. Exclusive'
  <2>1. h.line \in Lines \ foreign' /\ \A g \in Fds : IsOpen(g) => handle[g].line # h.line
    BY <1>1, <1>2, <1>3 DEF Held
  <2> SUFFICES ASSUME NEW g \in Fds, IsOpen(g)'
               PROVE  /\ handle'[g].line \in Lines \ foreign'
                      /\ \A k \in Fds \ {g} : IsOpen(k)' => handle'[k].line # handle'[g].line
    BY DEF Exclusive
  <2>2. CASE g = f BY <2>1, <2>2, <1>5, <1>10
  <2>3. CASE g # f
    <3>1. IsOpen(g) /\ handle'[g] = handle[g] BY <2>3, <1>5, <1>10
    <3>2. handle'[f].line # handle'[g].line BY <2>1, <3>1, <1>5
    <3>3. \A k \in Fds \ {g, f} : IsOpen(k)' => handle'[k].line # handle'[g].line
      BY <3>1, <1>5, <1>10 DEF Exclusive
    <3> QED BY <3>1, <3>2, <3>3, <1>3 DEF Exclusive
  <2> QED BY <2>2, <2>3
<1>12. HandleOwned'
  <2> SUFFICES ASSUME NEW q \in Pins, Holds(q)'
               PROVE  /\ IsOpen(pin[q].fd)' /\ handle'[pin'[q].fd].line = pin'[q].line
                      /\ \A r \in Pins \ {q} : Holds(r)' => pin'[r].fd # pin'[q].fd
    BY DEF HandleOwned
  <2>1. CASE q = p BY <2>1, <1>5, <1>6, <1>8, <1>9, <1>10 DEF IsOpen
  <2>2. CASE q # p
    <3>1. Holds(q) /\ pin'[q] = pin[q] /\ pin[q].fd \in Fds \ {f} BY <2>2, <1>8, <1>9
    <3>2. IsOpen(pin[q].fd)' /\ handle'[pin'[q].fd].line = pin'[q].line
      BY <3>1, <1>5 DEF HandleOwned, IsOpen
    <3>3. \A r \in Pins \ {q} : Holds(r)' => pin'[r].fd # pin'[q].fd
      BY <3>1, <1>6, <1>8 DEF HandleOwned
    <3> QED BY <3>2, <3>3
  <2> QED BY <2>1, <2>2
<1>13. NoHandleLeaked'
  <2> SUFFICES ASSUME NEW g \in Fds, IsOpen(g)'
               PROVE  \E q \in Pins : Holds(q)' /\ pin'[q].fd = g
    BY DEF NoHandleLeaked
  <2>1. CASE g = f BY <2>1, <1>6, <1>7
  <2>2. CASE g # f
    <3>1. PICK q \in Pins : Holds(q) /\ pin[q].fd = g BY <2>2, <1>10 DEF NoHandleLeaked
    <3>2. q # p BY <3>1, <1>1 DEF Holds
    <3> QED BY <3>1, <3>2, <1>8
  <2> QED BY <2>1, <2>2
<1>14. RecordedInEffect'
  <2>1. \A q \in Pins \ {p} : Holds(q)' => pin'[q] = pin[q] /\ handle'[pin[q].fd] = handle[pin[q].fd]
    BY <1>5, <1>8, <1>9
  <2> QED BY <2>1, <1>2, <1>5, <1>6, <1>8 DEF RecordedInEffect, IsOutput, Polarity
<1> QED BY <1>11, <1>12, <1>13, <1>14
-----------------------------------------------------------------------------
(* The invariant. *)

\* Steps that leave pins and handles alone.
LEMMA QuietSound ==
  ASSUME Sound, UNCHANGED <<life, pin, todo, handle>>, Exclusive'
  PROVE  Staged' /\ HandleOwned' /\ NoHandleLeaked' /\ RecordedInEffect'
BY DEF Sound, Staged, HandleOwned, NoHandleLeaked, RecordedInEffect, Holds, IsOpen, IsOutput,
       Polarity

\* get() and set() change no handle.
LEMMA GetTyped ==
  ASSUME Typed, NEW p \in Pins, Get(p) PROVE Typed' /\ Quiet
BY DEF Typed, Get, End, Quiet

LEMMA SetValueTyped ==
  ASSUME Sound, NEW p \in Pins, SetValue(p) PROVE Typed' /\ Quiet
<1> USE DEF Sound, Typed
<1>1. PICK v \in {0, 1} :
        IF pin[p].fd < 0 \/ ~IsOpen(pin[p].fd) \/ ~IsOutput(handle[pin[p].fd])
        THEN End(p, "threw") /\ UNCHANGED <<driven, level, asked>>
        ELSE LET h == handle[pin[p].fd]
             IN  /\ Put(h, Logical(v, Polarity(h)))
                 /\ asked' = [asked EXCEPT ![p] = Logical(v, pin[p].invert)]
                 /\ End(p, "returned")
  BY DEF SetValue
<1>2. UNCHANGED <<life, pin, todo, handle, foreign>> BY DEF SetValue
<1>3. level' \in [Lines -> {0, 1}] /\ asked' \in [Pins -> {0, 1}]
  BY <1>1 DEF Logical, Put
<1>5. driven' \subseteq Lines
  <2>1. CASE driven' = driven BY <2>1
  <2>2. CASE driven' # driven
    <3>1. ~(pin[p].fd < 0) /\ IsOpen(pin[p].fd) /\ driven' \subseteq driven \cup {handle[pin[p].fd].line}
      BY <1>1, <2>2 DEF Put
    <3>2. pin[p].fd \in Fds BY <3>1, Numbers DEF PinRecords
    <3> QED BY <3>1, <3>2 DEF Exclusive
  <2> QED BY <2>1, <2>2
<1>4. res' \in [Pins -> {"pending", "returned", "threw", "low", "high"}]
  BY <1>1 DEF End
<1> QED BY <1>2, <1>3, <1>4, <1>5 DEF Quiet

\* Every setter, and reconfigure(), does one of these: a setter that is given the recorded value does
\* nothing.
LEMMA Setters ==
  ASSUME NEW p \in Pins, Step(p)
  PROVE  \/ Construct(p) \/ Request(p) \/ Destroy(p) \/ Get(p) \/ SetValue(p)
         \/ \E c \in Configs : Ready(p) /\ Close(p, c)
         \/ Quiet /\ driven' = driven /\ level' = level /\ asked' = asked /\ End(p, "returned")
<1>1. ASSUME Ready(p), \E c \in Configs : Set(p, c)
      PROVE  \/ \E c \in Configs : Ready(p) /\ Close(p, c)
             \/ Quiet /\ driven' = driven /\ level' = level /\ asked' = asked /\ End(p, "returned")
  BY <1>1 DEF Set, Quiet
<1>2. CASE SetDirection(p) BY <1>1, <1>2 DEF SetDirection
<1>3. CASE SetEdge(p) BY <1>1, <1>3 DEF SetEdge
<1>4. CASE SetBias(p) BY <1>1, <1>4 DEF SetBias
<1>5. CASE SetDrive(p) BY <1>1, <1>5 DEF SetDrive
<1>6. CASE SetInvert(p) BY <1>1, <1>6 DEF SetInvert
<1>7. CASE Reconfigure(p) BY <1>7 DEF Reconfigure
<1> QED BY <1>2, <1>3, <1>4, <1>5, <1>6, <1>7 DEF Step

LEMMA SoundStep == ASSUME Sound, [Next]_vars PROVE Sound'
<1> USE DEF Sound
<1>1. ASSUME UNCHANGED <<life, pin, todo, handle, foreign>>, Typed' PROVE Sound'
  <2>1. Exclusive' BY <1>1 DEF Exclusive, IsOpen
  <2> QED BY <1>1, <2>1, QuietSound
<1>2. ASSUME NEW p \in Pins, Yields(p) \/ Quiet, Typed', Staged' PROVE Sound'
  BY <1>1, <1>2, YieldsSound DEF Quiet
<1>3. ASSUME NEW p \in Pins, Step(p) PROVE Sound'
  <2>1. CASE Construct(p) BY <1>2, <2>1, ConstructYields
  <2>2. CASE Request(p)
    <3>1. /\ Typed' /\ Staged'
          /\ \/ \E c \in Attributes, f \in Fds : Gains(p, c, f)
             \/ Yields(p)
      BY <2>2, RequestGainsOrYields
    <3>2. CASE Yields(p) BY <1>2, <3>1, <3>2
    <3>3. CASE \E c \in Attributes, f \in Fds : Gains(p, c, f) BY <3>1, <3>3, GainsSound
    <3> QED BY <3>1, <3>2, <3>3
  <2>3. CASE Destroy(p) BY <1>2, <2>3, DestroyYields
  <2>4. CASE Get(p) BY <1>1, <2>4, GetTyped DEF Quiet
  <2>5. CASE SetValue(p) BY <1>1, <2>5, SetValueTyped DEF Quiet
  <2>6. CASE \E c \in Configs : Ready(p) /\ Close(p, c) BY <1>2, <2>6, CloseYields
  <2>7. CASE Quiet /\ driven' = driven /\ level' = level /\ asked' = asked /\ End(p, "returned")
    <3>1. Typed' BY <2>7 DEF Typed, End, Quiet
    <3> QED BY <1>1, <2>7, <3>1 DEF Quiet
  <2> QED BY <1>3, <2>1, <2>2, <2>3, <2>4, <2>5, <2>6, <2>7, Setters
<1>4. CASE Others
  <2>1. PICK l \in Lines : Take(l) \/ Release(l) BY <1>4 DEF Others
  <2>2. UNCHANGED <<life, pin, todo, res, handle, driven, level, asked>> BY <1>4 DEF Others
  <2>3. Typed' BY <2>1, <2>2 DEF Take, Release, Typed
  <2>4. \A k \in foreign' : k \notin foreign => ~Held(k) BY <2>1 DEF Take, Release
  <2>5. Exclusive' BY <2>2, <2>4 DEF Exclusive, Held, IsOpen
  <2> QED BY <2>2, <2>3, <2>5, QuietSound
<1>5. CASE Outside
  <2>1. Typed' BY <1>5 DEF Outside, Typed
  <2> QED BY <1>1, <1>5, <2>1 DEF Outside
<1>6. CASE UNCHANGED vars
  <2>1. Typed' BY <1>6 DEF vars, Typed
  <2> QED BY <1>1, <1>6, <2>1 DEF vars
<1> QED BY <1>3, <1>4, <1>5, <1>6 DEF Next

LEMMA SoundInvariant == Spec => []Sound
<1>1. Init => Sound
  <2> USE GpioAssumption, Numbers DEF Init
  <2>1. Blank \in PinRecords /\ Blank.fd = -1
    BY DEF Blank, PinWith, PinRecords, AllDirections, AllEdges, AllBiases, AllDrives, Inverts
  <2>2. Closed \in Handles /\ Closed.flags = {} BY DEF Closed, Handles
  <2>3. Init => Typed BY <2>1, <2>2 DEF Typed
  <2>4. Init => /\ Staged /\ Exclusive /\ HandleOwned /\ NoHandleLeaked /\ RecordedInEffect
    BY <2>1, <2>2 DEF Staged, Exclusive, HandleOwned, NoHandleLeaked, RecordedInEffect,
                      Holds, IsOpen
  <2> QED BY <2>3, <2>4 DEF Sound
<1>2. Sound /\ [Next]_vars => Sound' BY SoundStep
<1> QED BY <1>1, <1>2, PTL DEF Spec

\* Every variable keeps its type, and no pin ever has two sets of new
\* attributes to ask for.
THEOREM GpioTypeTheorem == Spec => []TypeOK
<1>1. Sound => TypeOK
  <2> SUFFICES ASSUME Sound PROVE TypeOK
    OBVIOUS
  <2> USE DEF Sound, Typed
  <2>1. ASSUME NEW p \in Pins PROVE Cardinality(todo[p]) <= 1
    <3>1. CASE todo[p] = {}
      <4>1. Cardinality(todo[p]) = 0 BY ONLY <3>1, FS_EmptySet
      <4> QED BY ONLY <4>1
    <3>2. CASE \E c \in Attributes : todo[p] = {c}
      <4>1. Cardinality(todo[p]) = 1 BY ONLY <3>2, FS_Singleton
      <4> QED BY ONLY <4>1
    <3> QED BY <3>1, <3>2
  <2>2. ASSUME NEW p \in Pins
        PROVE  /\ pin[p].fd \in Fds \cup {-1} /\ pin[p].line \in Lines \cup {NoLine}
               /\ Config(p) \in Attributes
    BY DEF PinRecords, Config, Attributes
  <2> QED BY <2>1, <2>2 DEF TypeOK
<1> QED BY <1>1, SoundInvariant, PTL

\* Whatever pins are made, changed and destroyed at once, whatever requests
\* fail, and whichever numbers are used again: a pin's descriptor is a handle
\* for its line, and no other pin has it.
THEOREM HandleTheorem == Spec => []HandleOwned
<1>1. Sound => HandleOwned BY DEF Sound
<1> QED BY <1>1, SoundInvariant, PTL

\* No handle outlives the pin that asked for it, or is forgotten by it.
THEOREM LeakTheorem == Spec => []NoHandleLeaked
<1>1. Sound => NoHandleLeaked BY DEF Sound
<1> QED BY <1>1, SoundInvariant, PTL

\* What a pin says of its line is what its handle was requested with.
THEOREM RecordedTheorem == Spec => []RecordedInEffect
<1>1. Sound => RecordedInEffect BY DEF Sound
<1> QED BY <1>1, SoundInvariant, PTL
-----------------------------------------------------------------------------
(* Voltages. *)

\* Two pins are never on one line, and each is on a line of no other consumer.
LEMMA Apart ==
  ASSUME Sound, NEW p \in Pins, Holds(p)
  PROVE  /\ pin[p].fd \in Fds /\ IsOpen(pin[p].fd)
         /\ handle[pin[p].fd].line = pin[p].line /\ pin[p].line \in Lines \ foreign
         /\ IsOutput(handle[pin[p].fd]) <=> pin[p].direction # "In"
         /\ Polarity(handle[pin[p].fd]) = pin[p].invert
         /\ \A q \in Pins \ {p} : Holds(q) => pin[q].line # pin[p].line
<1> USE Numbers DEF Sound
<1>1. \A q \in Pins : Holds(q) => pin[q].fd \in Fds BY DEF Holds, Typed, PinRecords
<1>2. \A q \in Pins : Holds(q) => IsOpen(pin[q].fd) /\ handle[pin[q].fd].line = pin[q].line
  BY DEF HandleOwned
<1>3. \A q \in Pins \ {p} : Holds(q) => pin[q].fd # pin[p].fd BY DEF HandleOwned
<1>4. ASSUME NEW q \in Pins \ {p}, Holds(q) PROVE pin[q].line # pin[p].line
  <2>1. /\ pin[p].fd \in Fds /\ pin[q].fd \in Fds \ {pin[p].fd}
        /\ IsOpen(pin[p].fd) /\ IsOpen(pin[q].fd)
        /\ handle[pin[p].fd].line = pin[p].line /\ handle[pin[q].fd].line = pin[q].line
    BY <1>1, <1>2, <1>3, <1>4
  <2>2. handle[pin[q].fd].line # handle[pin[p].fd].line BY <2>1 DEF Exclusive
  <2> QED BY <2>1, <2>2
<1>5. pin[p].line \in Lines \ foreign BY <1>1, <1>2 DEF Exclusive
<1>6. /\ IsOutput(handle[pin[p].fd]) <=> pin[p].direction # "In"
      /\ Polarity(handle[pin[p].fd]) = pin[p].invert
  BY DEF RecordedInEffect
<1> QED BY <1>1, <1>2, <1>4, <1>5, <1>6

\* Steps that leave voltages and what was asked for alone, except for results
\* that are not a level that was read.
LEMMA SameLevels ==
  ASSUME Sound, LevelAsAsked,
         \A q \in Pins : Holds(q)' /\ pin'[q].direction # "In" =>
           /\ Holds(q) /\ pin'[q] = pin[q] /\ asked'[q] = asked[q]
           /\ pin[q].line \in driven' <=> pin[q].line \in driven
           /\ pin[q].line \in driven => level'[pin[q].line] = level[pin[q].line]
           /\ res'[q] = res[q] \/ res'[q] \notin {"low", "high"}
  PROVE  LevelAsAsked'
BY DEF LevelAsAsked, LetsGo, Logical

LEMMA YieldsLevels ==
  ASSUME Sound, LevelAsAsked, NEW p \in Pins, Yields(p) PROVE LevelAsAsked'
<1>1. ~Holds(p)' BY DEF Yields, Holds
<1>2. \A q \in Pins \ {p} : /\ Holds(q)' <=> Holds(q)
                            /\ pin'[q] = pin[q] /\ asked'[q] = asked[q] /\ res'[q] = res[q]
  BY DEF Yields, Alone, Holds
<1>3. level' = level BY DEF Yields
<1>4. \A q \in Pins \ {p} : Holds(q) => (pin[q].line \in driven' <=> pin[q].line \in driven)
  <2> SUFFICES ASSUME NEW q \in Pins \ {p}, Holds(q)
               PROVE  pin[q].line \in driven' <=> pin[q].line \in driven
    OBVIOUS
  <2>1. CASE Holds(p)
    <3>1. pin[p].line # pin[q].line /\ handle[pin[p].fd].line = pin[p].line BY <2>1, Apart
    <3> QED BY <3>1 DEF Yields
  <2>2. CASE ~Holds(p)
    <3>1. pin[p].fd \in Fds \cup {-1} BY DEF Sound, Typed, PinRecords
    <3>2. pin[p].fd = -1 BY <2>2, <3>1, Numbers DEF Holds, Sound, Staged
    <3> QED BY <3>2, Numbers DEF Yields
  <2> QED BY <2>1, <2>2
<1> QED BY <1>1, <1>2, <1>3, <1>4, SameLevels

LEMMA QuietLevels ==
  ASSUME Sound, LevelAsAsked, Quiet, driven' = driven, level' = level, asked' = asked, NEW p \in Pins,
         \A q \in Pins \ {p} : res'[q] = res[q], res'[p] \notin {"low", "high"}
  PROVE  LevelAsAsked'
<1>1. \A q \in Pins : Holds(q)' => Holds(q) BY DEF Quiet, Holds
<1>2. pin' = pin BY DEF Quiet
<1> QED BY <1>1, <1>2, SameLevels

LEMMA GainsLevels ==
  ASSUME Sound, LevelAsAsked, NEW p \in Pins, NEW c \in Attributes, NEW f \in Fds, Gains(p, c, f)
  PROVE  LevelAsAsked'
<1> DEFINE h == Wanted(pin[p].line, c)
<1>1. pin[p].line \in Lines BY DEF Gains, Sound, Staged
<1>2. /\ h.line = pin[p].line /\ (IsOutput(h) <=> c.direction # "In")
      /\ "OPEN_DRAIN" \in h.flags <=> c.drive = "OpenDrain"
      /\ "OPEN_SOURCE" \in h.flags <=> c.drive = "OpenSource"
  BY <1>1, FlagsAsAsked
<1> HIDE DEF h
<1>3. /\ Alone(p) /\ ~Held(h.line) /\ res'[p] = "returned"
      /\ pin' = [pin EXCEPT ![p] = PinWith(f, h.line, c)]
      /\ IF IsOutput(h) THEN Put(h, asked'[p]) ELSE UNCHANGED <<driven, level>>
  BY DEF Gains, h
<1>4. pin \in [Pins -> PinRecords] /\ level \in [Lines -> {0, 1}] BY DEF Sound, Typed
<1>5. pin'[p].line = pin[p].line /\ pin'[p].direction = c.direction /\ pin'[p].drive = c.drive
  BY <1>2, <1>3, <1>4 DEF PinWith
<1>6. \A q \in Pins \ {p} : /\ Holds(q)' <=> Holds(q)
                            /\ pin'[q] = pin[q] /\ asked'[q] = asked[q] /\ res'[q] = res[q]
  BY <1>3 DEF Alone, Holds
<1>7. \A q \in Pins \ {p} : Holds(q) => pin[q].line # h.line /\ pin[q].line \in Lines
  BY <1>3, Apart DEF Held
<1>8. \A q \in Pins \ {p} : Holds(q) => /\ level'[pin[q].line] = level[pin[q].line]
                                        /\ pin[q].line \in driven' <=> pin[q].line \in driven
  BY <1>3, <1>4, <1>7 DEF Put
<1>9. c.direction # "In" =>
        /\ pin'[p].line \in driven' <=> ~LetsGo(pin'[p].drive, asked'[p])
        /\ pin'[p].line \in driven' => level'[pin'[p].line] = asked'[p]
  BY <1>1, <1>2, <1>3, <1>4, <1>5 DEF Put, Drives, LetsGo
<1> QED BY <1>3, <1>5, <1>6, <1>8, <1>9 DEF LevelAsAsked, LetsGo, Logical

LEMMA GetLevels ==
  ASSUME Sound, LevelAsAsked, NEW p \in Pins, Get(p) PROVE LevelAsAsked'
<1>1. /\ \A q \in Pins : pin'[q] = pin[q] /\ (Holds(q)' <=> Holds(q))
      /\ driven' = driven /\ level' = level /\ asked' = asked
      /\ res \in [Pins -> {"pending", "returned", "threw", "low", "high"}]
  BY DEF Get, Holds, Sound, Typed
<1>2. \A q \in Pins \ {p} : res'[q] = res[q] BY <1>1 DEF Get, End
<1>3. Holds(p) /\ pin[p].direction # "In"
        => (res'[p] \in {"low", "high"}
              => (res'[p] = "high") = (Logical(level[pin[p].line], pin[p].invert) = 1))
  <2> SUFFICES ASSUME Holds(p), pin[p].direction # "In", res'[p] \in {"low", "high"}
               PROVE  (res'[p] = "high") = (Logical(level[pin[p].line], pin[p].invert) = 1)
    OBVIOUS
  <2>1. /\ handle[pin[p].fd].line = pin[p].line /\ Polarity(handle[pin[p].fd]) = pin[p].invert
        /\ IsOpen(pin[p].fd) /\ pin[p].fd \in Fds
    BY Apart
  <2>2. ~(pin[p].fd < 0) BY <2>1, Numbers
  <2>3. res'[p] = IF Logical(level[pin[p].line], pin[p].invert) = 1 THEN "high" ELSE "low"
    BY <1>1, <2>1, <2>2 DEF Get, End
  <2> QED BY <2>3
<1> QED BY <1>1, <1>2, <1>3 DEF LevelAsAsked, LetsGo, Logical

LEMMA SetValueLevels ==
  ASSUME Sound, LevelAsAsked, NEW p \in Pins, SetValue(p) PROVE LevelAsAsked'
<1>1. UNCHANGED <<life, pin, todo, handle, foreign>> BY DEF SetValue
<1>2. /\ res \in [Pins -> {"pending", "returned", "threw", "low", "high"}]
      /\ level \in [Lines -> {0, 1}] /\ asked \in [Pins -> {0, 1}]
  BY DEF Sound, Typed
<1>3. PICK v \in {0, 1} :
        IF pin[p].fd < 0 \/ ~IsOpen(pin[p].fd) \/ ~IsOutput(handle[pin[p].fd])
        THEN End(p, "threw") /\ UNCHANGED <<driven, level, asked>>
        ELSE LET h == handle[pin[p].fd]
             IN  /\ Put(h, Logical(v, Polarity(h)))
                 /\ asked' = [asked EXCEPT ![p] = Logical(v, pin[p].invert)]
                 /\ End(p, "returned")
  BY DEF SetValue
<1>4. CASE End(p, "threw") /\ UNCHANGED <<driven, level, asked>>
  BY <1>1, <1>2, <1>4, QuietLevels DEF End, Quiet
<1>5. CASE ~(End(p, "threw") /\ UNCHANGED <<driven, level, asked>>)
  <2>1. /\ ~(pin[p].fd < 0)
        /\ Put(handle[pin[p].fd], Logical(v, Polarity(handle[pin[p].fd])))
        /\ asked' = [asked EXCEPT ![p] = Logical(v, pin[p].invert)]
        /\ res' = [res EXCEPT ![p] = "returned"]
        /\ IsOpen(pin[p].fd)
    BY <1>3, <1>5 DEF End
  <2>2. Holds(p)
    <3>1. pin[p].fd \in Fds \cup {-1} BY DEF Sound, Typed, PinRecords
    <3>2. life[p] = "alive" BY DEF SetValue, Ready
    <3> QED BY <3>1, <3>2, <2>1, Numbers DEF Holds
  <2>3. /\ handle[pin[p].fd].line = pin[p].line /\ Polarity(handle[pin[p].fd]) = pin[p].invert
        /\ "OPEN_DRAIN" \in handle[pin[p].fd].flags <=> pin[p].drive = "OpenDrain"
        /\ "OPEN_SOURCE" \in handle[pin[p].fd].flags <=> pin[p].drive = "OpenSource"
        /\ pin[p].line \in Lines
        /\ \A q \in Pins \ {p} : Holds(q) => pin[q].line # pin[p].line /\ pin[q].line \in Lines
    BY <2>2, Apart DEF Sound, RecordedInEffect
  <2>4. /\ pin[p].line \in driven' <=> ~LetsGo(pin[p].drive, asked'[p])
        /\ pin[p].line \in driven' => level'[pin[p].line] = asked'[p]
        /\ res'[p] = "returned"
    BY <1>2, <2>1, <2>3 DEF Put, Drives, LetsGo
  <2>5. \A q \in Pins \ {p} : /\ asked'[q] = asked[q] /\ res'[q] = res[q]
                              /\ Holds(q) => /\ level'[pin[q].line] = level[pin[q].line]
                                             /\ pin[q].line \in driven' <=> pin[q].line \in driven
    BY <1>2, <2>1, <2>3 DEF Put
  <2>6. \A q \in Pins : pin'[q] = pin[q] /\ (Holds(q)' <=> Holds(q)) BY <1>1 DEF Holds
  <2> QED BY <2>4, <2>5, <2>6 DEF LevelAsAsked, LetsGo, Logical
<1> QED BY <1>4, <1>5

LEMMA OutsideLevels ==
  ASSUME Sound, LevelAsAsked, Outside PROVE LevelAsAsked'
<1>1. PICK l \in Lines \ driven : level' = [level EXCEPT ![l] = 1 - @] BY DEF Outside
<1>2. UNCHANGED <<life, pin, todo, res, handle, foreign, driven, asked>> BY DEF Outside
<1>3. level \in [Lines -> {0, 1}] /\ driven \subseteq Lines BY DEF Sound, Typed
<1>4. \A k \in driven : level'[k] = level[k] BY <1>1, <1>3
<1>5. \A q \in Pins : Holds(q)' <=> Holds(q) BY <1>2 DEF Holds
<1> QED BY <1>2, <1>4, <1>5, SameLevels

LEMMA EndsWith ==
  ASSUME Sound, NEW p \in Pins, NEW how, res' = [res EXCEPT ![p] = how]
  PROVE  res'[p] = how /\ \A q \in Pins \ {p} : res'[q] = res[q]
BY DEF Sound, Typed

LEMMA LevelStep == ASSUME Sound, LevelAsAsked, [Next]_vars PROVE LevelAsAsked'
<1>1. Typed /\ Staged BY DEF Sound
<1>2. ASSUME NEW p \in Pins, Step(p) PROVE LevelAsAsked'
  <2>1. CASE Construct(p)
    <3>1. Yields(p) => LevelAsAsked' BY YieldsLevels
    <3>2. Quiet => res' = [res EXCEPT ![p] = "threw"]
      <4>1. CASE res' = [res EXCEPT ![p] = "threw"] BY <4>1
      <4>2. CASE todo'[p] # {}
        <5>1. todo[p] = {} BY <2>1, <1>1 DEF Construct, Staged
        <5> QED BY <4>2, <5>1 DEF Quiet
      <4> QED BY <1>1, <2>1, <4>1, <4>2, ConstructYields
    <3> QED BY <1>1, <2>1, <3>1, <3>2, ConstructYields, QuietLevels, EndsWith
  <2>2. CASE Request(p) BY <1>1, <2>2, RequestGainsOrYields, YieldsLevels, GainsLevels
  <2>3. CASE Destroy(p) BY <1>1, <2>3, DestroyYields, YieldsLevels
  <2>4. CASE Get(p) BY <2>4, GetLevels
  <2>5. CASE SetValue(p) BY <2>5, SetValueLevels
  <2>6. CASE \E c \in Configs : Ready(p) /\ Close(p, c)
    <3>1. PICK c \in Configs : Ready(p) /\ Close(p, c) BY <2>6
    <3>2. Quiet => res' = [res EXCEPT ![p] = "threw"]
      <4>1. CASE res' = [res EXCEPT ![p] = "threw"] BY <4>1
      <4>2. CASE todo'[p] # {}
        <5>1. todo[p] = {} BY <3>1 DEF Ready
        <5> QED BY <4>2, <5>1 DEF Quiet
      <4> QED BY <1>1, <3>1, <4>1, <4>2, CloseYields
    <3>3. Yields(p) \/ (Quiet /\ driven' = driven /\ level' = level /\ asked' = asked) BY <1>1, <3>1, CloseYields
    <3>4. CASE Yields(p) BY <3>4, YieldsLevels
    <3>5. CASE Quiet /\ driven' = driven /\ level' = level /\ asked' = asked
      <4>1. res' = [res EXCEPT ![p] = "threw"] BY <3>2, <3>5
      <4>2. res'[p] = "threw" /\ \A q \in Pins \ {p} : res'[q] = res[q] BY <4>1, EndsWith
      <4> QED BY <3>5, <4>2, QuietLevels
    <3> QED BY <3>3, <3>4, <3>5
  <2>7. CASE Quiet /\ driven' = driven /\ level' = level /\ asked' = asked /\ End(p, "returned")
    <3>1. res'[p] = "returned" /\ \A q \in Pins \ {p} : res'[q] = res[q]
      BY <2>7, EndsWith DEF End
    <3> QED BY <2>7, <3>1, QuietLevels
  <2> QED BY <1>2, <2>1, <2>2, <2>3, <2>4, <2>5, <2>6, <2>7, Setters
<1>3. CASE Others
  <2>1. UNCHANGED <<life, pin, todo, res, handle, driven, level, asked>> BY <1>3 DEF Others
  <2>2. \A q \in Pins : Holds(q)' <=> Holds(q) BY <2>1 DEF Holds
  <2> QED BY <2>1, <2>2, SameLevels
<1>4. CASE Outside BY <1>4, OutsideLevels
<1>5. CASE UNCHANGED vars
  <2>1. \A q \in Pins : Holds(q)' <=> Holds(q) BY <1>5 DEF Holds, vars
  <2> QED BY <1>5, <2>1, SameLevels DEF vars
<1> QED BY <1>2, <1>3, <1>4, <1>5 DEF Next

\* An output drives what its pin asked for last, through both inversions, and
\* get() says so, unless its drive mode makes it let go for that voltage.
THEOREM LevelTheorem == Spec => []LevelAsAsked
<1>1. Init => LevelAsAsked BY DEF Init, LevelAsAsked, Holds
<1>2. Sound /\ LevelAsAsked /\ [Next]_vars => LevelAsAsked' BY LevelStep
<1> QED BY <1>1, <1>2, SoundInvariant, PTL DEF Spec
-----------------------------------------------------------------------------
(* What a call may cost. *)

\* q has a line, or is about to ask for it again.
Keeps(q) == Holds(q) \/ todo[q] # {}

LEMMA KeepsStep ==
  ASSUME Sound, [Next]_vars, NEW q \in Pins,
         life[q] = "alive", life'[q] = "alive", res'[q] # "threw", Keeps(q)
  PROVE  Holds(q)' \/ todo'[q] # {}
<1>1. Typed /\ Staged BY DEF Sound
<1> USE DEF Keeps
<1>2. ASSUME life' = life, pin' = pin, todo' = todo PROVE Holds(q)' \/ todo'[q] # {}
  BY <1>2 DEF Holds
<1>3. ASSUME NEW p \in Pins, Step(p) PROVE Holds(q)' \/ todo'[q] # {}
  <2>1. CASE p # q /\ Alone(p) BY <2>1 DEF Alone, Holds
  <2>2. CASE Quiet BY <1>2, <2>2 DEF Quiet
  <2>3. CASE Construct(p)
    <3>1. CASE p = q BY <2>3, <3>1 DEF Construct
    <3>2. CASE p # q BY <1>1, <2>1, <2>2, <2>3, <3>2, ConstructYields DEF Yields
    <3> QED BY <3>1, <3>2
  <2>4. CASE Request(p)
    <3>1. CASE Yields(p) /\ res' = [res EXCEPT ![p] = "threw"]
      BY <2>1, <3>1, EndsWith DEF Yields
    <3>2. ASSUME NEW c \in Attributes, NEW f \in Fds, Gains(p, c, f)
          PROVE  Holds(q)' \/ todo'[q] # {}
      <4>1. pin'[p].fd = f /\ life'[p] = "alive"
        BY <3>2, <1>1 DEF Gains, PinWith, Typed
      <4>2. Holds(p)' BY <4>1, Numbers DEF Holds
      <4>3. Alone(p) BY <3>2 DEF Gains
      <4> QED BY <2>1, <4>2, <4>3
    <3> QED BY <1>1, <2>4, <3>1, <3>2, RequestGainsOrYields
  <2>5. CASE Destroy(p)
    <3>1. life'[p] = "none" BY <1>1, <2>5 DEF Destroy, Typed
    <3> QED BY <1>1, <2>1, <2>5, <3>1, DestroyYields DEF Yields
  <2>6. CASE Get(p) BY <1>1, <2>2, <2>6, GetTyped
  <2>7. CASE SetValue(p) BY <2>2, <2>7, SetValueTyped
  <2>8. CASE \E c \in Configs : Ready(p) /\ Close(p, c)
    <3>1. /\ Yields(p) \/ Quiet
          /\ res' = [res EXCEPT ![p] = "threw"] \/ todo'[p] # {}
      BY <1>1, <2>8, CloseYields
    <3>2. CASE p = q
      <4>1. CASE res' = [res EXCEPT ![p] = "threw"] BY <3>2, <4>1, EndsWith
      <4>2. CASE todo'[p] # {} BY <3>2, <4>2
      <4> QED BY <3>1, <4>1, <4>2
    <3>3. CASE p # q BY <2>1, <2>2, <3>1, <3>3 DEF Yields
    <3> QED BY <3>2, <3>3
  <2>9. CASE Quiet /\ driven' = driven /\ level' = level /\ asked' = asked /\ End(p, "returned") BY <2>2, <2>9
  <2> QED BY <1>3, <2>3, <2>4, <2>5, <2>6, <2>7, <2>8, <2>9, Setters
<1>4. CASE Others BY <1>2, <1>4 DEF Others
<1>5. CASE Outside BY <1>2, <1>5 DEF Outside
<1>6. CASE UNCHANGED vars BY <1>2, <1>6 DEF vars
<1> QED BY <1>3, <1>4, <1>5, <1>6 DEF Next

\* A pin loses its line by a call that throws, and by no other.
THEOREM LossTheorem == Spec => LostOnlyByThrowing
<1>1. Sound /\ [Next]_vars
        => \A p \in Pins :
             life[p] = "alive" /\ life'[p] = "alive" /\ res'[p] # "threw"
               => (Holds(p) \/ todo[p] # {} => Holds(p)' \/ todo'[p] # {})
  BY KeepsStep DEF Keeps
<1> QED BY <1>1, SoundInvariant, PTL DEF Spec, LostOnlyByThrowing
-----------------------------------------------------------------------------
(* The lines, as LineLeases has them. *)

On(q, l) == Holds(q) /\ pin[q].line = l

OwnersExact ==
  \A l \in Lines :
    /\ l \in foreign => OwnerOf(l) = "other"
    /\ \A q \in Pins : On(q, l) => OwnerOf(l) = q
    /\ l \notin foreign /\ (\A q \in Pins : ~On(q, l)) => OwnerOf(l) = "nobody"

LEMMA OwnersOf == Sound => OwnersExact
<1> SUFFICES ASSUME Sound, NEW l \in Lines
             PROVE  /\ l \in foreign => OwnerOf(l) = "other"
                    /\ \A q \in Pins : On(q, l) => OwnerOf(l) = q
                    /\ l \notin foreign /\ (\A q \in Pins : ~On(q, l)) => OwnerOf(l) = "nobody"
  BY DEF OwnersExact
<1>1. ASSUME NEW q \in Pins, On(q, l) PROVE OwnerOf(l) = q
  <2>1. l \notin foreign /\ \A p \in Pins \ {q} : Holds(p) => pin[p].line # l
    BY <1>1, Apart DEF On
  <2>2. \A p \in Pins : Holds(p) /\ pin[p].line = l => p = q BY <2>1
  <2> QED BY <1>1, <2>1, <2>2 DEF OwnerOf, On
<1> QED BY <1>1 DEF OwnerOf, On

\* The owner of a line that nothing happens to.
LEMMA SameOwner ==
  ASSUME OwnersExact, OwnersExact', NEW l \in Lines, l \in foreign <=> l \in foreign',
         \A q \in Pins : On(q, l)' <=> On(q, l)
  PROVE  OwnerOf(l)' = OwnerOf(l)
BY DEF OwnersExact

LEMMA YieldsLeases ==
  ASSUME Sound, OwnersExact, OwnersExact', NEW p \in Pins, Yields(p)
  PROVE  Leases!Next \/ UNCHANGED Leases!vars
<1>1. /\ \A q \in Pins \ {p} : pin'[q] = pin[q] /\ (Holds(q)' <=> Holds(q))
      /\ ~Holds(p)' /\ foreign' = foreign /\ level' = level
  BY DEF Yields, Alone, Holds
<1>2. CASE ~Holds(p)
  <2>0. driven' = driven
    <3>1. pin[p].fd \in Fds \cup {-1} BY DEF Sound, Typed, PinRecords
    <3>2. pin[p].fd = -1 BY <1>2, <3>1, Numbers DEF Holds, Sound, Staged
    <3> QED BY <3>2, Numbers DEF Yields
  <2>1. \A l \in Lines, q \in Pins : On(q, l)' <=> On(q, l) BY <1>1, <1>2 DEF On
  <2>2. \A l \in Lines : OwnerOf(l)' = OwnerOf(l) BY <1>1, <2>1, SameOwner
  <2>3. Owners' = Owners BY <2>2 DEF Owners
  <2>4. Outputs' = Outputs BY <1>1, <1>2 DEF Outputs
  <2> QED BY <1>1, <2>0, <2>3, <2>4 DEF Leases!vars
<1>3. CASE Holds(p)
  <2>0. PICK k \in Lines : k = pin[p].line BY <1>3, Apart
  <2>1. k \in Lines \ foreign /\ \A q \in Pins \ {p} : ~On(q, k) BY <1>3, <2>0, Apart DEF On
  <2>2. OwnerOf(k) = p BY <1>3, <2>0 DEF OwnersExact, On
  <2>3. OwnerOf(k)' = "nobody"
    <3>1. \A q \in Pins : ~On(q, k)' BY <1>1, <2>1 DEF On
    <3> QED BY <1>1, <2>1, <3>1 DEF OwnersExact
  <2>4. \A l \in Lines \ {k} : OwnerOf(l)' = OwnerOf(l)
    <3>1. \A l \in Lines \ {k}, q \in Pins : On(q, l)' <=> On(q, l)
      BY <1>1, <2>0 DEF On
    <3> QED BY <1>1, <3>1, SameOwner
  <2>5. Owners' = [Owners EXCEPT ![k] = "nobody"] BY <2>1, <2>3, <2>4 DEF Owners
  <2>6. Outputs' = Outputs \ {k}
    <3>1. ASSUME NEW l \in Lines PROVE (l \in Outputs') <=> (l \in Outputs /\ l # k)
      <4>1. CASE l = k BY <4>1, <1>1, <2>1 DEF Outputs, On
      <4>2. CASE l # k BY <4>2, <1>1, <2>0 DEF Outputs
      <4> QED BY <4>1, <4>2
    <3> QED BY <3>1 DEF Outputs
  <2>7. Owners[k] = p BY <2>1, <2>2 DEF Owners
  <2>8. driven' = driven \ {k}
    <3>1. handle[pin[p].fd].line = k /\ pin[p].fd >= 0 BY <1>3, <2>0, Apart DEF Holds
    <3> QED BY <3>1 DEF Yields
  <2> QED BY <1>1, <2>1, <2>5, <2>6, <2>7, <2>8 DEF Leases!Next, Leases!GiveUp
<1> QED BY <1>2, <1>3

LEMMA GainsLeases ==
  ASSUME Sound, OwnersExact, OwnersExact', NEW p \in Pins, NEW c \in Attributes, NEW f \in Fds,
         Gains(p, c, f)
  PROVE  Leases!Next
<1>1. PICK k \in Lines : k = pin[p].line BY DEF Gains, Sound, Staged
<1>2. PICK h : h = Wanted(pin[p].line, c) OBVIOUS
<1>3. h.line = k /\ (IsOutput(h) <=> c.direction # "In") BY <1>1, <1>2, FlagsAsAsked
<1>4. /\ Alone(p) /\ ~Held(k) /\ todo[p] # {} /\ life'[p] = "alive"
      /\ pin' = [pin EXCEPT ![p] = PinWith(f, k, c)]
      /\ asked'[p] \in {0, 1}
      /\ IF IsOutput(h) THEN Put(h, asked'[p]) ELSE UNCHANGED <<driven, level>>
  BY <1>2, <1>3 DEF Gains
<1>5. pin'[p].line = k /\ pin'[p].fd = f /\ pin'[p].direction = c.direction
  BY <1>4 DEF PinWith, Sound, Typed
<1>6. Holds(p)' BY <1>4, <1>5, Numbers DEF Holds
<1>7. ~Holds(p) /\ \A q \in Pins : ~On(q, k)
  <2>1. ~Holds(p) BY <1>4, Numbers DEF Holds, Sound, Staged
  <2>2. \A q \in Pins : Holds(q) => /\ pin[q].fd \in Fds /\ IsOpen(pin[q].fd)
                                    /\ handle[pin[q].fd].line = pin[q].line
    BY Apart
  <2> QED BY <2>1, <2>2, <1>4 DEF On, Held
<1>8. \A q \in Pins \ {p} : pin'[q] = pin[q] /\ (Holds(q)' <=> Holds(q))
  BY <1>4 DEF Alone, Holds
<1>9. OwnerOf(k) = "nobody" BY <1>4, <1>7 DEF OwnersExact, Held
<1>10. OwnerOf(k)' = p BY <1>5, <1>6 DEF OwnersExact, On
<1>11. \A l \in Lines \ {k} : OwnerOf(l)' = OwnerOf(l)
  <2>1. \A l \in Lines \ {k}, q \in Pins : On(q, l)' <=> On(q, l) BY <1>5, <1>7, <1>8 DEF On
  <2>2. foreign' = foreign BY <1>4 DEF Alone
  <2> QED BY <2>1, <2>2, SameOwner
<1>12. Owners' = [Owners EXCEPT ![k] = p] BY <1>10, <1>11 DEF Owners
<1>13. Owners[k] = "nobody" BY <1>9 DEF Owners
<1>14. \A l \in Lines : Owners[l] # p
  <2> SUFFICES ASSUME NEW l \in Lines PROVE OwnerOf(l) # p
    BY DEF Owners
  <2>1. CASE l \in foreign BY <2>1, GpioAssumption DEF OwnersExact
  <2>2. CASE \E q \in Pins : On(q, l) BY <2>2, <1>7 DEF OwnersExact, On
  <2>3. CASE l \notin foreign /\ \A q \in Pins : ~On(q, l) BY <2>3, GpioAssumption DEF OwnersExact
  <2> QED BY <2>1, <2>2, <2>3
<1>15. Outputs' = IF IsOutput(h) THEN Outputs \cup {k} ELSE Outputs
  <2>1. ASSUME NEW l \in Lines PROVE (l \in Outputs') <=> (l \in Outputs \/ (l = k /\ IsOutput(h)))
    <3>1. CASE l = k BY <3>1, <1>3, <1>5, <1>6, <1>7, <1>8 DEF Outputs, On
    <3>2. CASE l # k BY <3>2, <1>5, <1>7, <1>8 DEF Outputs
    <3> QED BY <3>1, <3>2
  <2> QED BY <2>1 DEF Outputs
<1>16. CASE IsOutput(h)
  <2>1. Leases!Drive(k) BY <1>3, <1>4, <1>16 DEF Put, Leases!Drive
  <2> QED BY <1>12, <1>13, <1>14, <1>15, <1>16, <2>1 DEF Leases!Next, Leases!Acquire
<1>17. CASE ~IsOutput(h)
  BY <1>4, <1>12, <1>13, <1>14, <1>15, <1>17 DEF Leases!Next, Leases!Acquire
<1> QED BY <1>16, <1>17

\* Steps that change no pin's line or direction: at most a voltage.
LEMMA SameLeases ==
  ASSUME UNCHANGED <<life, pin, foreign>> PROVE Owners' = Owners /\ Outputs' = Outputs
BY DEF Owners, OwnerOf, Outputs, Holds

LEMMA SetValueLeases ==
  ASSUME Sound, NEW p \in Pins, SetValue(p) PROVE Leases!Next \/ UNCHANGED Leases!vars
<1>1. UNCHANGED <<life, pin, foreign>> BY DEF SetValue
<1>2. Owners' = Owners /\ Outputs' = Outputs BY <1>1, SameLeases
<1>3. PICK v \in {0, 1} :
        IF pin[p].fd < 0 \/ ~IsOpen(pin[p].fd) \/ ~IsOutput(handle[pin[p].fd])
        THEN UNCHANGED <<driven, level>>
        ELSE Put(handle[pin[p].fd], Logical(v, Polarity(handle[pin[p].fd])))
  BY DEF SetValue
<1>4. CASE UNCHANGED <<driven, level>> BY <1>2, <1>4 DEF Leases!vars
<1>5. CASE ~UNCHANGED <<driven, level>>
  <2>1. /\ ~(pin[p].fd < 0) /\ IsOutput(handle[pin[p].fd])
        /\ Put(handle[pin[p].fd], Logical(v, Polarity(handle[pin[p].fd])))
    BY <1>3, <1>5
  <2>2. Holds(p)
    <3>1. pin[p].fd \in Fds \cup {-1} BY DEF Sound, Typed, PinRecords
    <3>2. life[p] = "alive" BY DEF SetValue, Ready
    <3> QED BY <3>1, <3>2, <2>1, Numbers DEF Holds
  <2>3. PICK k \in Lines : k = pin[p].line BY <2>2, Apart
  <2>4. handle[pin[p].fd].line = k /\ pin[p].direction # "In" BY <2>1, <2>2, <2>3, Apart
  <2>5. k \in Outputs BY <2>2, <2>3, <2>4 DEF Outputs
  <2>6. Leases!Drive(k)
    <3>1. Logical(v, Polarity(handle[pin[p].fd])) \in {0, 1} BY DEF Logical
    <3> QED BY <2>1, <2>4, <3>1 DEF Put, Leases!Drive
  <2> QED BY <1>2, <2>3, <2>5, <2>6 DEF Leases!Next, Leases!Set
<1> QED BY <1>4, <1>5

LEMMA OthersLeases ==
  ASSUME Sound, OwnersExact, OwnersExact', Others PROVE Leases!Next
<1>1. PICK l \in Lines : Take(l) \/ Release(l) BY DEF Others
<1>2. UNCHANGED <<life, pin, handle, driven, level>> BY DEF Others
<1>3. \A k \in Lines, q \in Pins : On(q, k)' <=> On(q, k) BY <1>2 DEF On, Holds
<1>4. \A q \in Pins : ~On(q, l)
  <2>1. \A q \in Pins : Holds(q) => /\ pin[q].fd \in Fds /\ IsOpen(pin[q].fd)
                                    /\ handle[pin[q].fd].line = pin[q].line
                                    /\ pin[q].line \notin foreign
    BY Apart
  <2> QED BY <1>1, <2>1 DEF Take, Release, Held, On
<1>5. \A k \in Lines \ {l} : k \in foreign <=> k \in foreign' BY <1>1 DEF Take, Release
<1>6. \A k \in Lines \ {l} : OwnerOf(k)' = OwnerOf(k) BY <1>3, <1>5, SameOwner
<1>7. Outputs' = Outputs BY <1>2 DEF Outputs, Holds
<1>8. CASE Take(l)
  <2>1. l \notin foreign /\ l \in foreign' BY <1>8 DEF Take, Held
  <2>2. OwnerOf(l) = "nobody" /\ OwnerOf(l)' = "other" BY <1>4, <2>1 DEF OwnersExact
  <2>3. Owners' = [Owners EXCEPT ![l] = "other"] /\ Owners[l] = "nobody"
    BY <1>6, <2>2 DEF Owners
  <2> QED BY <1>2, <1>7, <2>3 DEF Leases!Next, Leases!Take
<1>9. CASE Release(l)
  <2>1. l \in foreign /\ l \notin foreign' BY <1>9 DEF Release
  <2>2. OwnerOf(l) = "other" /\ OwnerOf(l)' = "nobody" BY <1>3, <1>4, <2>1 DEF OwnersExact
  <2>3. Owners' = [Owners EXCEPT ![l] = "nobody"] /\ Owners[l] = "other"
    BY <1>6, <2>2 DEF Owners
  <2> QED BY <1>2, <1>7, <2>3 DEF Leases!Next, Leases!Take
<1> QED BY <1>1, <1>8, <1>9

LEMMA OutsideLeases ==
  ASSUME Sound, Outside PROVE Leases!Next
<1>1. PICK l \in Lines \ driven : level' = [level EXCEPT ![l] = 1 - @] BY DEF Outside
<1>2. Owners' = Owners /\ Outputs' = Outputs /\ driven' = driven BY SameLeases DEF Outside
<1>3. PICK v \in {0, 1} : level' = [level EXCEPT ![l] = v]
  <2>1. 1 - level[l] \in {0, 1} BY DEF Sound, Typed
  <2> QED BY <1>1, <2>1
<1> QED BY <1>1, <1>2, <1>3 DEF Leases!Next, Leases!Outside

LEMMA LeasesStep ==
  ASSUME Sound, OwnersExact, OwnersExact', [Next]_vars
  PROVE  [Leases!Next]_(Leases!vars)
<1>1. Typed /\ Staged BY DEF Sound
<1>2. ASSUME UNCHANGED <<life, pin, foreign, driven, level>> PROVE UNCHANGED Leases!vars
  BY <1>2, SameLeases DEF Leases!vars
<1>3. ASSUME Quiet, driven' = driven, level' = level PROVE UNCHANGED Leases!vars BY <1>2, <1>3 DEF Quiet
<1>4. ASSUME NEW p \in Pins, Step(p) PROVE Leases!Next \/ UNCHANGED Leases!vars
  <2>1. CASE Construct(p) BY <1>1, <1>3, <2>1, ConstructYields, YieldsLeases
  <2>2. CASE Request(p) BY <1>1, <2>2, RequestGainsOrYields, YieldsLeases, GainsLeases
  <2>3. CASE Destroy(p) BY <1>1, <2>3, DestroyYields, YieldsLeases
  <2>4. CASE Get(p) BY <1>2, <2>4 DEF Get
  <2>5. CASE SetValue(p) BY <2>5, SetValueLeases
  <2>6. CASE \E c \in Configs : Ready(p) /\ Close(p, c)
    BY <1>1, <1>3, <2>6, CloseYields, YieldsLeases
  <2>7. CASE Quiet /\ driven' = driven /\ level' = level /\ asked' = asked /\ End(p, "returned") BY <1>3, <2>7
  <2> QED BY <1>4, <2>1, <2>2, <2>3, <2>4, <2>5, <2>6, <2>7, Setters
<1>5. CASE Others BY <1>5, OthersLeases
<1>6. CASE Outside BY <1>6, OutsideLeases
<1>7. CASE UNCHANGED vars BY <1>2, <1>7 DEF vars
<1> QED BY <1>4, <1>5, <1>6, <1>7 DEF Next

\* The pins implement LineLeases: a line changes hands by being free, the pin
\* that believes it holds one is its only owner, and owners alone drive.
THEOREM LeasesTheorem == Spec => ImplementsLeases
<1>1. Init => Leases!Init
  <2> SUFFICES ASSUME Init PROVE Leases!Init
    OBVIOUS
  <2>1. \A l \in Lines : OwnerOf(l) = "nobody" BY DEF Init, OwnerOf, Holds
  <2>2. Owners = [l \in Lines |-> "nobody"] BY <2>1 DEF Owners
  <2>3. Outputs = {} BY DEF Init, Outputs, Holds
  <2>4. level \in [Lines -> {0, 1}] /\ driven = {} BY DEF Init
  <2> QED BY <2>2, <2>3, <2>4 DEF Leases!Init
<1>2. Sound /\ Sound' /\ [Next]_vars => [Leases!Next]_(Leases!vars)
  <2>1. Sound => OwnersExact BY OwnersOf
  <2>2. Sound' => OwnersExact' BY OwnersOf, PTL
  <2> QED BY <2>1, <2>2, LeasesStep
<1> QED BY <1>1, <1>2, SoundInvariant, PTL DEF Spec, ImplementsLeases, Leases!Spec
=============================================================================
