-------------------------------- MODULE Gpio --------------------------------
(***************************************************************************)
(* periphery::GpioPin: an object that holds one GPIO line through a handle *)
(* the kernel gave it.  Every attribute of a line is fixed in the request  *)
(* for its handle, so each setter closes the handle and requests the line  *)
(* again.  The two system calls are two steps: in between nobody holds the *)
(* line, and another consumer may take it.                                 *)
(*                                                                         *)
(* Each pin object is used by one thread at a time; different objects, and *)
(* other processes, run at once.  The chip's descriptor stays open: every  *)
(* pin shares ownership of its chip.                                       *)
(***************************************************************************)
EXTENDS Integers, FiniteSets

CONSTANTS
  Pins,         \* the program's GpioPin objects
  Lines,        \* lines of the chip
  Fds,          \* descriptor numbers, reused from the lowest
  Configs,      \* bound: the combinations of attributes that callers pass
  CanFail       \* may a request fail although the line is free?

AllDirections == {"In", "Out", "Low", "High"}
AllEdges      == {"None", "Rising", "Falling", "Both"}
AllBiases     == {"Default", "PullUp", "PullDown", "Disable"}
AllDrives     == {"Default", "OpenDrain", "OpenSource"}
Inverts       == {"Off", "On"}

Attributes == [direction : AllDirections, edge : AllEdges, bias : AllBiases,
               drive : AllDrives, invert : Inverts]

ASSUME GpioAssumption ==
  /\ Fds \subseteq Nat
  /\ Configs \subseteq Attributes
  /\ "none" \notin Lines /\ {"nobody", "other"} \cap Pins = {}
  /\ CanFail \in BOOLEAN

VARIABLES
  life,     \* per pin: "none", "building" (in its constructor) or "alive"
  pin,      \* per pin: m_fd, m_line and the recorded attributes
  todo,     \* per pin: between close() and the request, {its new attributes}
  res,      \* per pin: how its last call ended, or what get() read
  handle,   \* kernel: what each descriptor number is
  foreign,  \* kernel: lines that other consumers hold
  driven,   \* kernel: lines that an output handle holds at a voltage; an open-drain
            \* or open-source output lets go of its line for one of the two
  level,    \* the voltage on each line, 0 or 1
  asked     \* history, per pin: the voltage its last command asked for

vars == <<life, pin, todo, res, handle, foreign, driven, level, asked>>

\* An open handle is for an input or an output.
NoLine == "none"
Closed == [line |-> NoLine, flags |-> {}, events |-> {}]

\* m_fd, m_line and the attributes c.
PinWith(f, l, c) ==
  [fd |-> f, line |-> l, direction |-> c.direction, edge |-> c.edge, bias |-> c.bias,
   drive |-> c.drive, invert |-> c.invert]

\* The recorded attributes, as reopen() takes them.
Config(p) == [direction |-> pin[p].direction, edge |-> pin[p].edge, bias |-> pin[p].bias,
              drive |-> pin[p].drive, invert |-> pin[p].invert]

\* The members while there is no object, of no account to anyone.
Blank == PinWith(-1, NoLine,
                 [direction |-> "Out", edge |-> "None", bias |-> "Default",
                  drive |-> "Default", invert |-> "Off"])

IsOpen(f)   == handle[f].flags # {}
IsOutput(h) == "OUTPUT" \in h.flags
Polarity(h) == IF "ACTIVE_LOW" \in h.flags THEN "On" ELSE "Off"
Held(l)     == l \in foreign \/ \E f \in Fds : IsOpen(f) /\ handle[f].line = l
Ready(p)    == life[p] = "alive" /\ todo[p] = {}

\* An open-drain output does not drive its line high, nor an open-source one low.
Drives(h, v) ==
  ~(v = 1 /\ "OPEN_DRAIN" \in h.flags) /\ ~(v = 0 /\ "OPEN_SOURCE" \in h.flags)

\* The output h puts the voltage v on its line, or leaves the line to others.
Put(h, v) ==
  IF Drives(h, v)
  THEN driven' = driven \cup {h.line} /\ level' = [level EXCEPT ![h.line] = v]
  ELSE driven' = driven \ {h.line} /\ UNCHANGED level
-----------------------------------------------------------------------------
(* reopen() *)

\* A line value as the kernel reports it: inverted for an active-low handle.
Logical(v, invert) == IF invert = "On" THEN 1 - v ELSE v

\* default_values[0] of an output request.  The kernel inverts it once more
\* for an active-low line, so the voltage is what the direction says.
InitialValueAdded(c) ==
  (IF c.direction = "High" THEN 1 ELSE 0) + (IF c.invert = "On" THEN 1 ELSE 0)
InitialValueNotInverted(c) == IF c.direction = "High" THEN 1 ELSE 0
InitialValue(c) == Logical(IF c.direction = "High" THEN 1 ELSE 0, c.invert)

\* to_request(): the kernel's flags for each attribute.  That for a bias throws
\* for all but the default, before anything is done: the other version of it
\* does not compile.
EdgeFlags ==
  [None |-> {}, Rising |-> {"RISING_EDGE"}, Falling |-> {"FALLING_EDGE"},
   Both |-> {"RISING_EDGE", "FALLING_EDGE"}]
DriveFlags ==
  [Default |-> {}, OpenDrain |-> {"OPEN_DRAIN"}, OpenSource |-> {"OPEN_SOURCE"}]
InvertFlags    == [Off |-> {}, On |-> {"ACTIVE_LOW"}]
DirectionFlags == [In |-> {"INPUT"}, Out |-> {"OUTPUT"}, Low |-> {"OUTPUT"}, High |-> {"OUTPUT"}]
BiasRefused(c) == c.bias # "Default"

\* What is requested: an input, an input that reports edges, or an output.
WantedNotInverted(l, c) ==
  [line   |-> l,
   flags  |-> DriveFlags[c.drive] \cup DirectionFlags[c.direction],
   events |-> IF c.direction = "In" THEN EdgeFlags[c.edge] ELSE {}]
Wanted(l, c) ==
  [line   |-> l,
   flags  |-> DriveFlags[c.drive] \cup InvertFlags[c.invert] \cup DirectionFlags[c.direction],
   events |-> IF c.direction = "In" THEN EdgeFlags[c.edge] ELSE {}]

\* The kernel refuses a drive mode for an input, and a line that is held.
Grantable(h) == ~Held(h.line) /\ (IsOutput(h) \/ h.flags \cap {"OPEN_DRAIN", "OPEN_SOURCE"} = {})

End(p, how) == res' = [res EXCEPT ![p] = how]

\* The descriptor of p is closed, if it has one, and its line is let go.
CloseFd(p) ==
  IF pin[p].fd >= 0
  THEN /\ handle' = [handle EXCEPT ![pin[p].fd] = Closed]
       /\ driven' = driven \ {handle[pin[p].fd].line}
  ELSE UNCHANGED <<handle, driven>>

\* The first half of reopen(): a bias is refused before anything is done, and
\* close() fails only for a number that is not open.
CloseKeepsFd(p, c) ==
  /\ CloseFd(p)
  /\ todo' = [todo EXCEPT ![p] = {c}]
  /\ End(p, "pending")
  /\ UNCHANGED <<life, pin, foreign, level, asked>>
Close(p, c) ==
  IF BiasRefused(c) \/ (pin[p].fd >= 0 /\ ~IsOpen(pin[p].fd))
  THEN End(p, "threw") /\ UNCHANGED <<life, pin, todo, handle, foreign, driven, level, asked>>
  ELSE /\ CloseFd(p)
       /\ pin' = [pin EXCEPT ![p].fd = -1]
       /\ todo' = [todo EXCEPT ![p] = {c}]
       /\ End(p, "pending")
       /\ UNCHANGED <<life, foreign, level, asked>>

\* The second half: the request, and the attributes recorded if it is granted.
\* A constructor that throws leaves no object.
Granted(p, c) ==
  LET h == Wanted(pin[p].line, c)
      v == Logical(InitialValue(c), c.invert)
  IN  /\ Grantable(h)
      /\ \E f \in Fds :
           /\ ~IsOpen(f) /\ \A g \in Fds : g < f => IsOpen(g)
           /\ handle' = [handle EXCEPT ![f] = h]
           /\ pin' = [pin EXCEPT ![p] = PinWith(f, h.line, c)]
      /\ life' = [life EXCEPT ![p] = "alive"]
      /\ IF IsOutput(h) THEN Put(h, v) ELSE UNCHANGED <<driven, level>>
      /\ asked' = [asked EXCEPT ![p] = IF c.direction = "High" THEN 1 ELSE 0]
      /\ End(p, "returned")

RefusedSilently(p, c) ==
  /\ CanFail \/ ~Grantable(Wanted(pin[p].line, c)) \/ \A f \in Fds : IsOpen(f)
  /\ IF life[p] = "building"
     THEN life' = [life EXCEPT ![p] = "none"] /\ pin' = [pin EXCEPT ![p] = Blank]
     ELSE UNCHANGED <<life, pin>>
  /\ End(p, "returned")
  /\ UNCHANGED <<handle, driven, level, asked>>
Refused(p, c) ==
  /\ CanFail \/ ~Grantable(Wanted(pin[p].line, c)) \/ \A f \in Fds : IsOpen(f)
  /\ IF life[p] = "building"
     THEN life' = [life EXCEPT ![p] = "none"] /\ pin' = [pin EXCEPT ![p] = Blank]
     ELSE UNCHANGED <<life, pin>>
  /\ End(p, "threw")
  /\ UNCHANGED <<handle, driven, level, asked>>

Request(p) ==
  \E c \in todo[p] :
    /\ Granted(p, c) \/ Refused(p, c)
    /\ todo' = [todo EXCEPT ![p] = {}]
    /\ UNCHANGED foreign
-----------------------------------------------------------------------------
(* The member functions. *)

\* The constructor: m_fd is -1, and the attributes are not set before reopen()
\* sets them.
Construct(p) ==
  /\ life[p] = "none"
  /\ \E l \in Lines, c \in Configs :
       IF BiasRefused(c)
       THEN End(p, "threw") /\ UNCHANGED <<life, pin, todo>>
       ELSE /\ life' = [life EXCEPT ![p] = "building"]
            /\ pin' = [pin EXCEPT ![p].fd = -1, ![p].line = l]
            /\ todo' = [todo EXCEPT ![p] = {c}]
            /\ End(p, "pending")
  /\ UNCHANGED <<handle, foreign, driven, level, asked>>

DestroyNoClose(p) ==
  /\ Ready(p)
  /\ life' = [life EXCEPT ![p] = "none"]
  /\ pin' = [pin EXCEPT ![p] = Blank]
  /\ End(p, "returned")
  /\ UNCHANGED <<todo, handle, foreign, driven, level, asked>>
Destroy(p) ==
  /\ Ready(p)
  /\ life' = [life EXCEPT ![p] = "none"]
  /\ CloseFd(p)
  /\ pin' = [pin EXCEPT ![p] = Blank]
  /\ End(p, "returned")
  /\ UNCHANGED <<todo, foreign, level, asked>>

Reconfigure(p) == Ready(p) /\ \E c \in Configs : Close(p, c)

\* A setter does nothing for the value that is recorded already.
Set(p, c) ==
  IF c = Config(p) THEN End(p, "returned") /\ UNCHANGED <<life, pin, todo, handle, foreign, driven, level, asked>>
  ELSE Close(p, c)

\* A setter passes reopen() the recorded attributes but one.
SetDirection(p) ==
  Ready(p) /\ \E c \in Configs : c = [Config(p) EXCEPT !.direction = c.direction] /\ Set(p, c)
SetEdge(p) ==
  Ready(p) /\ \E c \in Configs : c = [Config(p) EXCEPT !.edge = c.edge] /\ Set(p, c)
SetBias(p) ==
  Ready(p) /\ \E c \in Configs : c = [Config(p) EXCEPT !.bias = c.bias] /\ Set(p, c)
SetDrive(p) ==
  Ready(p) /\ \E c \in Configs : c = [Config(p) EXCEPT !.drive = c.drive] /\ Set(p, c)
SetInvert(p) ==
  Ready(p) /\ \E c \in Configs : c = [Config(p) EXCEPT !.invert = c.invert] /\ Set(p, c)

\* get() reads the line through the handle, whatever kind it is.
Get(p) ==
  /\ Ready(p)
  /\ IF pin[p].fd < 0 \/ ~IsOpen(pin[p].fd) THEN End(p, "threw")
     ELSE LET h == handle[pin[p].fd]
          IN  End(p, IF Logical(level[h.line], Polarity(h)) = 1 THEN "high" ELSE "low")
  /\ UNCHANGED <<life, pin, todo, handle, foreign, driven, level, asked>>

\* set() writes it, if the handle is for an output.
SetValue(p) ==
  /\ Ready(p)
  /\ \E v \in {0, 1} :
       IF pin[p].fd < 0 \/ ~IsOpen(pin[p].fd) \/ ~IsOutput(handle[pin[p].fd])
       THEN End(p, "threw") /\ UNCHANGED <<driven, level, asked>>
       ELSE LET h == handle[pin[p].fd]
            IN  /\ Put(h, Logical(v, Polarity(h)))
                /\ asked' = [asked EXCEPT ![p] = Logical(v, pin[p].invert)]
                /\ End(p, "returned")
  /\ UNCHANGED <<life, pin, todo, handle, foreign>>
-----------------------------------------------------------------------------
(* The rest of the machine. *)

\* Another process requests or releases a line, as anything.
Take(l)    == ~Held(l) /\ foreign' = foreign \cup {l}
Release(l) == l \in foreign /\ foreign' = foreign \ {l}

Others ==
  /\ \E l \in Lines : Take(l) \/ Release(l)
  /\ UNCHANGED <<life, pin, todo, res, handle, driven, level, asked>>

\* Something outside changes the voltage of a line this program does not drive,
\* an output that has let go of its line included.
Outside ==
  /\ \E l \in Lines \ driven : level' = [level EXCEPT ![l] = 1 - @]
  /\ UNCHANGED <<life, pin, todo, res, handle, foreign, driven, asked>>
-----------------------------------------------------------------------------
Init ==
  /\ life = [p \in Pins |-> "none"]
  /\ pin = [p \in Pins |-> Blank]
  /\ todo = [p \in Pins |-> {}]
  /\ res = [p \in Pins |-> "pending"]
  /\ handle = [f \in Fds |-> Closed]
  /\ foreign = {} /\ driven = {}
  /\ level = [l \in Lines |-> 0]
  /\ asked = [p \in Pins |-> 0]

Step(p) ==
  \/ Construct(p) \/ Request(p) \/ Destroy(p) \/ Reconfigure(p)
  \/ SetDirection(p) \/ SetEdge(p) \/ SetBias(p) \/ SetDrive(p) \/ SetInvert(p)
  \/ Get(p) \/ SetValue(p)

Next == Others \/ Outside \/ \E p \in Pins : Step(p)

Spec == Init /\ [][Next]_vars
-----------------------------------------------------------------------------
(* Properties. *)

Handles ==
  [line   : Lines \cup {NoLine},
   flags  : SUBSET {"INPUT", "OUTPUT", "ACTIVE_LOW", "OPEN_DRAIN", "OPEN_SOURCE"},
   events : SUBSET {"RISING_EDGE", "FALLING_EDGE"}]

\* Every variable has the shape the C++ and kernel types give it.
TypeOK ==
  /\ life \in [Pins -> {"none", "building", "alive"}]
  /\ \A p \in Pins : /\ pin[p].fd \in Fds \cup {-1} /\ pin[p].line \in Lines \cup {NoLine}
                     /\ Config(p) \in Attributes
                     /\ todo[p] \subseteq Attributes /\ Cardinality(todo[p]) <= 1
  /\ res \in [Pins -> {"pending", "returned", "threw", "low", "high"}]
  /\ handle \in [Fds -> Handles]
  /\ foreign \subseteq Lines /\ driven \subseteq Lines
  /\ level \in [Lines -> {0, 1}] /\ asked \in [Pins -> {0, 1}]

Holds(p) == life[p] = "alive" /\ pin[p].fd >= 0

\* However the pins' two-step reopens fail and interleave, and although numbers
\* are reused, a pin's m_fd is always a handle the kernel gave to that pin for
\* its line: no pin closes, reads or writes what is another's.
HandleOwned ==
  \A p \in Pins : Holds(p) =>
    /\ IsOpen(pin[p].fd) /\ handle[pin[p].fd].line = pin[p].line
    /\ \A q \in Pins \ {p} : Holds(q) => pin[q].fd # pin[p].fd

\* No handle is lost: an open one is some living pin's, so the line is released
\* with the pin, and a failed constructor or setter leaves no line held.
NoHandleLeaked ==
  \A f \in Fds : IsOpen(f) => \E p \in Pins : Holds(p) /\ pin[p].fd = f

\* The attributes a pin reports are those its handle was requested with, also
\* when setters failed before: none is recorded that is not in effect.
RecordedInEffect ==
  \A p \in Pins : Holds(p) =>
    LET h == handle[pin[p].fd]
    IN  /\ IsOutput(h) <=> pin[p].direction # "In"
        /\ Polarity(h) = pin[p].invert
        /\ "OPEN_DRAIN" \in h.flags <=> pin[p].drive = "OpenDrain"
        /\ "OPEN_SOURCE" \in h.flags <=> pin[p].drive = "OpenSource"
        /\ pin[p].direction = "In" =>
             /\ "RISING_EDGE" \in h.events <=> pin[p].edge \in {"Rising", "Both"}
             /\ "FALLING_EDGE" \in h.events <=> pin[p].edge \in {"Falling", "Both"}

\* Is an output of this drive mode to let go of its line for the voltage v?
LetsGo(drive, v) == (drive = "OpenDrain" /\ v = 1) \/ (drive = "OpenSource" /\ v = 0)

\* An output drives the voltage its pin asked for last: that of the direction
\* for the first value, whatever invert says, and the inverted value for set().
\* While it drives, get() reports that back through the same inversion, even
\* long after; it lets go exactly when its drive mode cannot give that voltage,
\* and then whoever pulls the line decides what get() reads.
LevelAsAsked ==
  \A p \in Pins :
    Holds(p) /\ pin[p].direction # "In" =>
      /\ pin[p].line \in driven <=> ~LetsGo(pin[p].drive, asked[p])
      /\ pin[p].line \in driven =>
           /\ level[pin[p].line] = asked[p]
           /\ res[p] \in {"low", "high"} => (res[p] = "high") = (Logical(asked[p], pin[p].invert) = 1)

\* A call may cost a pin its line, but only by throwing: when one returns, the
\* pin holds a handle, unless an earlier call had lost it.
LostOnlyByThrowing ==
  [][\A p \in Pins :
       life[p] = "alive" /\ life'[p] = "alive" /\ res'[p] # "threw"
         => (Holds(p) \/ todo[p] # {} => Holds(p)' \/ todo'[p] # {})]_vars

\* What others see of the pins.
OwnerOf(l) ==
  IF l \in foreign THEN "other"
  ELSE IF \E p \in Pins : Holds(p) /\ pin[p].line = l
  THEN CHOOSE p \in Pins : Holds(p) /\ pin[p].line = l
  ELSE "nobody"

Owners == [l \in Lines |-> OwnerOf(l)]
Outputs == {l \in Lines : \E p \in Pins : Holds(p) /\ pin[p].line = l /\ pin[p].direction # "In"}

Leases == INSTANCE LineLeases WITH
  Nobody <- "nobody", Other <- "other", owner <- Owners, outputs <- Outputs

\* A pin that believes it holds a line is the only one with it, and takes it
\* over from nobody: a setter gives its line up and asks for it again, as
\* anyone may.  Only the pin that owns an output drives it or lets go of it,
\* and what is driven nobody else moves.
ImplementsLeases == Leases!Spec
=============================================================================
