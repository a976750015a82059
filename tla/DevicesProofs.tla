---------------------------- MODULE DevicesProofs ----------------------------
(***************************************************************************)
(* Theorems about Devices: who owns which descriptor, what the serial port *)
(* is set to, and what transfers on the I2C bus do, for any objects,       *)
(* numbers, arguments, messages and failures.                              *)
(***************************************************************************)
EXTENDS Devices, WellFoundedInduction, TLAPS

Records == [class : Classes \cup {"none"}, fd : Fds \cup {-1},
            stage : {"none", "opened", "alive"}]

\* Owned, and what it takes to be kept: an object that is being made or lives
\* has a number of the table, any other has none.
Owned ==
  /\ object \in [Objects -> Records]
  /\ table \in [Fds -> Classes \cup {"none"}]
  /\ \A o \in Objects :
       /\ object[o].stage = "none" => object[o] = NoObject
       /\ object[o].stage # "none" => object[o].class \in Classes
  /\ DescriptorsOwned

\* A descriptor goes to an object that had none, from the free numbers.
LEMMA OpensOwned ==
  ASSUME Owned, NEW o \in Objects, NEW class \in Classes, NEW stage \in {"opened", "alive"},
         Is(o, "none", "none"), Opens(o, class, stage)
  PROVE  Owned'
<1> USE DescriptorsAssumption DEF Owned, DescriptorsOwned, Records, IsFree, NoObject
<1>1. PICK f \in Fds : /\ IsFree(f)
                       /\ table' = [table EXCEPT ![f] = class]
                       /\ object' = [object EXCEPT ![o] = [class |-> class, fd |-> f, stage |-> stage]]
  BY DEF Opens
<1>2. class # "none" /\ stage # "none" BY DEF Classes
<1>3. object[o].stage = "none" /\ object[o].fd = -1 BY DEF Is
<1>4. object' \in [Objects -> Records] /\ table' \in [Fds -> Classes \cup {"none"}]
  BY <1>1
<1>5. object'[o] = [class |-> class, fd |-> f, stage |-> stage] /\ table'[f] = class
  BY <1>1
<1>6. \A p \in Objects \ {o} : object'[p] = object[p]
  BY <1>1
<1>7. \A g \in Fds \ {f} : table'[g] = table[g]
  BY <1>1
<1>8. \A p \in Objects \ {o} : object[p].fd # f
  <2> SUFFICES ASSUME NEW p \in Objects \ {o}, object[p].fd = f PROVE FALSE
    OBVIOUS
  <2>1. object[p].stage # "none" BY <1>1, f # -1
  <2> QED BY <2>1, <1>1 DEF Classes
<1>9. \A p \in Objects :
        /\ object'[p].stage = "none" => object'[p] = NoObject
        /\ object'[p].stage # "none" => object'[p].class \in Classes
  BY <1>2, <1>5, <1>6
<1>10. \A p \in Objects :
         object'[p].stage # "none" =>
           /\ object'[p].fd \in Fds /\ table'[object'[p].fd] = object'[p].class
           /\ \A q \in Objects \ {p} : object'[q].fd # object'[p].fd
  <2> SUFFICES ASSUME NEW p \in Objects, object'[p].stage # "none"
               PROVE  /\ object'[p].fd \in Fds /\ table'[object'[p].fd] = object'[p].class
                      /\ \A q \in Objects \ {p} : object'[q].fd # object'[p].fd
    OBVIOUS
  <2>1. CASE p = o BY <2>1, <1>5, <1>6, <1>8
  <2>2. CASE p # o
    <3>1. object'[p] = object[p] /\ object[p].stage # "none" BY <2>2, <1>6
    <3>2. object[p].fd \in Fds \ {f} /\ table[object[p].fd] = object[p].class
      BY <2>2, <3>1, <1>8
    <3>3. table'[object[p].fd] = object[p].class BY <3>2, <1>7
    <3>4. ASSUME NEW q \in Objects \ {p} PROVE object'[q].fd # object[p].fd
      <4>1. CASE q = o BY <4>1, <1>5, <3>2
      <4>2. CASE q # o BY <4>2, <1>6, <3>1
      <4> QED BY <4>1, <4>2
    <3> QED BY <3>1, <3>2, <3>3, <3>4
  <2> QED BY <2>1, <2>2
<1>11. \A g \in Fds : table'[g] # "none" => \E p \in Objects : object'[p].fd = g
  <2> SUFFICES ASSUME NEW g \in Fds, table'[g] # "none"
               PROVE  \E p \in Objects : object'[p].fd = g
    OBVIOUS
  <2>1. CASE g = f BY <2>1, <1>5
  <2>2. CASE g # f
    <3>1. PICK p \in Objects : object[p].fd = g BY <2>2, <1>7
    <3>2. p # o BY <3>1, <1>3
    <3> QED BY <3>1, <3>2, <1>6
  <2> QED BY <2>1, <2>2
<1> QED BY <1>4, <1>9, <1>10, <1>11

\* An object gives its descriptor back as it goes.
LEMMA ClosesOwned ==
  ASSUME Owned, NEW o \in Objects, object[o].stage # "none", Abandon(o)
  PROVE  Owned'
<1> USE DescriptorsAssumption DEF Owned, DescriptorsOwned, Records, IsFree, NoObject
<1> DEFINE f == object[o].fd
<1>1. f \in Fds OBVIOUS
<1>2. object'[o] = NoObject /\ table'[f] = "none" BY <1>1 DEF Abandon
<1>3. \A p \in Objects \ {o} : object'[p] = object[p] BY DEF Abandon
<1>4. \A g \in Fds \ {f} : table'[g] = table[g] BY DEF Abandon
<1>5. object' \in [Objects -> Records] /\ table' \in [Fds -> Classes \cup {"none"}]
  BY <1>1 DEF Abandon
<1>6. \A p \in Objects :
        /\ object'[p].stage = "none" => object'[p] = NoObject
        /\ object'[p].stage # "none" => object'[p].class \in Classes
  BY <1>2, <1>3
<1>7. \A p \in Objects :
        object'[p].stage # "none" =>
          /\ object'[p].fd \in Fds /\ table'[object'[p].fd] = object'[p].class
          /\ \A q \in Objects \ {p} : object'[q].fd # object'[p].fd
  <2> SUFFICES ASSUME NEW p \in Objects, object'[p].stage # "none"
               PROVE  /\ object'[p].fd \in Fds /\ table'[object'[p].fd] = object'[p].class
                      /\ \A q \in Objects \ {p} : object'[q].fd # object'[p].fd
    OBVIOUS
  <2>1. p # o BY <1>2
  <2>2. object[p].stage # "none" /\ object'[p] = object[p] BY <2>1, <1>3
  <2>3. object[p].fd \in Fds \ {f} BY <2>1, <2>2
  <2>4. ASSUME NEW q \in Objects \ {p} PROVE object'[q].fd # object[p].fd
    <3>1. CASE q = o BY <3>1, <1>2, <2>3
    <3>2. CASE q # o BY <3>2, <1>3, <2>2
    <3> QED BY <3>1, <3>2
  <2>5. table'[object[p].fd] = object[p].class BY <2>2, <2>3, <1>4
  <2> QED BY <2>2, <2>3, <2>4, <2>5
<1>8. \A g \in Fds : table'[g] # "none" => \E p \in Objects : object'[p].fd = g
  <2> SUFFICES ASSUME NEW g \in Fds, table'[g] # "none"
               PROVE  \E p \in Objects : object'[p].fd = g
    OBVIOUS
  <2>1. g # f BY <1>2
  <2>2. PICK p \in Objects : object[p].fd = g BY <2>1, <1>4
  <2> QED BY <2>1, <2>2, <1>3
<1> QED BY <1>5, <1>6, <1>7, <1>8

\* The constructor returns with the descriptor it opened.
LEMMA CompleteOwned ==
  ASSUME Owned, NEW o \in Objects, object[o].stage = "opened", Complete(o)
  PROVE  Owned'
<1> USE DescriptorsAssumption DEF Owned, DescriptorsOwned, Records, IsFree, NoObject
<1>1. object'[o] = [object[o] EXCEPT !.stage = "alive"] BY DEF Complete
<1>2. \A p \in Objects \ {o} : object'[p] = object[p] BY DEF Complete
<1>3. /\ object'[o].class = object[o].class /\ object'[o].fd = object[o].fd
      /\ object'[o].stage = "alive"
  BY <1>1
<1>4. object' \in [Objects -> Records] /\ table' = table BY DEF Complete
<1>5. \A p \in Objects : /\ object'[p].fd = object[p].fd /\ object'[p].class = object[p].class
                         /\ object'[p].stage # "none" <=> object[p].stage # "none"
  BY <1>2, <1>3
<1>6. \A p \in Objects : object'[p].stage = "none" => object'[p] = NoObject
  BY <1>2, <1>3
<1> QED BY <1>4, <1>5, <1>6

LEMMA UnchangedOwned ==
  ASSUME Owned, UNCHANGED descriptorVars PROVE Owned'
BY DEF Owned, DescriptorsOwned, descriptorVars, IsFree

\* What a step may do with descriptors, whichever class it is of.
LEMMA ConstructOwned ==
  ASSUME Owned, NEW o \in Objects, NEW class \in Classes, NEW stage \in {"opened", "alive"},
         Construct(o, class, stage)
  PROVE  Owned'
<1>1. CASE Is(o, "none", "none") /\ Opens(o, class, stage) BY <1>1, OpensOwned
<1>2. CASE OpenFails BY <1>2, UnchangedOwned DEF OpenFails
<1> QED BY <1>1, <1>2 DEF Construct

LEMMA DestroyOwned ==
  ASSUME Owned, NEW o \in Objects, NEW class, Destroy(o, class)
  PROVE  Owned'
<1>1. object[o].stage # "none" /\ Abandon(o) BY DEF Destroy, Is, Abandon
<1> QED BY <1>1, ClosesOwned

LEMMA OwnedStep == ASSUME Owned, [Next]_vars PROVE Owned'
<1> USE DEF Classes
<1>1. ASSUME NEW o \in Objects, Device(o) PROVE Owned'
  BY <1>1, ConstructOwned, DestroyOwned, UnchangedOwned DEF Device, OpenDevice, CloseDevice
<1>2. ASSUME NEW o \in Objects, Chip(o) PROVE Owned'
  <2>1. CASE OpenChip(o) BY <2>1, ConstructOwned DEF OpenChip
  <2>2. CASE QueryChip(o) BY <2>2, CompleteOwned, ClosesOwned DEF QueryChip, Is
  <2>3. CASE CloseChip(o) BY <2>3, DestroyOwned DEF CloseChip
  <2> QED BY <1>2, <2>1, <2>2, <2>3 DEF Chip
<1>3. ASSUME NEW o \in Objects, Port(o) PROVE Owned'
  <2>1. CASE OpenPort(o) BY <2>1, ConstructOwned, UnchangedOwned DEF OpenPort
  <2>2. CASE SetPort(o) BY <2>2, CompleteOwned, ClosesOwned DEF SetPort, Is
  <2>3. CASE ClosePort(o) BY <2>3, DestroyOwned DEF ClosePort
  <2> QED BY <1>3, <2>1, <2>2, <2>3 DEF Port
<1>4. ASSUME NEW o \in Objects, Bus(o) PROVE Owned'
  <2>1. CASE OpenBus(o) BY <2>1, ConstructOwned DEF OpenBus
  <2>2. CASE QueryFunctions(o) BY <2>2, CompleteOwned, ClosesOwned DEF QueryFunctions, Is
  <2>3. CASE CloseBus(o) BY <2>3, DestroyOwned DEF CloseBus
  <2>4. CASE Transfer(o) BY <2>4, UnchangedOwned DEF Transfer
  <2> QED BY <1>4, <2>1, <2>2, <2>3, <2>4 DEF Bus
<1>5. CASE UNCHANGED descriptorVars BY <1>5, UnchangedOwned
<1>6. CASE UNCHANGED vars BY <1>6, UnchangedOwned DEF vars, descriptorVars
<1> QED BY <1>1, <1>2, <1>3, <1>4, <1>5, <1>6 DEF Next

LEMMA OwnedInvariant == Spec => []Owned
<1>1. Init => Owned
  BY DescriptorsAssumption
  DEF Init, DescriptorsInit, Owned, DescriptorsOwned, Records, NoObject, IsFree
<1>2. Owned /\ [Next]_vars => Owned' BY OwnedStep
<1> QED BY <1>1, <1>2, PTL DEF Spec

\* Whatever constructors and destructors of whichever classes interleave and
\* fail, every living object has an open descriptor of its own, and every open
\* descriptor has an object: none is leaked, and none closed twice.
THEOREM OwnedTheorem == Spec => []DescriptorsOwned
<1>1. Owned => DescriptorsOwned BY DEF Owned
<1> QED BY <1>1, OwnedInvariant, PTL
-----------------------------------------------------------------------------
(* The serial port. *)

\* The port has the flags of Termios(c), but for what its driver cannot do.
AsSet(c) ==
  /\ settings.iflag = Termios(c).iflag
  /\ settings.oflag = {} /\ settings.lflag = {}
  /\ settings.vmin = 0 /\ settings.vtime = 0 /\ settings.speed = c.baud
  /\ settings.vstart = 0 /\ settings.vstop = 0
  /\ \A flag : flag \notin stuck => (flag \in settings.cflag <=> flag \in Termios(c).cflag)

\* Constructors go on with arguments that passed the checks, and what the last
\* one asked for is what the port has.
PortInv ==
  /\ stuck \in Drivers /\ stuck \subseteq {"CRTSCTS"}
  /\ args \in [Objects -> SUBSET Calls]
  /\ \A o \in Objects : \A c \in args[o] : Valid(c)
  /\ asked \subseteq Calls
  /\ \A c \in asked : Valid(c) /\ AsSet(c)

\* tcsetattr() makes the port as asked, whatever it was before.
LEMMA AdoptedAsSet ==
  ASSUME NEW c, settings' = Adopted(Termios(c)), stuck' = stuck
  PROVE  AsSet(c)'
BY DEF AsSet, Adopted, Termios

LEMMA PortStep == ASSUME PortInv, [Next]_vars PROVE PortInv'
<1> USE DEF PortInv
<1>1. CASE UNCHANGED portVars BY <1>1 DEF portVars, AsSet
<1>2. ASSUME NEW o \in Objects, OpenPort(o) PROVE PortInv'
  <2>1. PICK c \in Calls :
          /\ IF Valid(c) THEN Construct(o, "Serial", "opened")
                         ELSE Is(o, "none", "none") /\ UNCHANGED descriptorVars
          /\ args' = [args EXCEPT ![o] = IF object'[o].stage = "opened" THEN {c} ELSE {}]
          /\ UNCHANGED <<settings, stuck, asked>>
    BY <1>2 DEF OpenPort
  <2>2. object'[o].stage = "opened" => Valid(c) BY <2>1 DEF Is, descriptorVars
  <2>3. args' \in [Objects -> SUBSET Calls] BY <2>1
  <2>4. \A p \in Objects : \A d \in args'[p] : Valid(d) BY <2>1, <2>2
  <2>5. \A d \in asked' : Valid(d) /\ AsSet(d)' BY <2>1 DEF AsSet
  <2> QED BY <2>1, <2>3, <2>4, <2>5 DEF Valid
<1>3. ASSUME NEW o \in Objects, SetPort(o) PROVE PortInv'
  <2>1. args' = [args EXCEPT ![o] = {}] /\ stuck' = stuck BY <1>3 DEF SetPort
  <2>2. \A d \in asked' : Valid(d) /\ AsSet(d)'
    <3>1. PICK c \in args[o] :
            \/ settings' = Adopted(Termios(c)) /\ asked' = {c}
            \/ UNCHANGED <<settings, asked>>
      BY <1>3 DEF SetPort
    <3>2. CASE settings' = Adopted(Termios(c)) /\ asked' = {c}
      BY <3>2, <2>1, AdoptedAsSet
    <3>3. CASE UNCHANGED <<settings, asked>> BY <3>3, <2>1 DEF AsSet
    <3> QED BY <3>1, <3>2, <3>3
  <2>3. asked' \subseteq Calls BY <1>3 DEF SetPort
  <2> QED BY <2>1, <2>2, <2>3 DEF Valid
<1>4. ASSUME NEW o \in Objects, ClosePort(o) PROVE PortInv'
  BY <1>4, <1>1 DEF ClosePort
<1>5. CASE Stty BY <1>5 DEF Stty, Valid
<1>6. CASE UNCHANGED vars BY <1>6, <1>1 DEF vars, portVars
<1> QED BY <1>1, <1>2, <1>3, <1>4, <1>5, <1>6 DEF Next, Port

LEMMA PortInvariant == Spec => []PortInv
<1>1. Init => PortInv
  BY SerialPortAssumption DEF Init, PortInit, PortInv
<1>2. PortInv /\ [Next]_vars => PortInv' BY PortStep
<1> QED BY <1>1, <1>2, PTL DEF Spec

\* Rate, data bits, parity, stop bits and RTS/CTS, as the kernel reads the
\* flags, are what was asked for, for all the arguments that pass the checks,
\* whatever settings the port had before and whatever constructors fail, if
\* RTS/CTS is all that a driver cannot do; no byte stops a port for which none
\* was asked.  That XON and XOFF do when they were asked for is not true.
THEOREM SettingsTheorem == Spec => []SettingsAsAsked
<1>1. PortInv => SettingsAsAsked
  <2> SUFFICES ASSUME PortInv, NEW c \in asked
               PROVE  /\ LineRate(settings) = c.baud
                      /\ LineBits(settings) =
                           [Five |-> 5, Six |-> 6, Seven |-> 7, Eight |-> 8][c.databits]
                      /\ LineParity(settings) = c.parity
                      /\ LineStops(settings) = c.stopbits
                      /\ c.handshake \in {"None", "RtsCts"} => ~StopsByBytes(settings)
                      /\ "CRTSCTS" \notin stuck
                           => (StopsByWire(settings) <=> c.handshake \in {"RtsCts", "RtsCtsXonXoff"})
    BY DEF SettingsAsAsked
  <2>1. Valid(c) /\ AsSet(c) BY DEF PortInv
  <2>2. \A flag : flag # "CRTSCTS" => flag \notin stuck BY DEF PortInv
  <2>3. LineRate(settings) = c.baud BY <2>1 DEF LineRate, AsSet
  <2>4. LineBits(settings) = [Five |-> 5, Six |-> 6, Seven |-> 7, Eight |-> 8][c.databits]
    <3>1. /\ "CSIZE_0" \in settings.cflag <=> "CSIZE_0" \in SizeFlags[c.databits]
          /\ "CSIZE_1" \in settings.cflag <=> "CSIZE_1" \in SizeFlags[c.databits]
      BY <2>1, <2>2 DEF AsSet, Termios, FlagsIf
    <3>2. c.databits \in {"Five", "Six", "Seven", "Eight"} BY <2>1 DEF Valid, DataBits
    <3> QED BY <3>1, <3>2 DEF LineBits, SizeFlags
  <2>5. LineParity(settings) = c.parity
    <3>1. \A flag \in SizeFlags[c.databits] : flag # "PARENB" /\ flag # "PARODD"
      BY <2>1 DEF SizeFlags, Valid, DataBits
    <3>2. /\ "PARENB" \in settings.cflag <=> c.parity # "None"
          /\ "PARODD" \in settings.cflag <=> c.parity = "Odd"
      BY <3>1, <2>1, <2>2 DEF AsSet, Termios, FlagsIf
    <3> QED BY <3>2, <2>1 DEF LineParity, Valid, Parities
  <2>6. LineStops(settings) = c.stopbits
    <3>1. "CSTOPB" \notin SizeFlags[c.databits] BY <2>1 DEF SizeFlags, Valid, DataBits
    <3>2. "CSTOPB" \in settings.cflag <=> c.stopbits = "Two"
      BY <3>1, <2>1, <2>2 DEF AsSet, Termios, FlagsIf
    <3> QED BY <3>2, <2>1 DEF LineStops, Valid, StopBits
  <2>7. c.handshake \in {"None", "RtsCts"} => ~StopsByBytes(settings)
    BY <2>1 DEF StopsByBytes, AsSet, Termios, FlagsIf
  <2>8. "CRTSCTS" \notin stuck
          => (StopsByWire(settings) <=> c.handshake \in {"RtsCts", "RtsCtsXonXoff"})
    <3>1. "CRTSCTS" \notin SizeFlags[c.databits] BY <2>1 DEF SizeFlags, Valid, DataBits
    <3> QED BY <3>1, <2>1 DEF StopsByWire, AsSet, Termios, FlagsIf
  <2> QED BY <2>3, <2>4, <2>5, <2>6, <2>7, <2>8
<1> QED BY <1>1, PortInvariant, PTL

\* Nothing is left from before, or set by the way, that would hold a byte back,
\* echo it, drop it or change it but for the eighth bit with parity: for every
\* byte and all valid arguments, those with XON/XOFF too.
THEOREM BytesTheorem == Spec => []BytesUnchanged
<1>1. PortInv => BytesUnchanged
  <2> DEFINE Kept(c, b) == IF c.parity = "None" THEN b ELSE b % 128
  <2> SUFFICES ASSUME PortInv, NEW c \in asked
               PROVE  /\ settings.vmin = 0 /\ settings.vtime = 0 /\ "ICANON" \notin settings.lflag
                      /\ \A b \in Probes \cap (0 .. 2 ^ LineBits(settings) - 1) :
                           /\ Transmitted(settings, b) = <<b>> /\ Echoed(settings, b) = <<>>
                           /\ Received(settings, b) = <<Kept(c, b)>>
    BY DEF BytesUnchanged
  <2>1. Valid(c) /\ AsSet(c) BY DEF PortInv
  <2>2. settings.oflag = {} /\ settings.lflag = {} /\ settings.vmin = 0 /\ settings.vtime = 0
    BY <2>1 DEF AsSet
  <2>3. /\ "ISTRIP" \in settings.iflag <=> c.parity # "None"
        /\ "ICRNL" \notin settings.iflag
    BY <2>1 DEF AsSet, Termios, FlagsIf
  <2>4. StopBytes(settings) = {} BY <2>1 DEF AsSet, StopBytes
  <2>5. ASSUME NEW b PROVE Received(settings, b) = <<Kept(c, b)>>
    BY <2>2, <2>3, <2>4 DEF Received
  <2>6. ASSUME NEW b PROVE Transmitted(settings, b) = <<b>> /\ Echoed(settings, b) = <<>>
    BY <2>2 DEF Transmitted, Echoed
  <2> QED BY <2>2, <2>5, <2>6
<1> QED BY <1>1, PortInvariant, PTL
-----------------------------------------------------------------------------
(* Arguments of the C++ types. *)

\* Arguments that pass the checks have a value that is named for each: the
\* delegating constructors, too, make records of these fields and no others.
LEMMA ValidArguments == \A c \in Calls : Valid(c) => c \in Arguments
<1> DEFINE Fields(c) == [baud |-> c.baud, databits |-> c.databits, parity |-> c.parity,
                         stopbits |-> c.stopbits, handshake |-> c.handshake]
<1>1. ASSUME NEW c \in Requests PROVE NoHandshake(c) = Fields(NoHandshake(c))
  <2>1. c = Fields(c) BY SerialPortAssumption
  <2>2. NoHandshake(Fields(c)) = [Fields(c) EXCEPT !.handshake = "None"] BY DEF NoHandshake
  <2>3. NoHandshake(c) = [Fields(c) EXCEPT !.handshake = "None"] BY <2>1, <2>2
  <2> QED BY <2>3
<1>2. ASSUME NEW baud PROVE PathAndRate(baud) = Fields(PathAndRate(baud))
  BY DEF PathAndRate
<1>3. \A c \in Calls : c = Fields(c) BY <1>1, <1>2, SerialPortAssumption DEF Calls
<1>4. ASSUME NEW c \in Calls, Valid(c) PROVE c \in Arguments
  BY <1>3, <1>4 DEF Valid, Arguments
<1> QED BY <1>4
-----------------------------------------------------------------------------
(* Numbers. *)

\* Induction over the naturals, for the set of those that have the property.
LEMMA NatSetInduction ==
  ASSUME NEW S, 0 \in S, \A n \in Nat : n \in S => n + 1 \in S
  PROVE  Nat \subseteq S
<1> SUFFICES ASSUME Nat \ S # {} PROVE FALSE
  OBVIOUS
<1> DEFINE R == OpToRel(<, Nat)
<1>1. IsWellFoundedOn(R, Nat) BY NatLessThanWellFounded
<1>2. \A x, y \in Nat : x < y => <<x, y>> \in R BY DEF OpToRel
<1> HIDE DEF R
<1>3. PICK n \in Nat \ S : \A m \in Nat \ S : <<m, n>> \notin R BY <1>1, WFMin
<1>4. n - 1 \in Nat /\ n - 1 < n OBVIOUS
<1>5. n - 1 \in S BY <1>2, <1>3, <1>4
<1> QED BY <1>3, <1>4, <1>5

\* A set of naturals that are below a bound has a largest.
LEMMA MaxInside ==
  ASSUME NEW n \in Nat, NEW S \in SUBSET (0..n), S # {}
  PROVE  Max(S) \in S /\ \A i \in S : i <= Max(S)
<1> DEFINE Bounded == {m \in Nat : (\A i \in S : i <= m) => \E top \in S : \A i \in S : i <= top}
<1>1. 0 \in Bounded
  <2>1. PICK i \in S : TRUE OBVIOUS
  <2>2. (\A j \in S : j <= 0) => \A j \in S : j <= i BY <2>1
  <2> QED BY <2>1, <2>2
<1>2. ASSUME NEW m \in Nat, m \in Bounded PROVE m + 1 \in Bounded
  <2> SUFFICES ASSUME \A i \in S : i <= m + 1
               PROVE  \E top \in S : \A i \in S : i <= top
    OBVIOUS
  <2>1. CASE m + 1 \in S BY <2>1
  <2>2. CASE m + 1 \notin S
    <3>1. \A i \in S : i <= m BY <2>2
    <3> QED BY <3>1, <1>2
  <2> QED BY <2>1, <2>2
<1> HIDE DEF Bounded
<1>3. Nat \subseteq Bounded BY <1>1, <1>2, NatSetInduction
<1>4. \E top \in S : \A i \in S : i <= top BY <1>3 DEF Bounded
<1> QED BY <1>4 DEF Max

\* Lengths that are cut to 16 bits are no longer than before.
LEMMA ModBelow ==
  ASSUME NEW n \in Nat, NEW m \in Nat \ {0}
  PROVE  n % m \in 0..n /\ n % m < m /\ (n < m => n % m = n)
OBVIOUS

\* Counting on from a cell never leaves the memory.
LEMMA CellInside == \A a \in Address, k \in Int : Cell(a, k) \in Address
<1> SUFFICES ASSUME NEW a \in Address, NEW k \in Int PROVE Cell(a, k) \in Address
  OBVIOUS
<1> DEFINE n == a + k
<1>1. n \in Int /\ Cells \in Nat \ {0} BY I2CAssumption DEF Address
<1> HIDE DEF n
<1>2. n % Cells \in 0 .. Cells - 1 BY <1>1
<1> QED BY <1>2 DEF Cell, Address, n

\* A cell's place is another cell's, counted round.
LEMMA CellPlace ==
  ASSUME NEW a \in Address, NEW k \in 0 .. Cells - 1
  PROVE  Cell(a, k) = IF a + k < Cells THEN a + k ELSE a + k - Cells
BY I2CAssumption DEF Cell, Address
-----------------------------------------------------------------------------
(* The bus. *)

\* What the kernel is handed: a length that the buffer has.
Fits(p) == p.len \in Nat /\ p.buf \in Seq(Address) /\ p.len <= Len(p.buf)

\* The bus after k of the messages: what the device is left with, and what it
\* has sent for each of them.
ServedTo(st, packed, k) ==
  /\ st.mem \in [Address -> Address] /\ st.ptr \in Address
  /\ st.got \in Seq(Seq(Address)) /\ Len(st.got) = k
  /\ \A i \in 1..k : Len(st.got[i]) = IF Reads(packed[i]) THEN packed[i].len ELSE 0

\* The device stays a memory with a pointer into it, and sends what it is asked
\* for: one message after those that it has served.
LEMMA ServeOne ==
  ASSUME NEW packed, NEW k \in Nat, NEW st, ServedTo(st, packed, k),
         NEW p, p = packed[k + 1], Fits(p)
  PROVE  ServedTo(Serve(st, p), packed, k + 1)
<1> DEFINE new == Serve(st, p)
<1> SUFFICES ServedTo(new, packed, k + 1)
  OBVIOUS
<1> USE I2CAssumption
<1>1. \A i \in Int : Cell(st.ptr, i) \in Address BY CellInside DEF ServedTo
<1>2. ASSUME NEW sent \in Seq(Address), Len(sent) = IF Reads(p) THEN p.len ELSE 0,
             new.got = Append(st.got, sent)
      PROVE  /\ new.got \in Seq(Seq(Address)) /\ Len(new.got) = k + 1
             /\ \A i \in 1 .. k + 1 :
                  Len(new.got[i]) = IF Reads(packed[i]) THEN packed[i].len ELSE 0
  <2>1. /\ new.got \in Seq(Seq(Address)) /\ Len(new.got) = k + 1
        /\ new.got[k + 1] = sent /\ \A i \in 1..k : new.got[i] = st.got[i]
    BY <1>2 DEF ServedTo
  <2> HIDE DEF new
  <2> QED BY <2>1, <1>2 DEF ServedTo
<1>3. CASE Reads(p)
  <2> DEFINE sent == [i \in 1..p.len |-> st.mem[Cell(st.ptr, i - 1)]]
  <2>1. new = [mem |-> st.mem, ptr |-> Cell(st.ptr, p.len), got |-> Append(st.got, sent)]
    BY <1>3 DEF Serve
  <2>2. sent \in Seq(Address) /\ Len(sent) = p.len
    <3>1. \A i \in 1..p.len : st.mem[Cell(st.ptr, i - 1)] \in Address
      BY <1>1 DEF ServedTo, Fits
    <3>2. p.len \in Nat BY DEF Fits
    <3> QED BY <3>1, <3>2
  <2>3. new.mem = st.mem /\ new.ptr \in Address /\ new.got = Append(st.got, sent)
    BY <2>1, <1>1 DEF Fits
  <2> HIDE DEF new, sent
  <2> QED BY <2>2, <2>3, <1>2, <1>3 DEF ServedTo
<1>4. CASE ~Reads(p)
  <2> DEFINE at == IF p.len = 0 THEN st.ptr ELSE p.buf[1]
             stores(a) == {i \in 2..p.len : Cell(at, i - 2) = a}
             mem == [a \in Address |-> IF stores(a) = {} THEN st.mem[a] ELSE p.buf[Max(stores(a))]]
  <2>1. new = [mem |-> mem, ptr |-> IF p.len = 0 THEN at ELSE Cell(at, p.len - 1),
               got |-> Append(st.got, <<>>)]
    BY <1>4 DEF Serve
  <2>2. at \in Address BY DEF ServedTo, Fits
  <2>3. new.ptr \in Address
    <3>1. p.len - 1 \in Int BY DEF Fits
    <3>2. new.ptr = IF p.len = 0 THEN at ELSE Cell(at, p.len - 1) BY <2>1
    <3> HIDE DEF new, at
    <3> QED BY <3>1, <3>2, <2>2, CellInside
  <2>4. ASSUME NEW a \in Address, stores(a) # {} PROVE p.buf[Max(stores(a))] \in Address
    <3>1. p.len \in Nat /\ stores(a) \in SUBSET (0..p.len) BY DEF Fits
    <3>2. Max(stores(a)) \in stores(a) BY <3>1, <2>4, MaxInside
    <3>3. Max(stores(a)) \in 1..Len(p.buf) BY <3>2 DEF Fits
    <3> HIDE DEF stores
    <3> QED BY <3>3 DEF Fits
  <2>5. mem \in [Address -> Address] BY <2>4 DEF ServedTo
  <2>6. new.mem = mem /\ new.got = Append(st.got, <<>>) BY <2>1
  <2>7. <<>> \in Seq(Address) /\ Len(<<>>) = 0 OBVIOUS
  <2> HIDE DEF new, mem
  <2> QED BY <2>3, <2>5, <2>6, <2>7, <1>2, <1>4 DEF ServedTo
<1> QED BY <1>3, <1>4

\* The bus from message to message.
Idle == [mem |-> memory, ptr |-> pointer, got |-> <<>>]
Stage(f, packed, i) == IF i = 0 THEN Idle ELSE Serve(f[i - 1], packed[i])

LEMMA StagesExist ==
  ASSUME NEW packed, NEW n \in Nat
  PROVE  \E f : f = [i \in 0..n |-> Stage(f, packed, i)]
<1> DEFINE Reached == {k \in Nat : \E f : f = [i \in 0..k |-> Stage(f, packed, i)]}
<1>1. 0 \in Reached
  <2> DEFINE f == [i \in 0..0 |-> Idle]
  <2>1. f = [i \in 0..0 |-> Stage(f, packed, i)] BY DEF Stage
  <2> QED BY <2>1
<1>2. ASSUME NEW k \in Nat, k \in Reached PROVE k + 1 \in Reached
  <2>1. PICK f : f = [i \in 0..k |-> Stage(f, packed, i)] BY <1>2
  <2> DEFINE g == [i \in 0 .. k + 1 |-> IF i = k + 1 THEN Serve(f[k], packed[i]) ELSE f[i]]
  <2>2. \A i \in 0..k : g[i] = f[i] OBVIOUS
  <2>3. ASSUME NEW i \in 0 .. k + 1 PROVE g[i] = Stage(g, packed, i)
    <3>1. CASE i = k + 1
      <4>1. g[i] = Serve(f[k], packed[i]) /\ i # 0 /\ i - 1 = k BY <3>1
      <4>2. g[i - 1] = f[k] BY <4>1, <2>2
      <4> HIDE DEF g
      <4> QED BY <4>1, <4>2 DEF Stage
    <3>2. CASE i # k + 1
      <4>1. g[i] = f[i] /\ f[i] = Stage(f, packed, i) BY <2>1, <2>2, <3>2
      <4>2. i # 0 => g[i - 1] = f[i - 1] BY <2>2, <3>2
      <4> HIDE DEF g
      <4> QED BY <4>1, <4>2 DEF Stage
    <3> QED BY <3>1, <3>2
  <2>4. g = [i \in 0 .. k + 1 |-> g[i]] OBVIOUS
  <2> HIDE DEF g
  <2>5. g = [i \in 0 .. k + 1 |-> Stage(g, packed, i)] BY <2>3, <2>4
  <2> QED BY <2>5
<1> HIDE DEF Reached
<1>3. Nat \subseteq Reached BY <1>1, <1>2, NatSetInduction
<1> QED BY <1>3 DEF Reached

\* The messages are served one after the other.
LEMMA ServedStages ==
  ASSUME NEW packed, Len(packed) \in Nat
  PROVE  \E f : /\ Served(packed) = f[Len(packed)]
                /\ f[0] = Idle
                /\ \A i \in 1..Len(packed) : f[i] = Serve(f[i - 1], packed[i])
<1> DEFINE st[i \in 0..Len(packed)] ==
             IF i = 0 THEN [mem |-> memory, ptr |-> pointer, got |-> <<>>]
             ELSE Serve(st[i - 1], packed[i])
<1>1. Served(packed) = st[Len(packed)] BY DEF Served
<1>2. \E f : f = [i \in 0..Len(packed) |-> Stage(f, packed, i)] BY StagesExist
<1>3. st = [i \in 0..Len(packed) |->
              IF i = 0 THEN [mem |-> memory, ptr |-> pointer, got |-> <<>>]
              ELSE Serve(st[i - 1], packed[i])]
  BY <1>2 DEF Stage, Idle
<1> HIDE DEF st
<1>4. st[0] = Idle /\ \A i \in 1..Len(packed) : st[i] = Serve(st[i - 1], packed[i])
  BY <1>3 DEF Idle
<1> QED BY <1>1, <1>4

Messages == [flags : SUBSET {"I2C_M_RD"}, data : Seq(Address)]

\* What the kernel is handed for a transfer, as far as the device serves it.
Handed(addr, msgs, n) ==
  SubSeq([i \in 1..Len(msgs) |-> Packed(addr, msgs[i])], 1, n)

LEMMA HandedFits ==
  ASSUME NEW addr, NEW msgs \in Seq(Messages), NEW n \in 0..Len(msgs)
  PROVE  /\ Len(Handed(addr, msgs, n)) = n
         /\ \A i \in 1..n : LET p == Handed(addr, msgs, n)[i]
                            IN  /\ p = Packed(addr, msgs[i]) /\ Fits(p)
                                /\ p.len = Len(msgs[i].data) % LenLimit
                                /\ p.buf = msgs[i].data
                                /\ Reads(p) <=> Reads(msgs[i])
<1> DEFINE packed == [i \in 1..Len(msgs) |-> Packed(addr, msgs[i])]
           front == SubSeq(packed, 1, n)
<1>1. Len(packed) = Len(msgs) OBVIOUS
<1>2. Len(front) = n /\ \A i \in 1..n : front[i] = packed[i] BY <1>1
<1>3. ASSUME NEW i \in 1..n
      PROVE  /\ front[i] = Packed(addr, msgs[i]) /\ Fits(front[i])
             /\ front[i].len = Len(msgs[i].data) % LenLimit
             /\ front[i].buf = msgs[i].data
             /\ Reads(front[i]) <=> Reads(msgs[i])
  <2> DEFINE m == msgs[i]
  <2>1. front[i] = Packed(addr, m) BY <1>2
  <2>2. m \in Messages OBVIOUS
  <2>3. m.data \in Seq(Address) /\ Len(m.data) \in Nat BY <2>2 DEF Messages
  <2> HIDE DEF front, m
  <2>4. /\ front[i].len = Len(m.data) % LenLimit
        /\ front[i].buf = m.data /\ front[i].flags = m.flags
    BY <2>1 DEF Packed
  <2>5. Len(m.data) % LenLimit \in 0..Len(m.data) BY <2>3, ModBelow, I2CAssumption
  <2> QED BY <2>1, <2>3, <2>4, <2>5 DEF Fits, Reads, m
<1> HIDE DEF front
<1> QED BY <1>2, <1>3 DEF Handed, front

\* However many messages there are, the device has served them all.
LEMMA ServedAll ==
  ASSUME memory \in [Address -> Address], pointer \in Address,
         NEW packed, Len(packed) \in Nat, \A i \in 1..Len(packed) : Fits(packed[i])
  PROVE  ServedTo(Served(packed), packed, Len(packed))
<1>1. PICK f : /\ Served(packed) = f[Len(packed)] /\ f[0] = Idle
               /\ \A i \in 1..Len(packed) : f[i] = Serve(f[i - 1], packed[i])
  BY ServedStages
<1> DEFINE Good == {k \in Nat : k <= Len(packed) => ServedTo(f[k], packed, k)}
<1>2. 0 \in Good
  <2>1. ServedTo(Idle, packed, 0) BY DEF ServedTo, Idle
  <2> QED BY <2>1, <1>1
<1>3. ASSUME NEW k \in Nat, k \in Good PROVE k + 1 \in Good
  <2> SUFFICES ASSUME k + 1 <= Len(packed) PROVE ServedTo(f[k + 1], packed, k + 1)
    OBVIOUS
  <2>1. k + 1 \in 1..Len(packed) /\ (k + 1) - 1 = k OBVIOUS
  <2>2. f[k + 1] = Serve(f[k], packed[k + 1]) BY <1>1, <2>1
  <2>3. ServedTo(f[k], packed, k) BY <1>3
  <2> QED BY <2>1, <2>2, <2>3, ServeOne
<1> HIDE DEF Good
<1>4. Nat \subseteq Good BY <1>2, <1>3, NatSetInduction
<1> QED BY <1>1, <1>4 DEF Good

\* What the kernel copies over a buffer that is long enough.
LEMMA OverlaidFront ==
  ASSUME NEW buf \in Seq(Address), NEW got \in Seq(Address), Len(got) <= Len(buf)
  PROVE  /\ Len(Overlaid(buf, got)) = Len(buf)
         /\ \A j \in 1..Len(buf) :
              Overlaid(buf, got)[j] = IF j <= Len(got) THEN got[j] ELSE buf[j]
<1> DEFINE n == IF Len(got) > Len(buf) THEN Len(got) ELSE Len(buf)
<1>1. n = Len(buf) OBVIOUS
<1>2. Overlaid(buf, got) = [j \in 1..n |-> IF j <= Len(got) THEN got[j] ELSE buf[j]]
  BY DEF Overlaid
<1> HIDE DEF n
<1> QED BY <1>1, <1>2

\* What holds of the bus in every state: the device is a memory with a pointer
\* into it, and the last transfer kept its vectors.
BusInv ==
  /\ memory \in [Address -> Address] /\ pointer \in Address
  /\ last.how \in {"none", "returned", "threw"}
  /\ NarrowedFront

LEMMA EndedFront ==
  ASSUME NEW how \in {"none", "threw"}, last' = Ended(how)
  PROVE  last'.how = how /\ NarrowedFront'
BY DEF Ended, NarrowedFront

\* How a transfer of msgs ends, if the bus went as far as st, n messages on.
Happens(st, msgs, n) ==
  /\ memory' = st.mem /\ pointer' = st.ptr
  /\ \/ n > 0 /\ last' = Answered(msgs, n, st.got)
     \/ last' = Ended("threw")

LEMMA TransferServes ==
  ASSUME NEW o, Transfer(o)
  PROVE  \E addr \in Addresses, msgs \in Seq(Messages) :
           \E n \in 0..Len(msgs) : Happens(Served(Handed(addr, msgs, n)), msgs, n)
<1>1. PICK addr \in Addresses, msgs \in Transfers :
        LET packed == [i \in 1..Len(msgs) |-> Packed(addr, msgs[i])]
        IN  \E n \in Counts(packed) :
              LET st == Served(SubSeq(packed, 1, n))
              IN  /\ memory' = st.mem /\ pointer' = st.ptr
                  /\ \/ n > 0 /\ last' = Answered(msgs, n, st.got)
                     \/ (n < Len(msgs) \/ n = 0) /\ last' = Ended("threw")
  BY DEF Transfer
<1> DEFINE packed == [i \in 1..Len(msgs) |-> Packed(addr, msgs[i])]
<1>2. PICK n \in Counts(packed) :
        Happens(Served(Handed(addr, msgs, n)), msgs, n)
  BY <1>1 DEF Handed, Happens
<1>3. msgs \in Seq(Messages) BY I2CAssumption DEF Messages, Address
<1>4. n \in 0..Len(msgs)
  <2>1. Len(packed) = Len(msgs) BY <1>3
  <2> HIDE DEF packed
  <2> QED BY <2>1, <1>3 DEF Counts
<1> QED BY <1>2, <1>3, <1>4

LEMMA TransferBus ==
  ASSUME BusInv, NEW addr, NEW msgs \in Seq(Messages), NEW n \in 0..Len(msgs),
         Happens(Served(Handed(addr, msgs, n)), msgs, n)
  PROVE  BusInv'
<1> DEFINE front == Handed(addr, msgs, n)
           st == Served(front)
<1>1. /\ Len(front) = n
      /\ \A i \in 1..n : /\ Fits(front[i]) /\ front[i].len = Len(msgs[i].data) % LenLimit
                         /\ Reads(front[i]) <=> Reads(msgs[i])
  BY HandedFits
<1> HIDE DEF front
<1>2. ServedTo(st, front, n) BY <1>1, ServedAll DEF BusInv
<1> HIDE DEF st
<1>3. memory' \in [Address -> Address] /\ pointer' \in Address
  BY <1>2 DEF ServedTo, Happens, st, front
<1>4. CASE last' = Ended("threw") BY <1>3, <1>4, EndedFront DEF BusInv
<1>5. CASE last' = Answered(msgs, n, st.got)
  <2>1. last'.before = msgs /\ last'.how = "returned" BY <1>5 DEF Answered
  <2>2. ASSUME NEW i \in 1..Len(msgs)
        PROVE  LET b == msgs[i].data
                   a == last'.after[i].data
               IN  /\ Len(a) = Len(b)
                   /\ \A j \in 1..Len(b) :
                        a[j] # b[j] => Reads(msgs[i]) /\ j <= Len(b) % LenLimit
    <3> DEFINE b == msgs[i].data
               a == last'.after[i].data
    <3>1. msgs[i] \in Messages OBVIOUS
    <3>2. b \in Seq(Address) BY <3>1 DEF Messages
    <3>3. CASE i > n
      <4>1. a = b BY <1>5, <3>3 DEF Answered
      <4> HIDE DEF a, b
      <4> QED BY <4>1 DEF a, b
    <3>4. CASE ~ (i > n)
      <4> DEFINE got == st.got[i]
      <4>1. i \in 1..n BY <3>4
      <4>2. a = Overlaid(b, got) BY <1>5, <3>1, <3>4 DEF Messages, Answered
      <4>3. /\ got \in Seq(Address)
            /\ Len(got) = IF Reads(msgs[i]) THEN Len(b) % LenLimit ELSE 0
        BY <1>1, <1>2, <4>1 DEF ServedTo
      <4>4. Len(b) % LenLimit \in 0..Len(b)
        <5>1. Len(b) \in Nat BY <3>2
        <5> HIDE DEF b
        <5> QED BY <5>1, ModBelow, I2CAssumption
      <4> HIDE DEF a, b, got
      <4>5. Len(got) <= Len(b) BY <3>2, <4>3, <4>4
      <4>6. Len(a) = Len(b) /\ \A j \in 1..Len(b) : a[j] = IF j <= Len(got) THEN got[j] ELSE b[j]
        BY <3>2, <4>2, <4>3, <4>5, OverlaidFront
      <4>7. ASSUME NEW j \in 1..Len(b), a[j] # b[j]
            PROVE  Reads(msgs[i]) /\ j <= Len(b) % LenLimit
        <5>1. j <= Len(got) BY <4>6, <4>7
        <5>2. CASE Reads(msgs[i]) BY <5>1, <5>2, <4>3
        <5>3. CASE ~Reads(msgs[i]) BY <5>1, <5>3, <4>3, <3>2
        <5> QED BY <5>2, <5>3
      <4> QED BY <4>6, <4>7 DEF a, b
    <3> QED BY <3>3, <3>4
  <2>3. NarrowedFront' BY <2>1, <2>2 DEF NarrowedFront, Reads
  <2> QED BY <2>1, <2>3, <1>3 DEF BusInv
<1> QED BY <1>4, <1>5 DEF Happens, st, front

\* A byte that is stored finds its cell by counting from the address, and two of
\* them the same cell only if there are more bytes than cells.
LEMMA CellsApart ==
  ASSUME NEW a \in Address, NEW i \in 0 .. Cells - 1, NEW j \in 0 .. Cells - 1,
         Cell(a, i) = Cell(a, j)
  PROVE  i = j
<1>1. Cells \in Nat /\ a \in 0 .. Cells - 1 BY I2CAssumption DEF Address
<1>2. /\ Cell(a, i) = IF a + i < Cells THEN a + i ELSE a + i - Cells
      /\ Cell(a, j) = IF a + j < Cells THEN a + j ELSE a + j - Cells
  BY CellPlace
<1>3. i \in Int /\ j \in Int /\ a \in Int /\ 0 <= i /\ i < Cells /\ 0 <= j /\ j < Cells
  BY <1>1
<1>4. CASE a + i < Cells /\ a + j < Cells
  <2>1. a + i = a + j BY <1>2, <1>4
  <2> QED BY <2>1, <1>3
<1>5. CASE a + i < Cells /\ ~ (a + j < Cells)
  <2>1. a + i = a + j - Cells BY <1>2, <1>5
  <2> QED BY <2>1, <1>1, <1>3
<1>6. CASE ~ (a + i < Cells) /\ a + j < Cells
  <2>1. a + i - Cells = a + j BY <1>2, <1>6
  <2> QED BY <2>1, <1>1, <1>3
<1>7. CASE ~ (a + i < Cells) /\ ~ (a + j < Cells)
  <2>1. a + i - Cells = a + j - Cells BY <1>2, <1>7
  <2> QED BY <2>1, <1>1, <1>3
<1> QED BY <1>4, <1>5, <1>6, <1>7

\* The memory after bytes are stored from their address on, as far as there are
\* cells for them.
Stored(before, after, bytes) ==
  LET a == bytes[1]
      n == Len(bytes) - 1
  IN  n <= Cells =>
        /\ \A i \in 1..n : after[Cell(a, i - 1)] = bytes[1 + i]
        /\ \A b \in Address \ {Cell(a, i - 1) : i \in 1..n} : after[b] = before[b]

\* A message that is written sets the pointer behind what it stores.
LEMMA ServeWritten ==
  ASSUME NEW st, st.mem \in [Address -> Address], NEW p, Fits(p), ~Reads(p),
         p.len > 0, p.len = Len(p.buf)
  PROVE  /\ Serve(st, p).ptr = Cell(p.buf[1], p.len - 1)
         /\ Stored(st.mem, Serve(st, p).mem, p.buf)
<1> DEFINE a == p.buf[1]
           n == p.len - 1
           new == Serve(st, p)
           stores(b) == {i \in 2..p.len : Cell(a, i - 2) = b}
<1>1. /\ p.len \in Nat /\ p.len = n + 1 /\ n \in Nat /\ a \in Address /\ Cells \in Nat
  BY I2CAssumption DEF Fits
<1>2. /\ new.mem = [b \in Address |->
                     IF stores(b) = {} THEN st.mem[b] ELSE p.buf[Max(stores(b))]]
      /\ new.ptr = Cell(a, n)
  <2>1. p.len # 0 BY <1>1
  <2>2. new = [mem |-> [b \in Address |->
                          IF stores(b) = {} THEN st.mem[b] ELSE p.buf[Max(stores(b))]],
               ptr |-> Cell(a, n), got |-> Append(st.got, <<>>)]
    BY <2>1 DEF Serve
  <2> HIDE DEF new, stores
  <2> QED BY <2>2
<1> HIDE DEF a, n, new
<1>3. ASSUME n <= Cells, NEW i \in 1..n PROVE new.mem[Cell(a, i - 1)] = p.buf[1 + i]
  <2> DEFINE b == Cell(a, i - 1)
             top == Max(stores(b))
  <2>1. i - 1 \in Int /\ i - 1 \in 0 .. Cells - 1 BY <1>1, <1>3
  <2>2. b \in Address BY <1>1, <2>1, CellInside
  <2>3. i + 1 \in 2..p.len /\ (i + 1) - 2 = i - 1 BY <1>1
  <2>4. i + 1 \in stores(b) BY <2>3
  <2>5. stores(b) \in SUBSET (0..p.len) BY <1>1
  <2>6. top \in stores(b)
    <3> HIDE DEF stores
    <3> QED BY <1>1, <2>4, <2>5, MaxInside
  <2>7. top \in 2..p.len /\ Cell(a, top - 2) = Cell(a, i - 1) BY <2>6
  <2> HIDE DEF top
  <2>8. top - 2 \in 0 .. Cells - 1 BY <1>1, <1>3, <2>7
  <2>9. top - 2 = i - 1 BY <1>1, <2>1, <2>7, <2>8, CellsApart
  <2>10. new.mem[b] = p.buf[top]
    <3> HIDE DEF b, stores
    <3> QED BY <1>2, <2>2, <2>4 DEF top
  <2> QED BY <2>7, <2>9, <2>10
<1>4. ASSUME NEW b \in Address \ {Cell(a, i - 1) : i \in 1..n} PROVE new.mem[b] = st.mem[b]
  <2>1. \A i \in 2..p.len : i - 1 \in 1..n /\ (i - 1) - 1 = i - 2 BY <1>1
  <2>2. stores(b) = {} BY <1>4, <2>1
  <2> QED BY <1>2, <2>2
<1> QED BY <1>2, <1>3, <1>4 DEF a, n, new, Stored

\* A message that is read changes no cell, and sends the cells from the pointer on.
LEMMA ServeReadKeeps == \A st, p : Reads(p) => Serve(st, p).mem = st.mem
BY DEF Serve

LEMMA ServeReadSends ==
  ASSUME NEW packed, NEW k \in Nat, NEW st, ServedTo(st, packed, k),
         NEW p, Fits(p), Reads(p), NEW i \in 1..p.len
  PROVE  Serve(st, p).got[k + 1][i] = st.mem[Cell(st.ptr, i - 1)]
<1> DEFINE sent == [j \in 1..p.len |-> st.mem[Cell(st.ptr, j - 1)]]
<1>1. Serve(st, p) = [mem |-> st.mem, ptr |-> Cell(st.ptr, p.len), got |-> Append(st.got, sent)]
  BY DEF Serve
<1>2. sent[i] = st.mem[Cell(st.ptr, i - 1)] OBVIOUS
<1>3. st.got \in Seq(Seq(Address)) /\ Len(st.got) = k BY DEF ServedTo
<1> HIDE DEF sent
<1>4. Append(st.got, sent)[k + 1] = sent BY <1>3
<1>5. Serve(st, p).got = Append(st.got, sent) BY <1>1
<1> QED BY <1>2, <1>4, <1>5

\* The transfers of test-i2c.cpp get what they ask for.
LEMMA TransferAccess ==
  ASSUME BusInv, NEW addr, NEW msgs \in Seq(Messages), NEW n \in 0..Len(msgs),
         Happens(Served(Handed(addr, msgs, n)), msgs, n),
         NEW a \in Address, Addressed(a, last'.before)
  PROVE  RegisterRead(a, last'.before) /\ RegisterWrite(a, last'.before)
<1> DEFINE front == Handed(addr, msgs, n)
           st == Served(front)
<1>1. /\ Len(front) = n
      /\ \A i \in 1..n : /\ Fits(front[i]) /\ front[i].len = Len(msgs[i].data) % LenLimit
                         /\ Reads(front[i]) <=> Reads(msgs[i])
                         /\ front[i].buf = msgs[i].data
  BY HandedFits
<1> HIDE DEF front
<1>2. last' = Answered(msgs, n, st.got) /\ memory' = st.mem
  BY DEF Happens, Addressed, Ended, front, st
<1> HIDE DEF st
<1>3. last'.before = msgs /\ n = Len(msgs)
  BY <1>2 DEF Answered, Addressed
<1>4. \A i \in 1..n : msgs[i] \in Messages BY <1>3
<1>5. \A i \in 1..n : front[i].len = Len(msgs[i].data)
  <2> SUFFICES ASSUME NEW i \in 1..n PROVE front[i].len = Len(msgs[i].data)
    OBVIOUS
  <2>1. Len(msgs[i].data) \in Nat BY <1>4 DEF Messages
  <2>2. Len(msgs[i].data) < LenLimit BY <1>3 DEF Addressed
  <2> QED BY <1>1, <2>1, <2>2, ModBelow, I2CAssumption
<1>6. PICK f : /\ st = f[n] /\ f[0] = Idle
               /\ \A i \in 1..n : f[i] = Serve(f[i - 1], front[i])
  <2>1. Len(front) \in Nat BY <1>1
  <2>2. PICK f : /\ Served(front) = f[Len(front)] /\ f[0] = Idle
                 /\ \A i \in 1..Len(front) : f[i] = Serve(f[i - 1], front[i])
    BY <2>1, ServedStages
  <2> QED BY <1>1, <2>2 DEF st
<1>7. ASSUME n >= 1
      PROVE  /\ ServedTo(f[1], front, 1) /\ f[1].ptr = Cell(a, Len(msgs[1].data) - 1)
             /\ Stored(memory, f[1].mem, msgs[1].data)
  <2> DEFINE p == front[1]
  <2>1. /\ Fits(p) /\ ~Reads(p) /\ p.buf = msgs[1].data /\ p.len = Len(msgs[1].data)
        /\ p.buf # <<>> /\ p.buf[1] = a
    BY <1>1, <1>3, <1>5, <1>7 DEF Addressed
  <2>2. p.len > 0 BY <2>1 DEF Fits
  <2>3. f[1] = Serve(Idle, p) BY <1>6, <1>7
  <2>4. Idle.mem = memory /\ memory \in [Address -> Address] BY DEF Idle, BusInv
  <2>5. ServedTo(Idle, front, 0) BY DEF ServedTo, Idle, BusInv
  <2> HIDE DEF p
  <2>6. ServedTo(Serve(Idle, p), front, 0 + 1) BY <2>1, <2>5, ServeOne DEF p
  <2>7. /\ f[1].ptr = Cell(p.buf[1], p.len - 1)
        /\ Stored(memory, f[1].mem, p.buf)
    BY <2>1, <2>2, <2>3, <2>4, ServeWritten
  <2> QED BY <2>1, <2>3, <2>6, <2>7
<1>8. RegisterWrite(a, msgs)
  BY <1>2, <1>3, <1>6, <1>7 DEF RegisterWrite, Stored, Addressed
<1>9. ASSUME n = 2, Len(msgs[1].data) = 1, Reads(msgs[2])
      PROVE  /\ memory' = memory
             /\ \A i \in 1..Len(msgs[2].data) : last'.after[2].data[i] = memory[Cell(a, i - 1)]
  <2> DEFINE p == front[2]
  <2>1. f[1].ptr = a
    <3>1. Cells \in Nat /\ 0 \in 0 .. Cells - 1 /\ a + 0 < Cells BY I2CAssumption DEF Address
    <3>2. Cell(a, 0) = a BY <3>1, CellPlace DEF Address
    <3> QED BY <1>7, <1>9, <3>2
  <2>2. f[1].mem = memory
    <3>1. \A b \in Address : f[1].mem[b] = memory[b]
      BY <1>7, <1>9, I2CAssumption DEF Stored
    <3>2. f[1].mem \in [Address -> Address] /\ memory \in [Address -> Address]
      BY <1>7, <1>9 DEF ServedTo, BusInv
    <3> QED BY <3>1, <3>2
  <2>3. st = Serve(f[1], p) BY <1>6, <1>9
  <2>4. Fits(p) /\ Reads(p) /\ p.len = Len(msgs[2].data) /\ p.buf = msgs[2].data
    BY <1>1, <1>5, <1>9
  <2> HIDE DEF p
  <2>5. /\ st.mem = memory
        /\ \A i \in 1..p.len : st.got[2][i] = memory[Cell(a, i - 1)]
    <3> DEFINE first == f[1]
    <3>1. PICK k \in Nat : k = 1 OBVIOUS
    <3>2. ServedTo(first, front, k) BY <1>7, <1>9, <3>1
    <3>3. st = Serve(first, p) /\ first.ptr = a /\ first.mem = memory
      BY <2>1, <2>2, <2>3
    <3>4. Fits(p) /\ Reads(p) BY <2>4
    <3> HIDE DEF first
    <3>5. Serve(first, p).mem = first.mem BY <3>4, ServeReadKeeps
    <3>6. ASSUME NEW i \in 1..p.len
          PROVE  Serve(first, p).got[k + 1][i] = first.mem[Cell(first.ptr, i - 1)]
      BY <3>2, <3>4, ServeReadSends
    <3> QED BY <3>1, <3>3, <3>5, <3>6
  <2>6. st.got[2] \in Seq(Address) /\ Len(st.got[2]) = p.len
    <3>1. ServedTo(Served(front), front, Len(front)) BY <1>1, ServedAll DEF BusInv
    <3>2. ServedTo(st, front, 2) BY <1>1, <1>9, <3>1 DEF st
    <3> QED BY <3>2, <2>4 DEF ServedTo, p
  <2>7. msgs[2] \in Messages BY <1>4, <1>9
  <2>8. last'.after[2].data = Overlaid(msgs[2].data, st.got[2])
    BY <1>2, <1>3, <1>9, <2>7 DEF Answered, Messages
  <2>9. \A i \in 1..p.len : Overlaid(msgs[2].data, st.got[2])[i] = st.got[2][i]
    BY <2>4, <2>6, <2>7, OverlaidFront DEF Messages
  <2> QED BY <1>2, <2>4, <2>5, <2>8, <2>9
<1>10. RegisterRead(a, msgs) BY <1>3, <1>9 DEF RegisterRead
<1> QED BY <1>3, <1>8, <1>10

LEMMA BusStep ==
  ASSUME BusInv, [Next]_vars
  PROVE  /\ BusInv'
         /\ [\A a \in Address : Addressed(a, last'.before)
               => RegisterRead(a, last'.before) /\ RegisterWrite(a, last'.before)]_busVars
<1>1. ASSUME NEW o \in Objects, Transfer(o)
      PROVE  /\ BusInv'
             /\ \A a \in Address : Addressed(a, last'.before)
                  => RegisterRead(a, last'.before) /\ RegisterWrite(a, last'.before)
  <2>1. PICK addr \in Addresses, msgs \in Seq(Messages) :
          \E n \in 0..Len(msgs) : Happens(Served(Handed(addr, msgs, n)), msgs, n)
    BY <1>1, TransferServes
  <2>2. PICK n \in 0..Len(msgs) : Happens(Served(Handed(addr, msgs, n)), msgs, n)
    BY <2>1
  <2>3. BusInv' BY <2>2, TransferBus
  <2>4. ASSUME NEW a \in Address, Addressed(a, last'.before)
        PROVE  RegisterRead(a, last'.before) /\ RegisterWrite(a, last'.before)
    BY <2>2, <2>4, TransferAccess
  <2> QED BY <2>3, <2>4
<1>2. ASSUME NEW how \in {"none", "threw"}, last' = Ended(how),
             memory' \in [Address -> Address], pointer' \in Address
      PROVE  BusInv' /\ \A a : ~Addressed(a, last'.before)
  BY <1>2, EndedFront DEF BusInv, Addressed
<1>3. CASE Aside BY <1>2, <1>3 DEF Aside, BusInv
<1>4. CASE OtherMaster
  <2>1. last' = Ended("none") BY <1>4 DEF OtherMaster
  <2>2. memory' \in [Address -> Address] /\ pointer' \in Address
    BY <1>4 DEF OtherMaster, BusInv
  <2> QED BY <1>2, <2>1, <2>2
<1>5. CASE UNCHANGED vars
  BY <1>5 DEF vars, busVars, BusInv, NarrowedFront
<1> QED BY <1>1, <1>3, <1>4, <1>5 DEF Next, Bus

LEMMA BusInvariant == Spec => []BusInv
<1>1. Init => BusInv BY DEF Init, BusInit, BusInv, Ended, NarrowedFront
<1>2. BusInv /\ [Next]_vars => BusInv' BY BusStep
<1> QED BY <1>1, <1>2, PTL DEF Spec

\* A transfer keeps every vector's size, and behind a length that was cut to 16
\* bits it changes nothing, for any messages, lengths and sizes of memory, and
\* however many messages the device serves.
THEOREM NarrowedTheorem == Spec => []NarrowedFront
<1>1. BusInv => NarrowedFront BY DEF BusInv
<1> QED BY <1>1, BusInvariant, PTL

\* Registers are read and written as asked, at any address of a memory of any
\* size, while other masters move the pointer and write.
THEOREM RegisterTheorem == Spec => RegisterAccess
<1>1. BusInv /\ [Next]_vars
        => [\A a \in Address : Addressed(a, last'.before)
              => RegisterRead(a, last'.before) /\ RegisterWrite(a, last'.before)]_busVars
  BY BusStep
<1> QED BY <1>1, BusInvariant, PTL DEF Spec, RegisterAccess
-----------------------------------------------------------------------------
(* All of it. *)

\* Every variable keeps its type: an object's record and the table of
\* descriptors, arguments that passed the checks, and the device on the bus.
THEOREM DevicesTypeTheorem == Spec => []TypeOK
<1>1. Owned => \A o \in Objects :
                 /\ object[o].class \in Classes \cup {"none"}
                 /\ object[o].fd \in Fds \cup {-1}
                 /\ object[o].stage \in {"none", "opened", "alive"}
  BY DEF Owned, Records
<1>2. Owned => \A f \in Fds : table[f] \in Classes \cup {"none"} BY DEF Owned
<1>3. PortInv => /\ \A o \in Objects : args[o] \subseteq Arguments
                 /\ asked \subseteq Arguments /\ stuck \in Drivers
  BY ValidArguments DEF PortInv
<1>4. Owned /\ PortInv /\ BusInv => TypeOK BY <1>1, <1>2, <1>3 DEF BusInv, TypeOK
<1> QED BY <1>4, OwnedInvariant, PortInvariant, BusInvariant, PTL
=============================================================================
