------------------------------ MODULE Devices ------------------------------
(***************************************************************************)
(* A program with objects of all the classes that own one descriptor for   *)
(* life, on one serial port and one I2C bus: the constructors and          *)
(* destructors of CharacterDevice, GpioChip, Serial and I2C over one table *)
(* of descriptors, the port's settings and the bus.  What the objects read *)
(* and write is in CharacterDevice, Serial and Gpio.                       *)
(***************************************************************************)
EXTENDS SerialPort, I2C

CONSTANT Accesses   \* bound: the values of Access that callers pass

vars == <<object, table, args, settings, stuck, asked, memory, pointer, last>>

\* Steps away from the bus end the history of its last transfer.
Aside == last' = Ended("none") /\ UNCHANGED <<memory, pointer>>
-----------------------------------------------------------------------------
(* CharacterDevice: the constructor makes no call after open(). *)

KnownAccesses == {"ReadOnly", "WriteOnly", "ReadWrite"}

OpenDevice(o) ==
  \E access \in Accesses :
    IF access \in KnownAccesses
    THEN Construct(o, "CharacterDevice", "alive")
    ELSE Is(o, "none", "none") /\ UNCHANGED descriptorVars

CloseDevice(o) == Destroy(o, "CharacterDevice")

(* GpioChip: the chip is asked for its number of lines, which is not kept. *)

OpenChip(o) == Construct(o, "GpioChip", "opened")

QueryChip(o) ==
  /\ Is(o, "GpioChip", "opened")
  /\ \/ Complete(o)
     \/ CanFail /\ Abandon(o)

CloseChip(o) == Destroy(o, "GpioChip")
-----------------------------------------------------------------------------
Init == DescriptorsInit /\ PortInit /\ BusInit

Device(o) == OpenDevice(o) \/ CloseDevice(o)
Chip(o)   == OpenChip(o) \/ QueryChip(o) \/ CloseChip(o)
Port(o)   == OpenPort(o) \/ SetPort(o) \/ ClosePort(o)

\* A step of an I2C object away from the bus also ends the history.
Bus(o) ==
  \/ (OpenBus(o) \/ QueryFunctions(o) \/ CloseBus(o)) /\ Aside
  \/ Transfer(o)

Next ==
  \/ \E o \in Objects :
       \/ (Device(o) \/ Chip(o)) /\ UNCHANGED portVars /\ Aside
       \/ Port(o) /\ Aside
       \/ Bus(o) /\ UNCHANGED portVars
  \/ Stty /\ UNCHANGED descriptorVars /\ Aside
  \/ OtherMaster /\ UNCHANGED <<descriptorVars, portVars>>

Spec == Init /\ [][Next]_vars
-----------------------------------------------------------------------------
(* Properties. *)

\* Every variable has the shape the C++ and kernel types give it; constructors
\* go on with valid arguments only.
TypeOK ==
  /\ \A o \in Objects :
       /\ object[o].class \in Classes \cup {"none"}
       /\ object[o].fd \in Fds \cup {-1} /\ object[o].stage \in {"none", "opened", "alive"}
       /\ args[o] \subseteq Arguments
  /\ \A f \in Fds : table[f] \in Classes \cup {"none"}
  /\ asked \subseteq Arguments /\ stuck \in Drivers
  /\ memory \in [Address -> Address] /\ pointer \in Address
  /\ last.how \in {"none", "returned", "threw"}

\* Whatever constructors of whichever classes run at once and fail, on bad
\* arguments, in open() or after it: an object's descriptor is open on its own
\* device, no two share one, and every open one has an object, so that a
\* constructor that throws leaks nothing and a destructor closes its own.
DescriptorsOwned ==
  /\ \A o \in Objects :
       object[o].stage # "none" => /\ object[o].fd \in Fds
                                   /\ table[object[o].fd] = object[o].class
                                   /\ \A p \in Objects \ {o} : object[p].fd # object[o].fd
  /\ \A f \in Fds : ~IsFree(f) => \E o \in Objects : object[o].fd = f
=============================================================================
