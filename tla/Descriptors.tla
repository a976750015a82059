---------------------------- MODULE Descriptors ----------------------------
(***************************************************************************)
(* The process's table of descriptors and the objects that own its         *)
(* entries: what the constructors and destructors of CharacterDevice,      *)
(* Serial, I2C and GpioChip have in common.  A constructor opens its       *)
(* device, then makes a system call on it that may fail; it then closes    *)
(* the descriptor itself, since no destructor runs for an object that was  *)
(* never constructed.  Constructors of several threads interleave, and the *)
(* kernel gives out the lowest free number.                                *)
(*                                                                         *)
(* The modules of the classes extend this one; Devices composes them.      *)
(***************************************************************************)
EXTENDS Integers

CONSTANTS
  Objects,    \* the program's objects, of any of the classes
  Fds,        \* descriptor numbers
  CanFail     \* may a system call fail?

ASSUME DescriptorsAssumption == Fds \subseteq Nat /\ CanFail \in BOOLEAN

Classes == {"CharacterDevice", "Serial", "I2C", "GpioChip"}

VARIABLES
  object,     \* per object: class, m_fd, and "none", "opened" or "alive"
  table       \* kernel: per number, whose device it is open on, or "none"

descriptorVars == <<object, table>>

NoObject == [class |-> "none", fd |-> -1, stage |-> "none"]

Is(o, class, stage) == object[o].class = class /\ object[o].stage = stage
IsFree(f)           == table[f] = "none"

\* open() has failed: the constructor throws before it has anything.
OpenFails == (CanFail \/ \A f \in Fds : ~IsFree(f)) /\ UNCHANGED descriptorVars

\* open() gives the lowest free number.
Opens(o, class, stage) ==
  \E f \in Fds :
    /\ IsFree(f) /\ \A g \in Fds : g < f => ~IsFree(g)
    /\ table' = [table EXCEPT ![f] = class]
    /\ object' = [object EXCEPT ![o] = [class |-> class, fd |-> f, stage |-> stage]]

Construct(o, class, stage) ==
  Is(o, "none", "none") /\ (Opens(o, class, stage) \/ OpenFails)

\* The call after open() succeeded, and the constructor returns.
Complete(o) ==
  /\ object' = [object EXCEPT ![o].stage = "alive"]
  /\ UNCHANGED table

\* It failed: close() and throw.
AbandonOpen(o) ==
  /\ object' = [object EXCEPT ![o] = NoObject]
  /\ UNCHANGED table
Abandon(o) ==
  /\ object' = [object EXCEPT ![o] = NoObject]
  /\ table' = [table EXCEPT ![object[o].fd] = "none"]

\* Every destructor closes the descriptor; an error of close() is ignored.
Destroy(o, class) ==
  /\ Is(o, class, "alive")
  /\ object' = [object EXCEPT ![o] = NoObject]
  /\ table' = [table EXCEPT ![object[o].fd] = "none"]

DescriptorsInit ==
  /\ object = [o \in Objects |-> NoObject]
  /\ table = [f \in Fds |-> "none"]
=============================================================================
