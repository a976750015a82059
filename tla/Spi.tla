-------------------------------- MODULE Spi --------------------------------
(***************************************************************************)
(* periphery::Spi: objects that each hold a descriptor of one SPI device.  *)
(* The settings belong to the device, not to the descriptor, so a setter   *)
(* of one object changes them under all the others.                        *)
(*                                                                         *)
(* A step is one ioctl and the code up to the next.  The flags byte is the *)
(* set of its bits that are 1, named as in <linux/spi/spidev.h>; |, & and  *)
(* ~ are union, intersection and difference.                               *)
(***************************************************************************)
EXTENDS Integers

CONSTANTS
  Handles,    \* the program's Spi objects
  Starts,     \* bound: the settings that constructors are given
  Modes,      \* the modes that setters are given, as sets of flag bits
  Speeds,     \* the clock speeds, in Hz
  Words,      \* the bits per word
  Lens,       \* the lengths of transfers
  LenLimit,   \* 2^32: the driver's length is a __u32
  BufSiz,     \* the most bytes the driver transfers at once
  CanFail     \* may an ioctl fail?

ModeBits == {"CPHA", "CPOL"}
Orders   == {"MsbFirst", "LsbFirst"}

ASSUME SpiAssumption ==
  /\ Modes \subseteq SUBSET ModeBits
  /\ Starts \subseteq [mode : Modes, order : Orders, extra : SUBSET {"CS_HIGH"},
                      speed : Speeds, bits : Words]
  /\ Lens \subseteq Nat /\ LenLimit \in Nat \ {0} /\ BufSiz \in Nat
  /\ CanFail \in BOOLEAN

VARIABLES
  dev,        \* the device's settings: flags, speed and bits per word
  opened,     \* kernel: the objects whose descriptor is open
  life,       \* per object: "none", "building" or "alive"
  call,       \* per object: its current call, or its last one while nobody else
              \* has changed the device since
  res         \* per object: how its last call ended

vars == <<dev, opened, life, call, res>>

\* The settings as the class presents them.
Settings(d) ==
  [mode  |-> d.flags \cap ModeBits,
   order |-> IF "LSB_FIRST" \in d.flags THEN "LsbFirst" ELSE "MsbFirst",
   extra |-> d.flags \ (ModeBits \cup {"LSB_FIRST"}),
   speed |-> d.speed,
   bits  |-> d.bits]

Fields == {"mode", "order", "speed", "bits"}
Unread == [f \in {} |-> 0]
Unseen == [f \in Fields |-> {}]

\* op, the ioctl it makes next, the byte it will write, what it has read.
\* History: the settings when it began, those it asks for, whether it has had
\* the device for itself, and, if it prints, each setting's values meanwhile.
Begun(op, at, data8, read, goal) ==
  [op |-> op, at |-> at, data8 |-> data8, read |-> read,
   before |-> Settings(dev), goal |-> goal, calm |-> TRUE,
   during |-> [f \in Fields |-> {Settings(dev)[f]}]]

NoCall == [op |-> "none", at |-> "idle", data8 |-> {}, read |-> Unread,
           before |-> {}, goal |-> {}, calm |-> TRUE, during |-> Unseen]

Ready(s) == life[s] = "alive" /\ call[s].at = "idle"

End(s, how) == res' = [res EXCEPT ![s] = how]

\* A call when another object gives the device settings d.
Disturbed(c, d) ==
  CASE c.at = "idle" -> NoCall
    [] c.at = "show" -> [c EXCEPT !.calm = FALSE,
                                  !.during = [f \in Fields |-> @[f] \cup {Settings(d)[f]}]]
    [] OTHER         -> [c EXCEPT !.calm = FALSE]

\* A step of s that leaves its call as c and the device with settings d.
Writes(s, c, d) ==
  /\ dev' = d
  /\ call' = [r \in Handles |-> IF r = s THEN c
                               ELSE IF d = dev THEN call[r] ELSE Disturbed(call[r], d)]

\* A step that does not change the device.
Keeps(s, c) == Writes(s, c, dev)

\* The current call of s, about to make another ioctl, or over.
Onward(s, at) == [call[s] EXCEPT !.at = at, !.data8 = {}]
-----------------------------------------------------------------------------
(* The flags byte. *)

\* What the constructor writes.
InitialFlags(c) ==
  c.mode \cup (IF c.order = "LsbFirst" THEN {"LSB_FIRST"} ELSE {}) \cup c.extra

\* The byte mode(m) writes, made from the byte it read.
WithModeAdded(data8, m) == data8 \cup m
WithModeOnly(data8, m) == m
WithMode(data8, m) == (data8 \ ModeBits) \cup m

\* SPI_IOC_WR_LSB_FIRST sets or clears one flag; SPI_IOC_RD_LSB_FIRST gives the
\* byte 1 or 0, and the bit of value 1 is the one that CPHA has.
WrLsbFirst(flags, order) ==
  IF order = "LsbFirst" THEN flags \cup {"LSB_FIRST"} ELSE flags \ {"LSB_FIRST"}
RdLsbFirst == IF "LSB_FIRST" \in dev.flags THEN {"CPHA"} ELSE {}

\* What each getter makes of what it reads.
ReadFieldUnmasked(f) ==
  CASE f = "mode"  -> dev.flags
    [] f = "order" -> IF RdLsbFirst \cap {"LSB_FIRST"} = {} THEN "MsbFirst" ELSE "LsbFirst"
    [] f = "speed" -> dev.speed
    [] f = "bits"  -> dev.bits
ReadField(f) ==
  CASE f = "mode"  -> dev.flags \cap ModeBits
    [] f = "order" -> IF RdLsbFirst \cap {"LSB_FIRST"} = {} THEN "MsbFirst" ELSE "LsbFirst"
    [] f = "speed" -> dev.speed
    [] f = "bits"  -> dev.bits

\* What has been read, and now f as well.
ReadAlso(read, f) ==
  [g \in DOMAIN read \cup {f} |-> IF g = f THEN ReadField(f) ELSE read[g]]
-----------------------------------------------------------------------------
(* Constructor and destructor. *)

\* open(), and a plan of what to write.
Construct(s) ==
  /\ life[s] = "none"
  /\ \/ \E c \in Starts :
          /\ Keeps(s, Begun("construct", "wr_mode", InitialFlags(c), Unread, c))
          /\ life' = [life EXCEPT ![s] = "building"]
          /\ opened' = opened \cup {s}
          /\ End(s, "pending")
     \/ CanFail /\ Keeps(s, NoCall) /\ End(s, "threw") /\ UNCHANGED <<life, opened>>

\* An ioctl of the constructor fails: it closes the descriptor and throws.
AbandonOpen(s) ==
  /\ life' = [life EXCEPT ![s] = "none"]
  /\ Keeps(s, Onward(s, "idle")) /\ End(s, "threw")
  /\ UNCHANGED opened
Abandon(s) ==
  /\ life' = [life EXCEPT ![s] = "none"]
  /\ opened' = opened \ {s}
  /\ Keeps(s, Onward(s, "idle")) /\ End(s, "threw")

\* The three writes, in their order.
ConstructMode(s) ==
  /\ call[s].op = "construct" /\ call[s].at = "wr_mode"
  /\ \/ /\ Writes(s, Onward(s, "wr_speed"), [dev EXCEPT !.flags = call[s].data8])
        /\ UNCHANGED <<life, opened, res>>
     \/ CanFail /\ Abandon(s)

ConstructSpeed(s) ==
  /\ call[s].op = "construct" /\ call[s].at = "wr_speed"
  /\ \/ /\ Writes(s, Onward(s, "wr_bits"), [dev EXCEPT !.speed = call[s].goal.speed])
        /\ UNCHANGED <<life, opened, res>>
     \/ CanFail /\ Abandon(s)

ConstructBits(s) ==
  /\ call[s].op = "construct" /\ call[s].at = "wr_bits"
  /\ \/ /\ Writes(s, Onward(s, "idle"), [dev EXCEPT !.bits = call[s].goal.bits])
        /\ life' = [life EXCEPT ![s] = "alive"]
        /\ End(s, "returned")
        /\ UNCHANGED opened
     \/ CanFail /\ Abandon(s)

Destroy(s) ==
  /\ Ready(s)
  /\ life' = [life EXCEPT ![s] = "none"]
  /\ opened' = opened \ {s}
  /\ Keeps(s, NoCall) /\ End(s, "returned")
-----------------------------------------------------------------------------
(* The member functions. *)

\* mode(m) reads the flags byte, replaces the bits of the mode, and writes it.
ModeSetter(s) ==
  /\ \/ /\ Ready(s)
        /\ \E m \in Modes :
             LET goal == [Settings(dev) EXCEPT !.mode = m]
             IN  \/ /\ Keeps(s, Begun("mode", "wr_mode", WithMode(dev.flags, m), Unread, goal))
                    /\ End(s, "pending")
                 \/ /\ CanFail
                    /\ Keeps(s, Begun("mode", "idle", {}, Unread, goal)) /\ End(s, "threw")
     \/ /\ call[s].op = "mode" /\ call[s].at = "wr_mode"
        /\ \/ /\ Writes(s, Onward(s, "idle"), [dev EXCEPT !.flags = call[s].data8])
              /\ End(s, "returned")
           \/ CanFail /\ Keeps(s, Onward(s, "idle")) /\ End(s, "threw")
  /\ UNCHANGED <<life, opened>>

\* The other setters make one ioctl, which gives the device settings d.
SetAtOnce(s, op, d, goal) ==
  LET c == Begun(op, "idle", {}, Unread, goal)
  IN  /\ Ready(s)
      /\ \/ Writes(s, c, d) /\ End(s, "returned")
         \/ CanFail /\ Keeps(s, c) /\ End(s, "threw")
      /\ UNCHANGED <<life, opened>>

BitOrderSetter(s) ==
  \E o \in Orders : SetAtOnce(s, "bit_order", [dev EXCEPT !.flags = WrLsbFirst(@, o)],
                              [Settings(dev) EXCEPT !.order = o])
SpeedSetter(s) ==
  \E v \in Speeds : SetAtOnce(s, "speed", [dev EXCEPT !.speed = v],
                              [Settings(dev) EXCEPT !.speed = v])
BitsPerWordSetter(s) ==
  \E w \in Words : SetAtOnce(s, "bits_per_word", [dev EXCEPT !.bits = w],
                             [Settings(dev) EXCEPT !.bits = w])

\* One getter: one ioctl.
Getter(s) ==
  /\ Ready(s)
  /\ \/ /\ \E f \in Fields :
             Keeps(s, Begun("get", "idle", {}, ReadAlso(Unread, f), Settings(dev)))
        /\ End(s, "returned")
     \/ /\ CanFail
        /\ Keeps(s, Begun("get", "idle", {}, Unread, Settings(dev))) /\ End(s, "threw")
  /\ UNCHANGED <<life, opened>>

\* operator<< calls the four getters, in an order that the language leaves open;
\* what was read is lost if one of them throws.
Show(s) ==
  /\ \/ /\ Ready(s)
        /\ Keeps(s, Begun("print", "show", {}, Unread, Settings(dev))) /\ End(s, "pending")
     \/ /\ call[s].at = "show"
        /\ \E f \in Fields \ DOMAIN call[s].read :
             LET read == ReadAlso(call[s].read, f)
                 done == DOMAIN read = Fields
             IN  /\ Keeps(s, [call[s] EXCEPT !.read = read,
                                             !.at = IF done THEN "idle" ELSE "show"])
                 /\ End(s, IF done THEN "returned" ELSE "pending")
     \/ /\ call[s].at = "show"
        /\ CanFail /\ Keeps(s, [Onward(s, "idle") EXCEPT !.read = Unread, !.during = Unseen])
        /\ End(s, "threw")
  /\ UNCHANGED <<life, opened>>

\* transfer(): the length is narrowed to 32 bits, and the driver refuses what
\* is then longer than its buffer.
TransferLen(len) == len % LenLimit

Transfer(s) ==
  /\ Ready(s)
  /\ \E len \in Lens :
       /\ Keeps(s, Begun("transfer", "idle", {}, Unread, Settings(dev)))
       /\ \/ TransferLen(len) <= BufSiz /\ End(s, "returned")
          \/ (CanFail \/ TransferLen(len) > BufSiz) /\ End(s, "threw")
  /\ UNCHANGED <<life, opened>>
-----------------------------------------------------------------------------
Init ==
  /\ dev \in [flags : {{}}, speed : Speeds, bits : Words]
  /\ opened = {}
  /\ life = [s \in Handles |-> "none"]
  /\ call = [s \in Handles |-> NoCall]
  /\ res = [s \in Handles |-> "pending"]

Step(s) ==
  \/ Construct(s) \/ ConstructMode(s) \/ ConstructSpeed(s) \/ ConstructBits(s) \/ Destroy(s)
  \/ ModeSetter(s) \/ BitOrderSetter(s) \/ SpeedSetter(s) \/ BitsPerWordSetter(s)
  \/ Getter(s) \/ Show(s) \/ Transfer(s)

Next == \E s \in Handles : Step(s)

Spec == Init /\ [][Next]_vars
-----------------------------------------------------------------------------
(* Properties. *)

\* What a constructor that stopped half-way has written.
HalfWritten(before, goal) ==
  {before,
   [goal EXCEPT !.speed = before.speed, !.bits = before.bits],
   [goal EXCEPT !.bits = before.bits]}

\* What a getter gives while the device's settings are d: the setting, but for
\* the bit order always the same, a known defect that OrderReadsBack is about.
Given(f, d) == IF f = "order" THEN "MsbFirst" ELSE Settings(d)[f]

\* Undisturbed, a call is atomic: when it returns, the device has the settings
\* it had before with the one asked for changed and no other, although the
\* mode is written together with flags that were read earlier, and what was
\* read is what the device has; when it throws, nothing changed, but for the
\* first settings of a constructor.
CallsExact ==
  \A s \in Handles :
    call[s].calm /\ call[s].at = "idle" /\ call[s].op # "none" =>
      /\ res[s] = "returned" =>
           /\ Settings(dev) = call[s].goal
           /\ call[s].op \in {"get", "print"} =>
                \A f \in DOMAIN call[s].read : call[s].read[f] = Given(f, dev)
      /\ res[s] = "threw" =>
           IF call[s].op = "construct"
           THEN Settings(dev) \in HalfWritten(call[s].before, call[s].goal)
           ELSE Settings(dev) = call[s].before

\* Disturbed or not, a step of one object undoes at most the flags that others
\* set while its mode() was under way, and restores what it had read: speed
\* and word size are never lost, and nothing is invented.
LostUpdatesBounded ==
  [][\A s \in Handles :
       call[s].op = "mode" /\ call[s].at = "wr_mode" /\ call'[s].at = "idle"
         /\ res'[s] = "returned" =>
           LET now == Settings(dev)
           IN  Settings(dev') \in
                 {[now EXCEPT !.mode = call[s].goal.mode],
                  [now EXCEPT !.mode = call[s].goal.mode, !.order = call[s].before.order,
                              !.extra = call[s].before.extra]}]_vars

\* Only objects that exist, or are being made, have a descriptor: a constructor
\* that throws has closed its own, wherever it stopped.
NoDescriptorLeaked == opened = {s \in Handles : life[s] # "none"}

\* A line that is printed while other objects change the device may mix its
\* states, but shows mode, speed and word size with values that each had at
\* some time during the call, and the bit order as MSB first, whatever it was.
PrintedInForce ==
  \A s \in Handles :
    call[s].op = "print" /\ res[s] = "returned" =>
      /\ \A f \in Fields \ {"order"} : call[s].read[f] \in call[s].during[f]
      /\ call[s].read["order"] = "MsbFirst"

\* What bit_order() or a printed line says is the order that was set.
OrderReadsBack ==
  \A s \in Handles :
    call[s].calm /\ call[s].op \in {"get", "print"} /\ "order" \in DOMAIN call[s].read
      => call[s].read["order"] = Settings(dev).order
=============================================================================
