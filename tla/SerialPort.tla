----------------------------- MODULE SerialPort -----------------------------
(***************************************************************************)
(* The constructor and destructor of periphery::Serial: the settings of a  *)
(* terminal, put together as a struct termios and set by tcsetattr().      *)
(* A flag word is the set of its flags, named as in <termios.h>; CSIZE is  *)
(* two bits of c_cflag, as on Linux.  The settings are the port's, not the *)
(* descriptor's: every object on the port has what the last one set.       *)
(*                                                                         *)
(* The second half says what a port with given settings does, as far as    *)
(* the properties of Devices need it.                                      *)
(***************************************************************************)
EXTENDS Descriptors, Sequences

CONSTANTS
  Requests,   \* bound: the arguments of Serial's constructors
  Drivers,    \* bound: the sets of c_cflag flags that a driver cannot change
  Probes      \* bound: the bytes that the properties try on the port

\* Requests have these fields; an enum may hold a value that its type does not name.
ASSUME SerialPortAssumption ==
  /\ \A c \in Requests :
       c = [baud |-> c.baud, databits |-> c.databits, parity |-> c.parity,
            stopbits |-> c.stopbits, handshake |-> c.handshake]
  /\ Drivers \subseteq SUBSET {"CRTSCTS"} /\ Probes \subseteq Nat

DataBits   == {"Five", "Six", "Seven", "Eight"}
StopBits   == {"One", "Two"}
Parities   == {"None", "Even", "Odd"}
Handshakes == {"None", "RtsCts", "XonXoff", "RtsCtsXonXoff"}

\* The rates that baudrate_to_bits() knows.  Its Bxxx codes are named by them.
Bauds ==
  {50, 75, 110, 134, 150, 200, 300, 600, 1200, 1800, 2400, 4800, 9600, 19200,
   38400, 57600, 115200, 230400, 460800, 500000, 576000, 921600, 1000000,
   1152000, 1500000, 2000000, 2500000, 3000000, 3500000, 4000000}

Arguments == [baud : Bauds, databits : DataBits, parity : Parities, stopbits : StopBits,
              handshake : Handshakes]

VARIABLES
  args,       \* per object: {the arguments of its constructor}, while that runs
  settings,   \* kernel: the port's struct termios
  stuck,      \* kernel: the flags its driver cannot change
  asked       \* history: {the arguments of the constructor that set it last}

portVars == <<args, settings, stuck, asked>>

\* The delegating constructors.
PathAndRate(baud) ==
  [baud |-> baud, databits |-> "Eight", parity |-> "None", stopbits |-> "One",
   handshake |-> "None"]
NoHandshake(c) == [c EXCEPT !.handshake = "None"]

Calls ==
  Requests \cup {NoHandshake(c) : c \in Requests} \cup {PathAndRate(c.baud) : c \in Requests}

\* The arguments that no switch throws on.
ValidAnyStops(c) ==
  /\ c.databits \in DataBits /\ c.parity \in Parities
  /\ c.handshake \in Handshakes /\ c.baud \in Bauds
Valid(c) ==
  /\ c.databits \in DataBits /\ c.parity \in Parities /\ c.stopbits \in StopBits
  /\ c.handshake \in Handshakes /\ c.baud \in Bauds

FlagsIf(condition, flags) == IF condition THEN flags ELSE {}

SizeFlags ==
  [Five |-> {}, Six |-> {"CSIZE_0"}, Seven |-> {"CSIZE_1"}, Eight |-> {"CSIZE_0", "CSIZE_1"}]

\* struct termios settings: all zero, its control characters too, and then
\* these flags.
TermiosStrips(c) ==
  [iflag |-> {"IGNBRK", "INPCK", "ISTRIP"},
   oflag |-> {}, lflag |-> {},
   cflag |-> {"CREAD", "CLOCAL"} \cup SizeFlags[c.databits],
   vmin |-> 0, vtime |-> 0, vstart |-> 0, vstop |-> 0, speed |-> c.baud]
TermiosNoOdd(c) ==
  [iflag |-> {"IGNBRK"}, oflag |-> {}, lflag |-> {},
   cflag |-> {"CREAD", "CLOCAL"} \cup SizeFlags[c.databits]
             \cup FlagsIf(c.parity # "None", {"PARENB"})
             \cup FlagsIf(c.stopbits = "Two", {"CSTOPB"})
             \cup FlagsIf(c.handshake \in {"RtsCts", "RtsCtsXonXoff"}, {"CRTSCTS"}),
   vmin |-> 0, vtime |-> 0, vstart |-> 0, vstop |-> 0, speed |-> c.baud]
Termios(c) ==
  [iflag |-> {"IGNBRK"} \cup FlagsIf(c.parity # "None", {"INPCK", "ISTRIP"})
             \cup FlagsIf(c.handshake \in {"XonXoff", "RtsCtsXonXoff"}, {"IXON", "IXOFF"}),
   oflag |-> {},
   lflag |-> {},
   cflag |-> {"CREAD", "CLOCAL"} \cup SizeFlags[c.databits]
             \cup FlagsIf(c.parity # "None", {"PARENB"})
             \cup FlagsIf(c.parity = "Odd", {"PARODD"})
             \cup FlagsIf(c.stopbits = "Two", {"CSTOPB"})
             \cup FlagsIf(c.handshake \in {"RtsCts", "RtsCtsXonXoff"}, {"CRTSCTS"}),
   vmin |-> 0, vtime |-> 0, vstart |-> 0, vstop |-> 0, speed |-> c.baud]
-----------------------------------------------------------------------------
(* The port, outside the program. *)

\* A login terminal: lines, echo, signals, XON, and CR and NL exchanged.
Cooked ==
  [iflag |-> {"BRKINT", "ICRNL", "IXON"}, oflag |-> {"OPOST", "ONLCR"},
   lflag |-> {"ICANON", "ECHO", "ISIG"},
   cflag |-> {"CREAD", "CSIZE_0", "CSIZE_1"},
   vmin |-> 1, vtime |-> 0, vstart |-> 17, vstop |-> 19, speed |-> 9600]

\* What tcsetattr() leaves: it succeeds when it could set anything.
Adopted(t) == [t EXCEPT !.cflag = (@ \ stuck) \cup (settings.cflag \cap stuck)]

\* The line as the flags describe it.
LineRate(s)     == s.speed
LineBits(s)     == 5 + (IF "CSIZE_0" \in s.cflag THEN 1 ELSE 0)
                     + (IF "CSIZE_1" \in s.cflag THEN 2 ELSE 0)
LineParity(s)   == IF "PARENB" \notin s.cflag THEN "None"
                   ELSE IF "PARODD" \in s.cflag THEN "Odd" ELSE "Even"
LineStops(s)    == IF "CSTOPB" \in s.cflag THEN "Two" ELSE "One"
StopsByWire(s)  == "CRTSCTS" \in s.cflag

\* The characters that start and stop the output; 0 is _POSIX_VDISABLE, none.
StopBytes(s)    == {s.vstart, s.vstop} \ {0}
StopsByBytes(s) ==
  /\ "IXON" \in s.iflag /\ "IXOFF" \in s.iflag
  /\ s.vstart # 0 /\ s.vstop # 0

\* What read() gets for a byte on the line, in the order of the kernel's
\* receive path; Held stands for one that waits for the end of its line.
Held == <<"held">>
Received(s, byte) ==
  LET b == IF "ISTRIP" \in s.iflag THEN byte % 128 ELSE byte
  IN  IF "IXON" \in s.iflag /\ b \in StopBytes(s) THEN <<>>
      ELSE IF "ISIG" \in s.lflag /\ b = 3 THEN <<>>
      ELSE IF "ICANON" \in s.lflag THEN Held
      ELSE IF "ICRNL" \in s.iflag /\ b = 13 THEN <<10>>
      ELSE <<b>>

\* What goes out for a byte that is written, and for one that is received.
Transmitted(s, byte) ==
  IF {"OPOST", "ONLCR"} \subseteq s.oflag /\ byte = 10 THEN <<13, 10>> ELSE <<byte>>
Echoed(s, byte) == IF "ECHO" \in s.lflag THEN Received(s, byte) ELSE <<>>
-----------------------------------------------------------------------------
(* Constructor and destructor. *)

\* The arguments are checked before anything is opened.
OpenPort(o) ==
  \E c \in Calls :
    /\ IF Valid(c)
       THEN Construct(o, "Serial", "opened")
       ELSE Is(o, "none", "none") /\ UNCHANGED descriptorVars
    /\ args' = [args EXCEPT ![o] = IF object'[o].stage = "opened" THEN {c} ELSE {}]
    /\ UNCHANGED <<settings, stuck, asked>>

SetPort(o) ==
  /\ Is(o, "Serial", "opened")
  /\ \E c \in args[o] :
       \/ /\ settings' = Adopted(Termios(c)) /\ asked' = {c}
          /\ Complete(o)
       \/ /\ CanFail /\ Abandon(o)
          /\ UNCHANGED <<settings, asked>>
  /\ args' = [args EXCEPT ![o] = {}]
  /\ UNCHANGED stuck

\* The port keeps its settings.
ClosePort(o) == Destroy(o, "Serial") /\ UNCHANGED portVars

\* Another program sets the port back.
Stty ==
  /\ settings' = Cooked /\ asked' = {}
  /\ UNCHANGED <<args, stuck>>

PortInit ==
  /\ args = [o \in Objects |-> {}]
  /\ settings = Cooked
  /\ stuck \in Drivers
  /\ asked = {}
-----------------------------------------------------------------------------
(* Properties. *)

\* The port is as the last constructor asked: rate, data bits, parity, stop
\* bits and the wires of the handshake, except for what the driver cannot do,
\* and no byte stops it that nobody asked for: also after a login terminal or
\* another object left other flags set.  XON and XOFF that were asked for are
\* another matter: XonXoffStops.
SettingsAsAsked ==
  \A c \in asked :
    /\ LineRate(settings) = c.baud
    /\ LineBits(settings) = [Five |-> 5, Six |-> 6, Seven |-> 7, Eight |-> 8][c.databits]
    /\ LineParity(settings) = c.parity
    /\ LineStops(settings) = c.stopbits
    /\ c.handshake \in {"None", "RtsCts"} => ~StopsByBytes(settings)
    /\ "CRTSCTS" \notin stuck
         => (StopsByWire(settings) <=> c.handshake \in {"RtsCts", "RtsCtsXonXoff"})

\* Bytes cross the port as they are, at once and without an echo, and an empty
\* port is read as nothing, which Serial's loops rely on.  Not so with parity:
\* then the eighth bit is stripped, also of a port with eight data bits.
BytesUnchanged ==
  \A c \in asked :
    /\ settings.vmin = 0 /\ settings.vtime = 0 /\ "ICANON" \notin settings.lflag
    /\ \A b \in Probes \cap (0 .. 2 ^ LineBits(settings) - 1) :
         /\ Transmitted(settings, b) = <<b>> /\ Echoed(settings, b) = <<>>
         /\ Received(settings, b) = <<IF c.parity = "None" THEN b ELSE b % 128>>

\* A port opened with XON/XOFF, one of the handshakes that serial.hpp:27 lists,
\* is stopped and started by these bytes.  The code sets IXON and IXOFF and no
\* characters to go with them.
XonXoffStops ==
  \A c \in asked : c.handshake \in {"XonXoff", "RtsCtsXonXoff"} => StopsByBytes(settings)
=============================================================================
