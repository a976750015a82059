------------------------------- MODULE MCGpio -------------------------------
(* Small instances of Gpio for TLC. *)
EXTENDS Gpio, TLC

Of(direction, edge, bias, drive, invert) ==
  [direction |-> direction, edge |-> edge, bias |-> bias, drive |-> drive, invert |-> invert]

\* Each differs from some other in one attribute, so setters get from one to
\* the next.  A bias is always refused by reopen(), a drive mode for an input
\* by the kernel, though not for an output, which it makes let go of its line for
\* one voltage.
SomeConfigs ==
  {Of("In",   "None", "Default", "Default",   "Off"),
   Of("In",   "Both", "Default", "Default",   "Off"),
   Of("In",   "None", "PullUp",  "Default",   "Off"),
   Of("In",   "None", "Default", "OpenDrain", "Off"),
   Of("High", "None", "Default", "Default",   "Off"),
   Of("High", "None", "Default", "OpenDrain", "Off"),
   Of("High", "None", "Default", "Default",   "On"),
   Of("Out",  "None", "Default", "Default",   "On"),
   Of("Out",  "None", "Default", "OpenSource", "On")}

Symmetry == Permutations(Pins) \cup Permutations(Lines)

=============================================================================
