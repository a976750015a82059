----------------------------- MODULE GpioCopies -----------------------------
(***************************************************************************)
(* The pins of Gpio in a program that copies them.  The declarations that  *)
(* would delete the copy constructor are commented out, so the compiler    *)
(* makes one, and a copy has the m_fd of the original.                     *)
(***************************************************************************)
EXTENDS Gpio, TLC

Copy(p, q) ==
  /\ Ready(p) /\ life[q] = "none"
  /\ life' = [life EXCEPT ![q] = "alive"]
  /\ pin' = [pin EXCEPT ![q] = pin[p]]
  /\ asked' = [asked EXCEPT ![q] = asked[p]]
  /\ End(q, "returned")
  /\ UNCHANGED <<todo, handle, foreign, driven, level>>

CopyNext == Next \/ \E p, q \in Pins : Copy(p, q)

CopySpec == Init /\ [][CopyNext]_vars

\* A pin never reads or drives a line that is not its own: what its m_fd stands
\* for, while it is open at all, is its line.
OwnLineOnly ==
  \A p \in Pins : Holds(p) /\ IsOpen(pin[p].fd) => handle[pin[p].fd].line = pin[p].line

\* An output, and nothing besides, is enough to see it.
OneConfig ==
  {[direction |-> "Out", edge |-> "None", bias |-> "Default", drive |-> "Default",
    invert |-> "Off"]}
=============================================================================
