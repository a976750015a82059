----------------------------- MODULE LineLeases -----------------------------
(***************************************************************************)
(* What GpioPin promises, without descriptors, attributes or requests: a   *)
(* line belongs to nobody, to one pin, or to somebody else, and changes    *)
(* hands only by being free in between; a pin has one line at most; a line *)
(* that a pin drives carries what its owner puts there, until the owner    *)
(* lets go of it.                                                          *)
(***************************************************************************)
CONSTANTS Pins, Lines, Nobody, Other   \* Nobody and Other are no pins

VARIABLES
  owner,    \* per line: a pin, Other or Nobody
  outputs,  \* the lines that pins own as outputs
  driven,   \* those of them that are held at a voltage
  level     \* per line: its voltage, 0 or 1

vars == <<owner, outputs, driven, level>>

Init ==
  /\ owner = [l \in Lines |-> Nobody]
  /\ outputs = {} /\ driven = {}
  /\ level \in [Lines -> {0, 1}]

\* An output is held at a voltage, or let go.
Drive(l) ==
  \/ driven' = driven \cup {l} /\ \E v \in {0, 1} : level' = [level EXCEPT ![l] = v]
  \/ driven' = driven \ {l} /\ UNCHANGED level

\* A pin without a line acquires one that is free, as an input or an output.
Acquire(p, l) ==
  /\ owner[l] = Nobody /\ \A k \in Lines : owner[k] # p
  /\ owner' = [owner EXCEPT ![l] = p]
  /\ \/ UNCHANGED <<outputs, driven, level>>
     \/ outputs' = outputs \cup {l} /\ Drive(l)

\* A pin drives its output, or lets go of it.
Set(l) == l \in outputs /\ Drive(l) /\ UNCHANGED <<owner, outputs>>

GiveUp(p, l) ==
  /\ owner[l] = p
  /\ owner' = [owner EXCEPT ![l] = Nobody]
  /\ outputs' = outputs \ {l} /\ driven' = driven \ {l}
  /\ UNCHANGED level

\* Other consumers take lines that are free and release them, and the world
\* moves the voltage of the lines that no pin drives.
Take(l) ==
  /\ \/ owner[l] = Nobody /\ owner' = [owner EXCEPT ![l] = Other]
     \/ owner[l] = Other /\ owner' = [owner EXCEPT ![l] = Nobody]
  /\ UNCHANGED <<outputs, driven, level>>

Outside(l) ==
  /\ l \notin driven
  /\ \E v \in {0, 1} : level' = [level EXCEPT ![l] = v]
  /\ UNCHANGED <<owner, outputs, driven>>

Next ==
  \E l \in Lines :
    \/ \E p \in Pins : Acquire(p, l) \/ GiveUp(p, l)
    \/ Set(l) \/ Take(l) \/ Outside(l)

Spec == Init /\ [][Next]_vars
=============================================================================
