------------------------------- MODULE Serial -------------------------------
(***************************************************************************)
(* periphery::Serial: byte I/O on a serial port.  The source repeats the   *)
(* code of CharacterDevice member by member, and adds flush().  What       *)
(* differs is the device: the constructor leaves VMIN and VTIME at zero,   *)
(* so ::read on an empty port returns 0 where a plain descriptor opened    *)
(* with O_NDELAY fails with EAGAIN.                                        *)
(***************************************************************************)
EXTENDS Buffer, Integers, Sequences, FiniteSets

CONSTANTS Threads, Ops, MaxSize, Timeouts, MsPerSec, IntMax,
          CanFail, CanHangUp, OutCap, MaxArrivals

VARIABLES inq, arrived, hup, outq, pc, frame, mem, res, sent, gone

Dev == INSTANCE CharacterDevice WITH EmptyRead <- "Zero"

ASSUME SerialAssumption == Dev!CharacterDeviceAssumption

vars == Dev!vars

Read(t)           == Dev!Read(t)
ReadAll(t)        == Dev!ReadAll(t)
ReadTimeout(t)    == Dev!ReadTimeout(t)
ReadAllTimeout(t) == Dev!ReadAllTimeout(t)
Write(t)          == Dev!Write(t)
Poll(t)           == Dev!Poll(t)
InputWaiting(t)   == Dev!InputWaiting(t)
OutputWaiting(t)  == Dev!OutputWaiting(t)

\* tcdrain() blocks until the output queue is empty.  A port that is gone has
\* no output left: the call fails if it starts then, and may just end if it
\* was blocked.
Drained(t) ==
  /\ Dev!At(t, "flush", "drain")
  /\ \/ outq = <<>> /\ Dev!Leave(t, Dev!Returned(0))
     \/ (hup \/ CanFail) /\ Dev!Leave(t, Dev!Threw)
  /\ UNCHANGED <<inq, arrived, hup, outq, frame, mem, sent, gone>>

FlushNoDrain(t) ==
  /\ Dev!Enter(t, "flush", MutableBuffer(0, 0), Dev!NoTimeout, 0)
  /\ Dev!Leave(t, Dev!Returned(0))
Flush(t) ==
  \/ /\ Dev!Enter(t, "flush", MutableBuffer(0, 0), Dev!NoTimeout, 0)
     /\ Dev!Goto(t, "drain")
  \/ Drained(t)

Init == Dev!Init

Step(t) ==
  \/ Read(t) \/ ReadAll(t) \/ ReadTimeout(t) \/ ReadAllTimeout(t)
  \/ Write(t) \/ Flush(t) \/ Poll(t) \/ InputWaiting(t) \/ OutputWaiting(t)

Next == Dev!Device \/ \E t \in Threads : Step(t) \/ Dev!Wait(t)

Spec == Init /\ [][Next]_vars
-----------------------------------------------------------------------------
(* Properties. *)

TypeOK == Dev!TypeOK

\* Reads on a serial port keep every byte, as on any descriptor, although a
\* read may now return nothing.
BytesConserved == Dev!BytesConserved

\* A call's bytes lie at the front of its buffer in the order they arrived, also
\* when a read that found nothing, or another thread's, came between them.
PrefixInOrder == Dev!PrefixInOrder

\* The counts reads return are the bytes they stored, also when ::read found
\* the port empty; read_all_timeout's as an int.
ReadAccounted == Dev!ReadAccounted

\* A timed read of a port spends no more than its timeout blocked, although each
\* empty read sends its loop back to select().
TimeoutRespected == Dev!TimeoutRespected

\* The reads divide one stream of bytes, as ByteStream says, although a read may
\* return nothing at any time and flush() runs between them.
ImplementsStream == Dev!ImplementsStream

\* write sends the caller's bytes once each and in order, while another thread
\* fills and flushes the same output queue.
WriteExact == Dev!WriteExact

\* After flush() returns, nothing its thread wrote before is still queued,
\* whatever the other threads write meanwhile.
FlushDrains ==
  \A t \in Threads :
    frame[t].op = "flush" /\ res[t].kind = "returned"
      => t \notin {outq[i] : i \in 1..Len(outq)}
=============================================================================
