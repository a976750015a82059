----------------------------- MODULE ByteStream -----------------------------
(***************************************************************************)
(* What the read functions promise, without system calls, buffers, loops   *)
(* or timeouts: the input is one stream of bytes, and each call receives a *)
(* piece of it, appended run by run to what it has.  What a call has is    *)
(* what its caller can tell from the count it is given.                    *)
(***************************************************************************)
EXTENDS Naturals, Sequences

CONSTANT Threads

VARIABLES
  pending,    \* bytes nobody has received, oldest first
  produced,   \* how many bytes the stream ever had
  received,   \* per thread: the bytes its current or last call has
  closed      \* no more bytes will come

vars == <<pending, produced, received, closed>>

Init ==
  /\ pending = <<>> /\ produced = 0 /\ closed = FALSE
  /\ received = [t \in Threads |-> <<>>]

Produce ==
  /\ ~closed
  /\ produced' = produced + 1
  /\ pending' = Append(pending, produced')
  /\ UNCHANGED <<received, closed>>

\* A call takes the oldest n bytes.
Take(t) ==
  \E n \in 1..Len(pending) :
    /\ received' = [received EXCEPT ![t] = @ \o SubSeq(pending, 1, n)]
    /\ pending' = SubSeq(pending, n + 1, Len(pending))
    /\ UNCHANGED <<produced, closed>>

\* A new call starts with nothing.
Begin(t) ==
  /\ received' = [received EXCEPT ![t] = <<>>]
  /\ UNCHANGED <<pending, produced, closed>>

\* The source goes away, with or without what is pending.
Close ==
  /\ ~closed /\ closed' = TRUE
  /\ pending' \in {pending, <<>>}
  /\ UNCHANGED <<produced, received>>

Next == Produce \/ Close \/ \E t \in Threads : Take(t) \/ Begin(t)

Spec == Init /\ [][Next]_vars
=============================================================================
