-------------------------- MODULE CharacterDevice --------------------------
(***************************************************************************)
(* periphery::CharacterDevice: byte I/O on one descriptor opened with      *)
(* O_NDELAY.  The member functions are const and hold no lock, so any      *)
(* number of threads may be inside them at once; what they share is the    *)
(* kernel's two queues behind the descriptor.                              *)
(*                                                                         *)
(* A step of a thread is one system call together with the code up to the  *)
(* next one, because nothing the threads share is touched in between.      *)
(* Input bytes are named 1, 2, 3, ... in the order they arrive; a caller's *)
(* buffer starts at address 0 of memory of its own.                        *)
(***************************************************************************)
EXTENDS Buffer, Integers, Sequences, FiniteSets

CONSTANTS
  Threads,      \* threads that call the object
  Ops,          \* the member functions they call
  MaxSize,      \* bound: callers pass buffers of 0..MaxSize bytes
  Timeouts,     \* the timeouts they pass, in milliseconds
  MsPerSec,     \* 1000 in the source; small here, so seconds can be counted
  IntMax,       \* INT_MAX; small here, so a timeout or a count can exceed it
  EmptyRead,    \* what ::read does when no input is queued: "Again" or "Zero"
  CanFail,      \* may a system call fail (a signal, a device error)?
  CanHangUp,    \* may the device go away?
  OutCap,       \* room in the kernel's output queue
  MaxArrivals   \* bound: input bytes that ever arrive

AllOps == {"read", "read_all", "read_timeout", "read_all_timeout", "write",
           "poll", "flush", "input_waiting", "output_waiting"}

ASSUME CharacterDeviceAssumption ==
  /\ Ops \subseteq AllOps
  /\ MaxSize \in Nat
  /\ Timeouts \subseteq Int
  /\ MsPerSec \in Nat \ {0}
  /\ IntMax \in Nat
  /\ EmptyRead \in {"Again", "Zero"}
  /\ CanFail \in BOOLEAN /\ CanHangUp \in BOOLEAN
  /\ OutCap \in Nat \ {0}
  /\ MaxArrivals \in Nat

VARIABLES
  inq,      \* kernel: input bytes not read yet, oldest first
  arrived,  \* kernel: how many input bytes have arrived
  hup,      \* kernel: the device has gone away
  outq,     \* kernel: output bytes not transmitted, named by their writer
  pc,       \* per thread: the system call it is about to make, or "idle"
  frame,    \* per thread: arguments and locals of its current or last call
  mem,      \* per thread: the memory under its buffer, 0 where untouched
  res,      \* per thread: how its last call ended
  sent,     \* history, per thread: the addresses its call has written out
  gone      \* history: bytes handed to calls now forgotten, or discarded

kernel == <<inq, arrived, hup, outq>>
vars   == <<inq, arrived, hup, outq, pc, frame, mem, res, sent, gone>>

Addr   == 0 .. MaxSize - 1
Labels == {"idle", "select", "read", "write", "poll", "drain"}

Frames == [op : AllOps \cup {"none"}, size : 0..MaxSize, ms : Int, buf : Views,
           left : Int, waited : Nat]

Pending     == [kind |-> "pending",  val |-> 0]
Threw       == [kind |-> "threw",    val |-> 0]
Returned(v) == [kind |-> "returned", val |-> v]

Untouched == [a \in Addr |-> 0]
Held(t)   == {mem[t][a] : a \in Addr} \ {0}

\* What read, read_all and write pass for "no timeout".
NoTimeout == -1

\* select() and poll() report a hung-up descriptor as readable.
Readable == inq # <<>> \/ hup
-----------------------------------------------------------------------------
(* Conversions of timeouts and counts. *)

\* The struct timeval that select() is given.
TimevalNoSeconds(ms) == [tv_sec |-> 0, tv_usec |-> (ms % MsPerSec) * 1000]
Timeval(ms) == [tv_sec |-> ms \div MsPerSec, tv_usec |-> (ms % MsPerSec) * 1000]

\* How many milliseconds the kernel lets pass for it.
KernelMs(tv) == tv.tv_sec * MsPerSec + tv.tv_usec \div 1000

\* A 64-bit number narrowed to an int: the timeout that poll() takes, and the
\* count of bytes that read_all_timeout returns.
ToInt(n) ==
  LET m == n % (2 * (IntMax + 1)) IN IF m > IntMax THEN m - 2 * (IntMax + 1) ELSE m
-----------------------------------------------------------------------------
(* How a call begins, goes on and ends. *)

Enter(t, op, buf, ms, left) ==
  /\ pc[t] = "idle"
  /\ op \in Ops
  /\ frame' = [frame EXCEPT ![t] = [op |-> op, size |-> buf.size, ms |-> ms,
                                    buf |-> buf, left |-> left, waited |-> 0]]
  /\ mem' = [mem EXCEPT ![t] = Untouched]
  /\ gone' = gone \cup Held(t)
  /\ sent' = [sent EXCEPT ![t] = <<>>]
  /\ UNCHANGED kernel

At(t, op, label) == frame[t].op = op /\ pc[t] = label

Goto(t, label) ==
  /\ pc' = [pc EXCEPT ![t] = label]
  /\ res' = [res EXCEPT ![t] = Pending]

Leave(t, outcome) ==
  /\ pc' = [pc EXCEPT ![t] = "idle"]
  /\ res' = [res EXCEPT ![t] = outcome]

\* The tail of every transfer loop: move the buffer by the n bytes the call
\* made, and go round again while bytes remain.
ProgressWithoutMove(t, n, label, val) ==
  /\ UNCHANGED frame
  /\ IF frame[t].buf.size > 0 THEN Goto(t, label) ELSE Leave(t, Returned(val))
ProgressOnePast(t, n, label, val) ==
  LET b == Advance(frame[t].buf, n + 1)
  IN  /\ frame' = [frame EXCEPT ![t].buf = b]
      /\ IF b.size > 0 THEN Goto(t, label) ELSE Leave(t, Returned(val))
Progress(t, n, label, val) ==
  LET b == Advance(frame[t].buf, n)
  IN  /\ frame' = [frame EXCEPT ![t].buf = b]
      /\ IF b.size > 0 THEN Goto(t, label) ELSE Leave(t, Returned(val))
-----------------------------------------------------------------------------
(* The system calls, as the code uses them. *)

\* Linux transfers at most INT_MAX bytes in one call, so a ret is not narrowed.
Transfers(b, available) == {k \in 1..b.size : k <= available /\ k <= IntMax}

\* What ::read(m_fd, b.data(), b.size()) may return.
ReadResults(b) ==
  (IF b.size = 0 THEN {0}
   ELSE IF inq # <<>> THEN Transfers(b, Len(inq))
   ELSE IF hup \/ EmptyRead = "Zero" THEN {0} ELSE {-1})
  \cup (IF CanFail THEN {-1} ELSE {})

\* ::read returning ret: that many bytes go from the queue to the buffer.
SysRead(t, ret) ==
  LET n    == IF ret > 0 THEN ret ELSE 0
      data == frame[t].buf.data
  IN  /\ inq' = SubSeq(inq, n + 1, Len(inq))
      /\ mem' = [mem EXCEPT ![t] = [a \in Addr |->
                   IF a \in data .. data + n - 1 THEN inq[a - data + 1] ELSE @[a]]]
      /\ UNCHANGED <<arrived, hup, outq, sent, gone>>

\* What ::write may return: a full output queue is EAGAIN, never zero.
WriteResults(b) ==
  (IF hup \/ Len(outq) >= OutCap THEN {-1}
   ELSE Transfers(b, OutCap - Len(outq)))
  \cup (IF CanFail THEN {-1} ELSE {})

SysWrite(t, ret) ==
  LET n == IF ret > 0 THEN ret ELSE 0
  IN  /\ outq' = outq \o [i \in 1..n |-> t]
      /\ sent' = [sent EXCEPT ![t] = @ \o [i \in 1..n |-> frame[t].buf.data + i - 1]]
      /\ UNCHANGED <<inq, arrived, hup, mem, gone>>

\* Has the time run out with nothing to read?
Expired(t) == ~Readable /\ frame[t].left = 0

\* The timeval the next select() of this call waits for.  It is set up once,
\* before the loop, and Linux leaves in it the time that is left.
NextTimevalFresh(t) == KernelMs(Timeval(frame[t].ms))
NextTimeval(t) == frame[t].left

\* ::select on the descriptor; val is what the call returns on a timeout.
SelectRetries(t, val) ==
  /\ pc[t] = "select"
  /\ \/ Readable /\ Goto(t, "read")
     \/ Expired(t) /\ Goto(t, "select")
     \/ CanFail /\ Leave(t, Threw)
  /\ frame' = [frame EXCEPT ![t].left = NextTimeval(t)]
  /\ UNCHANGED <<kernel, mem, sent, gone>>
Select(t, val) ==
  /\ pc[t] = "select"
  /\ \/ Readable /\ Goto(t, "read")
     \/ Expired(t) /\ Leave(t, Returned(val))
     \/ CanFail /\ Leave(t, Threw)
  /\ frame' = [frame EXCEPT ![t].left = NextTimeval(t)]
  /\ UNCHANGED <<kernel, mem, sent, gone>>

\* A millisecond passes for a thread blocked in select() or poll().
Wait(t) ==
  /\ pc[t] \in {"select", "poll"}
  /\ ~Readable
  /\ frame[t].left > 0
  /\ frame' = [frame EXCEPT ![t].left = @ - 1, ![t].waited = @ + 1]
  /\ UNCHANGED <<kernel, pc, mem, res, sent, gone>>
-----------------------------------------------------------------------------
(* The member functions. *)

Read(t) ==
  \/ \E n \in 0..MaxSize :
       Enter(t, "read", MutableBuffer(0, n), NoTimeout, 0) /\ Goto(t, "read")
  \/ /\ At(t, "read", "read")
     /\ \E ret \in ReadResults(frame[t].buf) :
          /\ SysRead(t, ret)
          /\ Leave(t, IF ret < 0 THEN Threw ELSE Returned(ret))
     /\ UNCHANGED frame

ReadAllUnchecked(t) ==
  \/ \E n \in 0..MaxSize :
       /\ Enter(t, "read_all", MutableBuffer(0, n), NoTimeout, 0)
       /\ IF n > 0 THEN Goto(t, "read") ELSE Leave(t, Returned(0))
  \/ /\ At(t, "read_all", "read")
     /\ \E ret \in ReadResults(frame[t].buf) :
          SysRead(t, ret) /\ Progress(t, ret, "read", 0)
ReadAll(t) ==
  \/ \E n \in 0..MaxSize :
       /\ Enter(t, "read_all", MutableBuffer(0, n), NoTimeout, 0)
       /\ IF n > 0 THEN Goto(t, "read") ELSE Leave(t, Returned(0))
  \/ /\ At(t, "read_all", "read")
     /\ \E ret \in ReadResults(frame[t].buf) :
          /\ SysRead(t, ret)
          /\ \/ ret < 0 /\ Leave(t, Threw) /\ UNCHANGED frame
             \/ ret >= 0 /\ Progress(t, ret, "read", 0)

\* Where a timed read begins: a negative timeout skips select().
FirstCallPositiveOnly(ms) == IF ms > 0 THEN "select" ELSE "read"
FirstCall(ms) == IF ms >= 0 THEN "select" ELSE "read"

ReadTimeout(t) ==
  \/ \E n \in 0..MaxSize, ms \in Timeouts :
       /\ Enter(t, "read_timeout", MutableBuffer(0, n), ms, KernelMs(Timeval(ms)))
       /\ Goto(t, FirstCall(ms))
  \/ frame[t].op = "read_timeout" /\ Select(t, 0)
  \/ /\ At(t, "read_timeout", "read")
     /\ \E ret \in ReadResults(frame[t].buf) :
          /\ SysRead(t, ret)
          /\ Leave(t, IF ret < 0 THEN Threw ELSE Returned(ret))
     /\ UNCHANGED frame

\* A do-while loop: even an empty buffer waits and reads once.  The count, a
\* size_t, is returned as an int.
ReadAllTimeout(t) ==
  LET count == ToInt(frame[t].size - frame[t].buf.size)
  IN  \/ \E n \in 0..MaxSize, ms \in Timeouts :
           /\ Enter(t, "read_all_timeout", MutableBuffer(0, n), ms, KernelMs(Timeval(ms)))
           /\ Goto(t, FirstCall(ms))
      \/ frame[t].op = "read_all_timeout" /\ Select(t, count)
      \/ /\ At(t, "read_all_timeout", "read")
         /\ \E ret \in ReadResults(frame[t].buf) :
              /\ SysRead(t, ret)
              /\ \/ ret < 0 /\ Leave(t, Threw) /\ UNCHANGED frame
                 \/ ret >= 0 /\ Progress(t, ret, FirstCall(frame[t].ms), ToInt(frame[t].size))

Write(t) ==
  \/ \E n \in 0..MaxSize :
       /\ Enter(t, "write", ConstBuffer(0, n), NoTimeout, 0)
       /\ IF n > 0 THEN Goto(t, "write") ELSE Leave(t, Returned(0))
  \/ /\ At(t, "write", "write")
     /\ \E ret \in WriteResults(frame[t].buf) :
          /\ SysWrite(t, ret)
          /\ \/ ret < 0 /\ Leave(t, Threw) /\ UNCHANGED frame
             \/ ret >= 0 /\ Progress(t, ret, "write", 0)

Poll(t) ==
  \/ \E ms \in Timeouts :
       Enter(t, "poll", MutableBuffer(0, 0), ms, ToInt(ms)) /\ Goto(t, "poll")
  \/ /\ At(t, "poll", "poll")
     /\ \/ Readable /\ Leave(t, Returned(1))
        \/ Expired(t) /\ Leave(t, Returned(0))
        \/ CanFail /\ Leave(t, Threw)
     /\ UNCHANGED <<kernel, frame, mem, sent, gone>>

InputWaitingOfOutput(t) ==
  /\ Enter(t, "input_waiting", MutableBuffer(0, 0), NoTimeout, 0)
  /\ \/ ~hup /\ Leave(t, Returned(Len(outq)))
     \/ (hup \/ CanFail) /\ Leave(t, Threw)
InputWaiting(t) ==
  /\ Enter(t, "input_waiting", MutableBuffer(0, 0), NoTimeout, 0)
  /\ \/ ~hup /\ Leave(t, Returned(Len(inq)))
     \/ (hup \/ CanFail) /\ Leave(t, Threw)

OutputWaiting(t) ==
  /\ Enter(t, "output_waiting", MutableBuffer(0, 0), NoTimeout, 0)
  /\ \/ ~hup /\ Leave(t, Returned(Len(outq)))
     \/ (hup \/ CanFail) /\ Leave(t, Threw)
-----------------------------------------------------------------------------
(* The device at the other end. *)

Arrive ==
  /\ ~hup /\ arrived < MaxArrivals
  /\ arrived' = arrived + 1
  /\ inq' = Append(inq, arrived + 1)
  /\ UNCHANGED <<hup, outq, pc, frame, mem, res, sent, gone>>

Transmit ==
  /\ outq # <<>>
  /\ outq' = Tail(outq)
  /\ UNCHANGED <<inq, arrived, hup, pc, frame, mem, res, sent, gone>>

\* Queued output is discarded; queued input stays readable or is discarded.
HangUp ==
  /\ CanHangUp /\ ~hup
  /\ hup' = TRUE
  /\ outq' = <<>>
  /\ \/ UNCHANGED <<inq, gone>>
     \/ /\ inq' = <<>>
        /\ gone' = gone \cup {inq[i] : i \in 1..Len(inq)}
  /\ UNCHANGED <<arrived, pc, frame, mem, res, sent>>
-----------------------------------------------------------------------------
Init ==
  /\ inq = <<>> /\ arrived = 0 /\ hup = FALSE /\ outq = <<>>
  /\ pc = [t \in Threads |-> "idle"]
  /\ frame = [t \in Threads |-> [op |-> "none", size |-> 0, ms |-> NoTimeout,
                                 buf |-> MutableBuffer(0, 0), left |-> 0, waited |-> 0]]
  /\ mem = [t \in Threads |-> Untouched]
  /\ res = [t \in Threads |-> Pending]
  /\ sent = [t \in Threads |-> <<>>]
  /\ gone = {}

Step(t) ==
  \/ Read(t) \/ ReadAll(t) \/ ReadTimeout(t) \/ ReadAllTimeout(t)
  \/ Write(t) \/ Poll(t) \/ InputWaiting(t) \/ OutputWaiting(t)

Device == Arrive \/ Transmit \/ HangUp

Next == Device \/ \E t \in Threads : Step(t) \/ Wait(t)

Spec == Init /\ [][Next]_vars

\* A call that has begun keeps running, and time passes for a blocked thread.
\* Nobody has to call, and nothing has to arrive.
Running(t) == pc[t] # "idle" /\ Step(t)
FairSpec == Spec /\ \A t \in Threads : WF_vars(Running(t)) /\ WF_vars(Wait(t))
-----------------------------------------------------------------------------
(* Properties. *)

Ended(t)    == res[t].kind = "returned"
TimedOps    == {"read_timeout", "read_all_timeout"}
LoopOps     == {"read_all", "read_all_timeout", "write"}

\* Does the call honour its timeout as passed?  poll() sees it as an int.
Bounded(t) == frame[t].ms >= 0 /\ (frame[t].op = "poll" => frame[t].ms <= IntMax)

\* Bytes that the buffer of a loop has moved over.
Moved(t) == frame[t].size - frame[t].buf.size

\* Every variable has the shape the C++ types give it.
TypeOK ==
  /\ inq \in Seq(Nat) /\ arrived \in Nat /\ hup \in BOOLEAN /\ outq \in Seq(Threads)
  /\ pc \in [Threads -> Labels]
  /\ frame \in [Threads -> Frames]
  /\ mem \in [Threads -> [Addr -> Nat]]
  /\ res \in [Threads -> [kind : {"pending", "threw", "returned"}, val : Int]]
  /\ sent \in [Threads -> Seq(Nat)]
  /\ gone \in SUBSET Nat

\* The loops of read_all, read_all_timeout and write never lose the caller's
\* buffer: what remains and what was moved over are the whole of it, so no
\* count from the kernel makes a system call touch memory outside it.
BufferInside ==
  \A t \in Threads : frame[t].buf.data + frame[t].buf.size = frame[t].size

\* However the threads' calls interleave, fail or time out, every byte that
\* arrived is in exactly one place: still queued, in the memory of one call at
\* one address, or with a call that is over.
BytesConserved ==
  LET queued == {inq[i] : i \in 1..Len(inq)}
  IN  /\ queued \cup gone \cup UNION {Held(t) : t \in Threads} = 1..arrived
      /\ queued \cap gone = {}
      /\ \A t \in Threads : Held(t) \cap (queued \cup gone) = {}
      /\ \A t, u \in Threads : t # u => Held(t) \cap Held(u) = {}
      /\ \A t \in Threads, a, b \in Addr : mem[t][a] = mem[t][b] /\ a # b => mem[t][a] = 0

\* A call's bytes lie at the front of its buffer, without gaps and in the order
\* they arrived, also when other threads took the bytes between them.
PrefixInOrder ==
  \A t \in Threads, a, b \in Addr :
    a < b /\ mem[t][b] # 0 => 0 < mem[t][a] /\ mem[t][a] < mem[t][b]

\* The count a read returns is the number of bytes it stored, whether it
\* filled the buffer, met the end of the data or ran out of time in its loop:
\* from read_all_timeout what an int keeps of it, the number itself only up to
\* INT_MAX.  read_all returns only with the buffer full; a read that threw
\* before its first byte stored none.
ReadAccounted ==
  \A t \in Threads :
    LET stored == Cardinality(Held(t))
    IN  /\ frame[t].op \in {"read_all", "read_all_timeout"} => stored = Moved(t)
        /\ Ended(t) /\ frame[t].op \in {"read", "read_timeout"} => res[t].val = stored
        /\ Ended(t) /\ frame[t].op = "read_all_timeout" => res[t].val = ToInt(stored)
        /\ Ended(t) /\ frame[t].op = "read_all" => stored = frame[t].size
        /\ res[t] = Threw /\ frame[t].op \in {"read", "read_timeout"} => stored = 0

\* The timeout bounds the time a whole call spends blocked, however many times
\* its loop waits again.
TimeoutRespected ==
  \A t \in Threads : Bounded(t) => frame[t].waited <= frame[t].ms

\* A timed read that comes back short, and a poll that says no, has waited for
\* its whole timeout, unless the device went away.
ShortMeansTimedOut ==
  \A t \in Threads :
    /\ Ended(t) /\ Bounded(t) /\ ~hup
    /\ \/ frame[t].op = "poll" /\ res[t].val = 0
       \/ frame[t].op = "read_timeout" /\ res[t].val = 0 /\ frame[t].size > 0
       \/ frame[t].op = "read_all_timeout" /\ Moved(t) < frame[t].size
    => frame[t].waited = frame[t].ms

\* write sends the caller's bytes once each and in order, across short writes,
\* and returns normally only when all were accepted.
WriteExact ==
  \A t \in Threads :
    frame[t].op = "write" =>
      /\ sent[t] = [i \in 1..Moved(t) |-> i - 1]
      /\ Ended(t) => Moved(t) = frame[t].size

\* With one caller and no failing system call, a read that waited for input finds
\* it, or the end: a timed read never throws for want of data.
WaitedReadsSucceed ==
  \A t \in Threads : frame[t].op \in TimedOps /\ Bounded(t) => res[t] # Threw

\* With one caller, what input_waiting counted is still there for its next call.
WaitingStays ==
  \A t \in Threads :
    frame[t].op = "input_waiting" /\ Ended(t) /\ ~hup => res[t].val <= Len(inq)

\* A call that may not block for ever ends: write gives up on a full queue, and
\* a timed read or poll ends whether or not anything arrives.
BoundedCallsEnd ==
  \A t \in Threads :
    (pc[t] # "idle" /\ (frame[t].op \in {"read", "write"} \/ Bounded(t))) ~> (pc[t] = "idle")

\* What is left of that when the device may go away: all of these calls end but
\* for a read_all_timeout that then reads nothing for ever.
CallsEndOrSpin ==
  \A t \in Threads :
    (pc[t] # "idle" /\ (frame[t].op \in {"read", "write"} \/ Bounded(t)))
      ~> (pc[t] = "idle" \/ (hup /\ frame[t].op = "read_all_timeout"))

\* How much a call can still do: bytes to move, time to wait, a read announced.
Rest(t) ==
  2 * (frame[t].buf.size + (IF frame[t].left > 0 THEN frame[t].left ELSE 0))
    + (IF pc[t] = "select" THEN 1 ELSE 0)

\* Why the loops end: on a device that is there and whose empty reads fail, each
\* step of a call that goes on uses up some of its bytes or of its time.  The
\* time is that of the whole call, so waiting and being interrupted by bytes in
\* turns cannot go on for ever, nor can other threads send a loop back.
CallsRunDown ==
  [][\A t \in Threads :
       EmptyRead = "Again" /\ ~hup /\ "idle" \notin {pc[t], pc'[t]}
         => <<pc[t], frame[t]>>' = <<pc[t], frame[t]>> \/ Rest(t)' < Rest(t)]_vars

\* The bytes a caller can tell it has: a loop counts what it moved over, also
\* when it throws; read and read_timeout say so only in what they return.
Count(t) ==
  IF frame[t].op \in {"read_all", "read_all_timeout"} THEN Moved(t)
  ELSE IF frame[t].op \in {"read", "read_timeout"} THEN res[t].val ELSE 0

Received == [t \in Threads |-> [i \in 1..Count(t) |-> mem[t][i - 1]]]

Stream == INSTANCE ByteStream WITH
  pending  <- inq,
  produced <- arrived,
  received <- Received,
  closed   <- hup

\* The first Count bytes of the callers' buffers are pieces of one stream: no
\* byte is overwritten, skipped, counted twice or put in two calls.
ImplementsStream == Stream!Spec
=============================================================================
