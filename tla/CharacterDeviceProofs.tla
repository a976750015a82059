----------------------- MODULE CharacterDeviceProofs -----------------------
(***************************************************************************)
(* Theorems about CharacterDevice, for any number of threads, any buffer   *)
(* sizes, timeouts and queue lengths.                                      *)
(***************************************************************************)
EXTENDS CharacterDevice, TLAPS

-----------------------------------------------------------------------------
(* What += does to a view. *)

\* += and + move the front of a view towards its end and never past it,
\* however far they are told to move.
LEMMA AdvanceView ==
  ASSUME NEW b \in Views, NEW n \in Nat
  PROVE  LET c == Advance(b, n)
         IN  /\ c \in Views
             /\ c.data + c.size = b.data + b.size
             /\ b.data <= c.data /\ c.size <= b.size
             /\ c.class = b.class
             /\ n <= b.size => c.data = b.data + n /\ c.size = b.size - n
<1> DEFINE k == Offset(b, n)
<1>1. /\ b.data \in Nat /\ b.size \in Nat /\ b.class \in {"mutable", "const"}
      /\ b = [data |-> b.data, size |-> b.size, class |-> b.class]
  BY DEF Views
<1>2. k \in 0..b.size /\ (n <= b.size => k = n)
  BY <1>1 DEF Offset
<1>3. Advance(b, n) = [data |-> b.data + k, size |-> b.size - k, class |-> b.class]
  BY <1>1 DEF Advance
<1> HIDE DEF k
<1> QED
  BY <1>1, <1>2, <1>3 DEF Views

\* Moving twice is moving once by the sum: the loops that call += after every
\* short read or write reach the byte after the last one transferred.
THEOREM AdvanceComposes ==
  ASSUME NEW b \in Views, NEW m \in Nat, NEW n \in Nat
  PROVE  Advance(Advance(b, m), n) = Advance(b, m + n)
  BY DEF Views, Advance, Offset

-----------------------------------------------------------------------------
(* The timeout's conversions lose nothing. *)

\* Division with remainder, in the form the arithmetic below needs.
LEMMA DivMod ==
  ASSUME NEW x \in Nat, NEW d \in Nat \ {0}
  PROVE  /\ x \div d \in Nat /\ x % d \in 0..d-1
         /\ x = ((x \div d) * d) + (x % d)
  BY SMT

\* The kernel waits for exactly the milliseconds the caller asked for.
LEMMA TimevalExact ==
  ASSUME NEW ms \in Nat
  PROVE  KernelMs(Timeval(ms)) = ms
<1>1. MsPerSec \in Nat \ {0}
  BY CharacterDeviceAssumption
<1>2. /\ ms \div MsPerSec \in Nat /\ ms % MsPerSec \in Nat
      /\ ms = ((ms \div MsPerSec) * MsPerSec) + (ms % MsPerSec)
  BY <1>1, DivMod
<1>3. ASSUME NEW r \in Nat PROVE (r * 1000) \div 1000 = r
  BY SMT
<1>4. ((ms % MsPerSec) * 1000) \div 1000 = ms % MsPerSec
  BY <1>2, <1>3
<1> QED
  BY <1>2, <1>4 DEF KernelMs, Timeval

\* A number that fits in an int is not changed when it becomes one.
LEMMA ToIntExact ==
  ASSUME NEW ms \in 0..IntMax
  PROVE  ToInt(ms) = ms
<1>1. IntMax \in Nat
  BY CharacterDeviceAssumption
<1>2. ASSUME NEW d \in Nat, ms < d PROVE ms % d = ms
  BY <1>1, <1>2
<1>3. ms % (2 * (IntMax + 1)) = ms
  BY <1>1, <1>2
<1> QED
  BY <1>1, <1>3 DEF ToInt
-----------------------------------------------------------------------------
(* The parts the actions are made of keep the types. *)

\* What a fresh buffer of n bytes is.
LEMMA FreshBuffer ==
  ASSUME NEW n \in 0..MaxSize
  PROVE  /\ MutableBuffer(0, n) \in Views /\ MutableBuffer(0, n).size = n
         /\ MutableBuffer(0, n).data = 0
         /\ ConstBuffer(0, n) \in Views /\ ConstBuffer(0, n).size = n
         /\ ConstBuffer(0, n).data = 0
<1>1. MaxSize \in Nat
  BY CharacterDeviceAssumption
<1> QED
  BY <1>1 DEF Views, MutableBuffer, ConstBuffer

FrameOK == frame \in [Threads -> Frames]
MemOK   == mem \in [Threads -> [Addr -> Nat]]

LEMMA EnterTypes ==
  ASSUME TypeOK, NEW t \in Threads, NEW op \in AllOps, NEW buf \in Views,
         NEW ms \in Int, NEW left \in Int, buf.size \in 0..MaxSize,
         Enter(t, op, buf, ms, left)
  PROVE  /\ FrameOK' /\ MemOK' /\ gone' \in SUBSET Nat /\ sent' \in [Threads -> Seq(Nat)]
<1>1. FrameOK'
  <2>1. [op |-> op, size |-> buf.size, ms |-> ms, buf |-> buf, left |-> left, waited |-> 0]
          \in Frames
    BY DEF Frames
  <2> QED
    BY <2>1 DEF FrameOK, TypeOK, Enter
<1>2. MemOK'
  BY DEF MemOK, TypeOK, Enter, Untouched
<1>3. gone' \in SUBSET Nat
  <2>1. mem[t] \in [Addr -> Nat]
    BY DEF TypeOK
  <2>2. Held(t) \subseteq Nat
    BY <2>1 DEF Held
  <2> QED
    BY <2>2 DEF TypeOK, Enter
<1>4. sent' \in [Threads -> Seq(Nat)]
  BY DEF TypeOK, Enter
<1> QED
  BY <1>1, <1>2, <1>3, <1>4

LEMMA GotoTypes ==
  ASSUME TypeOK, NEW t \in Threads, NEW label \in Labels, Goto(t, label)
  PROVE  /\ pc' \in [Threads -> Labels]
         /\ res' \in [Threads -> [kind : {"pending", "threw", "returned"}, val : Int]]
  BY DEF TypeOK, Goto, Pending

LEMMA LeaveTypes ==
  ASSUME TypeOK, NEW t \in Threads, NEW o, Leave(t, o),
         o \in [kind : {"pending", "threw", "returned"}, val : Int]
  PROVE  /\ pc' \in [Threads -> Labels]
         /\ res' \in [Threads -> [kind : {"pending", "threw", "returned"}, val : Int]]
  BY DEF TypeOK, Leave, Labels

LEMMA SysReadTypes ==
  ASSUME TypeOK, NEW t \in Threads, NEW ret \in ReadResults(frame[t].buf), SysRead(t, ret)
  PROVE  /\ inq' \in Seq(Nat) /\ MemOK'
         /\ ret \in Int /\ ret <= frame[t].buf.size
<1>1. frame[t].buf \in Views
  BY DEF TypeOK, Frames
<1>2. ret \in Int /\ ret <= frame[t].buf.size /\ ret <= Len(inq)
  BY <1>1 DEF ReadResults, Transfers, Views, TypeOK
<1> DEFINE n == IF ret > 0 THEN ret ELSE 0
           data == frame[t].buf.data
<1>3. n \in 0..Len(inq) /\ data \in Nat /\ Len(inq) \in Nat
  BY <1>1, <1>2 DEF Views, TypeOK
<1>4. inq' \in Seq(Nat)
  <2>1. inq' = SubSeq(inq, n + 1, Len(inq))
    BY DEF SysRead
  <2> QED
    BY <2>1, <1>3 DEF TypeOK
<1>5. \A a \in Addr : a \in data .. data + n - 1 => inq[a - data + 1] \in Nat
  <2>1. \A i \in 1..Len(inq) : inq[i] \in Nat
    BY DEF TypeOK
  <2>2. Addr \subseteq Int
    BY CharacterDeviceAssumption DEF Addr
  <2> HIDE DEF n, data
  <2>3. ASSUME NEW a \in Addr, a \in data .. data + n - 1
        PROVE  a - data + 1 \in 1..Len(inq)
    BY <1>3, <2>2, <2>3
  <2> QED
    BY <2>1, <2>3
<1>6. MemOK'
  <2>1. mem' = [mem EXCEPT ![t] = [a \in Addr |->
                  IF a \in data .. data + n - 1 THEN inq[a - data + 1] ELSE mem[t][a]]]
    BY DEF SysRead
  <2>2. [a \in Addr |-> IF a \in data .. data + n - 1 THEN inq[a - data + 1] ELSE mem[t][a]]
          \in [Addr -> Nat]
    BY <1>5 DEF TypeOK
  <2> QED
    BY <2>1, <2>2 DEF MemOK, TypeOK
<1> QED
  BY <1>2, <1>4, <1>6

LEMMA SysWriteTypes ==
  ASSUME TypeOK, NEW t \in Threads, NEW ret \in WriteResults(frame[t].buf), SysWrite(t, ret)
  PROVE  /\ outq' \in Seq(Threads) /\ sent' \in [Threads -> Seq(Nat)]
         /\ ret \in Int /\ ret <= frame[t].buf.size
<1> DEFINE n == IF ret > 0 THEN ret ELSE 0
           data == frame[t].buf.data
<1>1. frame[t].buf \in Views /\ data \in Nat
  BY DEF TypeOK, Frames, Views
<1>2. ret \in Int /\ ret <= frame[t].buf.size
  BY <1>1, CharacterDeviceAssumption DEF WriteResults, Transfers, Views, TypeOK
<1>3. n \in Nat
  BY <1>2
<1>4. /\ outq' = outq \o [i \in 1..n |-> t]
      /\ sent' = [sent EXCEPT ![t] = sent[t] \o [i \in 1..n |-> data + i - 1]]
  BY DEF SysWrite
<1> HIDE DEF n, data
<1>5. [i \in 1..n |-> t] \in Seq(Threads)
  BY <1>3
<1>6. [i \in 1..n |-> data + i - 1] \in Seq(Nat)
  <2>1. \A i \in 1..n : data + i - 1 \in Nat
    BY <1>1, <1>3
  <2> QED
    BY <1>3, <2>1
<1>7. outq' \in Seq(Threads)
  BY <1>4, <1>5 DEF TypeOK
<1>8. sent' \in [Threads -> Seq(Nat)]
  BY <1>4, <1>6 DEF TypeOK
<1> QED
  BY <1>2, <1>7, <1>8

LEMMA EnterInside ==
  ASSUME TypeOK, BufferInside, NEW t \in Threads, NEW op, NEW buf \in Views, NEW ms, NEW left,
         buf.data = 0, Enter(t, op, buf, ms, left)
  PROVE  BufferInside'
<1>1. ASSUME NEW u \in Threads
      PROVE  frame'[u].buf.data + frame'[u].buf.size = frame'[u].size
  <2>1. frame' = [frame EXCEPT ![t] = [op |-> op, size |-> buf.size, ms |-> ms,
                                       buf |-> buf, left |-> left, waited |-> 0]]
    BY DEF Enter
  <2>2. CASE u = t
    BY <2>1, <2>2 DEF TypeOK, Views
  <2>3. CASE u # t
    BY <2>1, <2>3 DEF TypeOK, BufferInside
  <2> QED
    BY <2>2, <2>3
<1> QED
  BY <1>1 DEF BufferInside

LEMMA ProgressKeeps ==
  ASSUME TypeOK, BufferInside, NEW t \in Threads, NEW n \in Nat,
         NEW label \in Labels, NEW val \in Int, Progress(t, n, label, val)
  PROVE  /\ FrameOK' /\ BufferInside'
         /\ pc' \in [Threads -> Labels]
         /\ res' \in [Threads -> [kind : {"pending", "threw", "returned"}, val : Int]]
<1> DEFINE b == Advance(frame[t].buf, n)
<1>1. frame[t].buf \in Views
  BY DEF TypeOK, Frames
<1>2. b \in Views /\ b.data + b.size = frame[t].buf.data + frame[t].buf.size
  BY <1>1, AdvanceView
<1>3. frame' = [frame EXCEPT ![t].buf = b]
  BY DEF Progress
<1> HIDE DEF b
<1>4. FrameOK'
  BY <1>2, <1>3 DEF FrameOK, TypeOK, Frames
<1>5. BufferInside'
  BY <1>2, <1>3 DEF BufferInside, TypeOK, Frames
<1>6. Goto(t, label) \/ Leave(t, Returned(val))
  BY DEF Progress
<1>7. Returned(val) \in [kind : {"pending", "threw", "returned"}, val : Int]
  BY DEF Returned
<1> QED
  BY <1>4, <1>5, <1>6, <1>7, GotoTypes, LeaveTypes
-----------------------------------------------------------------------------
(* The types, and the loops' hold on the caller's buffer. *)

Results == [kind : {"pending", "threw", "returned"}, val : Int]

Sound == TypeOK /\ BufferInside

LEMMA ConstantTypes ==
  /\ MaxSize \in Nat /\ NoTimeout \in Int
  /\ Timeouts \subseteq Int
  /\ \A n \in 0..MaxSize : n \in Nat
  /\ Threw \in Results /\ \A v \in Int : Returned(v) \in Results
  BY CharacterDeviceAssumption DEF NoTimeout, Results, Threw, Returned

\* Whatever is narrowed to an int is a number.
LEMMA NarrowedTypes == \A n \in Int : ToInt(n) \in Int
<1> SUFFICES ASSUME NEW n \in Int PROVE ToInt(n) \in Int
  OBVIOUS
<1>1. IntMax \in Nat
  BY CharacterDeviceAssumption
<1>2. ASSUME NEW d \in Nat \ {0} PROVE n % d \in Int
  BY <1>2
<1>3. n % (2 * (IntMax + 1)) \in Int
  BY <1>1, <1>2
<1> QED
  BY <1>1, <1>3 DEF ToInt

LEMMA TimeoutTypes ==
  ASSUME NEW ms \in Timeouts
  PROVE  ms \in Int /\ KernelMs(Timeval(ms)) \in Int /\ ToInt(ms) \in Int
<1>1. ms \in Int /\ MsPerSec \in Nat \ {0} /\ IntMax \in Nat
  BY CharacterDeviceAssumption
<1>2. ASSUME NEW d \in Nat \ {0} PROVE ms \div d \in Int /\ ms % d \in Int
  BY <1>1
<1>3. ASSUME NEW x \in Int PROVE x \div 1000 \in Int
  BY SMT
<1>4. (ms % MsPerSec) * 1000 \in Int
  BY <1>1, <1>2
<1>5. KernelMs(Timeval(ms)) \in Int
  BY <1>1, <1>2, <1>3, <1>4 DEF KernelMs, Timeval
<1> QED
  BY <1>1, <1>5, NarrowedTypes

\* Beginning a call that then waits, makes a system call or is over.
LEMMA BeginSound ==
  ASSUME Sound, NEW t \in Threads, NEW op \in AllOps, NEW buf \in Views,
         NEW ms \in Int, NEW left \in Int, buf.size \in 0..MaxSize, buf.data = 0,
         Enter(t, op, buf, ms, left),
         \/ \E label \in Labels : Goto(t, label)
         \/ \E o \in Results : Leave(t, o)
  PROVE  Sound'
<1>1. /\ FrameOK' /\ MemOK' /\ gone' \in SUBSET Nat /\ sent' \in [Threads -> Seq(Nat)]
  BY EnterTypes DEF Sound
<1>2. BufferInside'
  BY EnterInside DEF Sound
<1>3. pc' \in [Threads -> Labels] /\ res' \in [Threads -> Results]
  BY GotoTypes, LeaveTypes DEF Sound, Results
<1>4. UNCHANGED kernel
  BY DEF Enter
<1> QED
  BY <1>1, <1>2, <1>3, <1>4 DEF Sound, TypeOK, FrameOK, MemOK, kernel, Results

\* The step of a call that makes a ::read and ends, or goes round its loop.
LEMMA ReadStepSound ==
  ASSUME Sound, NEW t \in Threads, NEW ret \in ReadResults(frame[t].buf), SysRead(t, ret),
         \/ UNCHANGED frame /\ \E o \in Results : Leave(t, o)
         \/ ret >= 0 /\ \E label \in Labels, val \in Int : Progress(t, ret, label, val)
  PROVE  Sound'
<1>1. inq' \in Seq(Nat) /\ MemOK' /\ ret \in Int
  BY SysReadTypes DEF Sound
<1>2. UNCHANGED <<arrived, hup, outq, sent, gone>>
  BY DEF SysRead
<1>3. FrameOK' /\ BufferInside' /\ pc' \in [Threads -> Labels] /\ res' \in [Threads -> Results]
  <2>1. CASE UNCHANGED frame /\ \E o \in Results : Leave(t, o)
    BY <2>1, LeaveTypes DEF Sound, TypeOK, FrameOK, BufferInside, Results
  <2>2. CASE ret >= 0 /\ \E label \in Labels, val \in Int : Progress(t, ret, label, val)
    BY <1>1, <2>2, ProgressKeeps DEF Sound, Results
  <2> QED
    BY <2>1, <2>2
<1> QED
  BY <1>1, <1>2, <1>3 DEF Sound, TypeOK, FrameOK, MemOK, Results

LEMMA SelectSound ==
  ASSUME Sound, NEW t \in Threads, NEW val \in Int, Select(t, val)
  PROVE  Sound'
<1>1. frame' = [frame EXCEPT ![t].left = frame[t].left]
  BY DEF Select, NextTimeval
<1>2. frame' = frame
  BY <1>1 DEF Sound, TypeOK, Frames
<1>3. \/ Goto(t, "read")
      \/ \E o \in Results : Leave(t, o)
  BY ConstantTypes DEF Select
<1>4. pc' \in [Threads -> Labels] /\ res' \in [Threads -> Results]
  BY <1>3, GotoTypes, LeaveTypes DEF Sound, Results, Labels
<1> QED
  BY <1>2, <1>4 DEF Select, Sound, TypeOK, BufferInside, kernel, Results

LEMMA WaitSound ==
  ASSUME Sound, NEW t \in Threads, Wait(t)
  PROVE  Sound'
<1>1. frame' = [frame EXCEPT ![t].left = frame[t].left - 1, ![t].waited = frame[t].waited + 1]
  BY DEF Wait
<1>2. frame[t].left - 1 \in Int /\ frame[t].waited + 1 \in Nat
  BY DEF Sound, TypeOK, Frames
<1>3. FrameOK'
  <2> DEFINE f == [frame EXCEPT ![t].left = frame[t].left - 1]
  <2>1. f \in [Threads -> Frames]
    BY <1>2 DEF Sound, TypeOK, Frames
  <2>2. frame' = [f EXCEPT ![t].waited = frame[t].waited + 1]
    BY <1>1
  <2> HIDE DEF f
  <2> QED
    BY <1>2, <2>1, <2>2 DEF FrameOK, Frames
<1>4. BufferInside'
  <2>1. \A u \in Threads : frame'[u].buf = frame[u].buf /\ frame'[u].size = frame[u].size
    BY <1>1 DEF Sound, TypeOK, Frames
  <2> QED
    BY <2>1 DEF Sound, BufferInside
<1> QED
  BY <1>3, <1>4 DEF Wait, Sound, TypeOK, FrameOK, kernel

\* Every thread's locals are of their types.
LEMMA FrameTypes ==
  ASSUME Sound, NEW t \in Threads
  PROVE  /\ frame[t].size \in Nat /\ frame[t].buf.size \in Nat
         /\ frame[t].buf.data \in Nat /\ frame[t].ms \in Int
         /\ frame[t].size - frame[t].buf.size = frame[t].buf.data
  BY ConstantTypes DEF Sound, TypeOK, Frames, Views, BufferInside

LEMMA LabelTypes ==
  /\ "read" \in Labels /\ "select" \in Labels /\ "write" \in Labels /\ "poll" \in Labels
  /\ \A ms \in Int : FirstCall(ms) \in Labels
  BY DEF Labels, FirstCall

LEMMA ReadSound ==
  ASSUME Sound, NEW t \in Threads, Read(t)
  PROVE  Sound'
<1>1. CASE \E n \in 0..MaxSize :
             Enter(t, "read", MutableBuffer(0, n), NoTimeout, 0) /\ Goto(t, "read")
  BY <1>1, FreshBuffer, ConstantTypes, LabelTypes, BeginSound DEF AllOps
<1>2. CASE \E ret \in ReadResults(frame[t].buf) :
             /\ SysRead(t, ret)
             /\ Leave(t, IF ret < 0 THEN Threw ELSE Returned(ret))
             /\ UNCHANGED frame
  <2>1. PICK ret \in ReadResults(frame[t].buf) :
          /\ SysRead(t, ret)
          /\ Leave(t, IF ret < 0 THEN Threw ELSE Returned(ret))
          /\ UNCHANGED frame
    BY <1>2
  <2>2. ret \in Int
    BY <2>1, SysReadTypes DEF Sound
  <2>3. (IF ret < 0 THEN Threw ELSE Returned(ret)) \in Results
    BY <2>2, ConstantTypes
  <2> QED
    BY <2>1, <2>3, ReadStepSound
<1> QED
  BY <1>1, <1>2 DEF Read

LEMMA ReadAllSound ==
  ASSUME Sound, NEW t \in Threads, ReadAll(t)
  PROVE  Sound'
<1>1. CASE \E n \in 0..MaxSize :
             /\ Enter(t, "read_all", MutableBuffer(0, n), NoTimeout, 0)
             /\ IF n > 0 THEN Goto(t, "read") ELSE Leave(t, Returned(0))
  BY <1>1, FreshBuffer, ConstantTypes, LabelTypes, BeginSound DEF AllOps
<1>2. CASE \E ret \in ReadResults(frame[t].buf) :
             /\ SysRead(t, ret)
             /\ \/ ret < 0 /\ Leave(t, Threw) /\ UNCHANGED frame
                \/ ret >= 0 /\ Progress(t, ret, "read", 0)
  BY <1>2, ConstantTypes, LabelTypes, ReadStepSound
<1> QED
  BY <1>1, <1>2 DEF ReadAll

LEMMA ReadTimeoutSound ==
  ASSUME Sound, NEW t \in Threads, ReadTimeout(t)
  PROVE  Sound'
<1>1. CASE \E n \in 0..MaxSize, ms \in Timeouts :
             /\ Enter(t, "read_timeout", MutableBuffer(0, n), ms, KernelMs(Timeval(ms)))
             /\ Goto(t, FirstCall(ms))
  BY <1>1, FreshBuffer, TimeoutTypes, LabelTypes, BeginSound DEF AllOps
<1>2. CASE Select(t, 0)
  BY <1>2, SelectSound
<1>3. CASE \E ret \in ReadResults(frame[t].buf) :
             /\ SysRead(t, ret)
             /\ Leave(t, IF ret < 0 THEN Threw ELSE Returned(ret))
             /\ UNCHANGED frame
  <2>1. PICK ret \in ReadResults(frame[t].buf) :
          /\ SysRead(t, ret)
          /\ Leave(t, IF ret < 0 THEN Threw ELSE Returned(ret))
          /\ UNCHANGED frame
    BY <1>3
  <2>2. ret \in Int
    BY <2>1, SysReadTypes DEF Sound
  <2>3. (IF ret < 0 THEN Threw ELSE Returned(ret)) \in Results
    BY <2>2, ConstantTypes
  <2> QED
    BY <2>1, <2>3, ReadStepSound
<1> QED
  BY <1>1, <1>2, <1>3 DEF ReadTimeout

LEMMA ReadAllTimeoutSound ==
  ASSUME Sound, NEW t \in Threads, ReadAllTimeout(t)
  PROVE  Sound'
<1> DEFINE count == ToInt(frame[t].size - frame[t].buf.size)
<1>1. CASE \E n \in 0..MaxSize, ms \in Timeouts :
             /\ Enter(t, "read_all_timeout", MutableBuffer(0, n), ms, KernelMs(Timeval(ms)))
             /\ Goto(t, FirstCall(ms))
  BY <1>1, FreshBuffer, TimeoutTypes, LabelTypes, BeginSound DEF AllOps
<1>2. CASE Select(t, count)
  <2>1. count \in Int BY FrameTypes, NarrowedTypes
  <2> HIDE DEF count
  <2> QED BY <1>2, <2>1, SelectSound
<1>3. CASE \E ret \in ReadResults(frame[t].buf) :
             /\ SysRead(t, ret)
             /\ \/ ret < 0 /\ Leave(t, Threw) /\ UNCHANGED frame
                \/ ret >= 0 /\ Progress(t, ret, FirstCall(frame[t].ms), ToInt(frame[t].size))
  BY <1>3, FrameTypes, NarrowedTypes, ConstantTypes, LabelTypes, ReadStepSound
<1> QED
  BY <1>1, <1>2, <1>3 DEF ReadAllTimeout

LEMMA WriteSound ==
  ASSUME Sound, NEW t \in Threads, Write(t)
  PROVE  Sound'
<1>1. CASE \E n \in 0..MaxSize :
             /\ Enter(t, "write", ConstBuffer(0, n), NoTimeout, 0)
             /\ IF n > 0 THEN Goto(t, "write") ELSE Leave(t, Returned(0))
  BY <1>1, FreshBuffer, ConstantTypes, LabelTypes, BeginSound DEF AllOps
<1>2. ASSUME NEW ret \in WriteResults(frame[t].buf), SysWrite(t, ret),
             \/ ret < 0 /\ Leave(t, Threw) /\ UNCHANGED frame
             \/ ret >= 0 /\ Progress(t, ret, "write", 0)
      PROVE  Sound'
  <2>1. outq' \in Seq(Threads) /\ sent' \in [Threads -> Seq(Nat)] /\ ret \in Int
    BY <1>2, SysWriteTypes DEF Sound
  <2>2. UNCHANGED <<inq, arrived, hup, mem, gone>>
    BY <1>2 DEF SysWrite
  <2>3. FrameOK' /\ BufferInside' /\ pc' \in [Threads -> Labels] /\ res' \in [Threads -> Results]
    <3>1. CASE ret < 0 /\ Leave(t, Threw) /\ UNCHANGED frame
      BY <3>1, LeaveTypes, ConstantTypes DEF Sound, TypeOK, FrameOK, BufferInside, Results
    <3>2. CASE ret >= 0 /\ Progress(t, ret, "write", 0)
      BY <2>1, <3>2, ProgressKeeps, LabelTypes DEF Sound, Results
    <3> QED
      BY <1>2, <3>1, <3>2
  <2> QED
    BY <2>1, <2>2, <2>3 DEF Sound, TypeOK, FrameOK, Results
<1> QED
  BY <1>1, <1>2 DEF Write

LEMMA PollSound ==
  ASSUME Sound, NEW t \in Threads, Poll(t)
  PROVE  Sound'
<1>1. CASE \E ms \in Timeouts :
             Enter(t, "poll", MutableBuffer(0, 0), ms, ToInt(ms)) /\ Goto(t, "poll")
  BY <1>1, FreshBuffer, TimeoutTypes, ConstantTypes, LabelTypes, BeginSound DEF AllOps
<1>2. CASE /\ UNCHANGED <<kernel, frame, mem, sent, gone>>
           /\ \E o \in Results : Leave(t, o)
  BY <1>2, LeaveTypes DEF Sound, TypeOK, BufferInside, kernel, Results
<1> QED
  BY <1>1, <1>2, ConstantTypes DEF Poll

\* input_waiting and output_waiting begin and end in one step.
LEMMA WaitingSound ==
  ASSUME Sound, NEW t \in Threads, InputWaiting(t) \/ OutputWaiting(t)
  PROVE  Sound'
<1>1. Len(inq) \in Nat /\ Len(outq) \in Nat
  BY DEF Sound, TypeOK
<1>2. CASE InputWaiting(t)
  BY <1>1, <1>2, FreshBuffer, ConstantTypes, BeginSound DEF InputWaiting, AllOps
<1>3. CASE OutputWaiting(t)
  BY <1>1, <1>3, FreshBuffer, ConstantTypes, BeginSound DEF OutputWaiting, AllOps
<1> QED
  BY <1>2, <1>3

LEMMA DeviceSound ==
  ASSUME Sound, Device
  PROVE  Sound'
<1>1. CASE Arrive
  BY <1>1 DEF Arrive, Sound, TypeOK, BufferInside
<1>2. CASE Transmit
  BY <1>2 DEF Transmit, Sound, TypeOK, BufferInside
<1>3. CASE HangUp
  <2>1. {inq[i] : i \in 1..Len(inq)} \subseteq Nat
    BY DEF Sound, TypeOK
  <2>2. gone' \in SUBSET Nat
    <3>1. gone \in SUBSET Nat /\ (gone' = gone \/ gone' = gone \cup {inq[i] : i \in 1..Len(inq)})
      BY <1>3 DEF HangUp, Sound, TypeOK
    <3> QED
      BY <2>1, <3>1
  <2>3. inq' \in Seq(Nat) /\ outq' \in Seq(Threads)
    <3>1. inq \in Seq(Nat) /\ (inq' = inq \/ inq' = <<>>) /\ outq' = <<>>
      BY <1>3 DEF HangUp, Sound, TypeOK
    <3>2. <<>> \in Seq(Nat) /\ <<>> \in Seq(Threads)
      OBVIOUS
    <3> QED
      BY <3>1, <3>2, Zenon
  <2>4. hup' \in BOOLEAN
    BY <1>3, Zenon DEF HangUp
  <2> QED
    BY <1>3, <2>2, <2>3, <2>4 DEF HangUp, Sound, TypeOK, BufferInside
<1> QED
  BY <1>1, <1>2, <1>3 DEF Device

LEMMA InitSound == Init => Sound
<1> SUFFICES ASSUME Init PROVE Sound
  OBVIOUS
<1>1. MutableBuffer(0, 0) \in Views /\ MutableBuffer(0, 0).data + MutableBuffer(0, 0).size = 0
  BY DEF MutableBuffer, Views
<1>2. [op |-> "none", size |-> 0, ms |-> NoTimeout, buf |-> MutableBuffer(0, 0),
       left |-> 0, waited |-> 0] \in Frames
  BY <1>1, ConstantTypes DEF Frames
<1>3. FrameOK /\ BufferInside
  BY <1>1, <1>2 DEF Init, FrameOK, BufferInside
<1>4. Untouched \in [Addr -> Nat] /\ Pending \in Results
  BY DEF Untouched, Pending, Results
<1>5. /\ inq \in Seq(Nat) /\ arrived \in Nat /\ outq \in Seq(Threads)
      /\ pc \in [Threads -> Labels] /\ sent \in [Threads -> Seq(Nat)] /\ gone \in SUBSET Nat
  BY DEF Init, Labels
<1>6. mem \in [Threads -> [Addr -> Nat]] /\ res \in [Threads -> Results]
  BY <1>4 DEF Init
<1>7. hup \in BOOLEAN
  BY Zenon DEF Init
<1> QED
  BY <1>3, <1>5, <1>6, <1>7 DEF Sound, TypeOK, FrameOK, Results

LEMMA NextSound == Sound /\ [Next]_vars => Sound'
<1> SUFFICES ASSUME Sound, [Next]_vars PROVE Sound'
  OBVIOUS
<1>1. CASE UNCHANGED vars
  BY <1>1 DEF vars, Sound, TypeOK, BufferInside
<1>2. CASE Device
  BY <1>2, DeviceSound
<1>3. ASSUME NEW t \in Threads, Step(t) \/ Wait(t) PROVE Sound'
  BY <1>3, WaitSound, ReadSound, ReadAllSound, ReadTimeoutSound, ReadAllTimeoutSound,
     WriteSound, PollSound, WaitingSound DEF Step
<1> QED
  BY <1>1, <1>2, <1>3 DEF Next

\* Whatever the threads call and the kernel returns, every variable keeps its
\* type and the loops of read_all, read_all_timeout and write keep the view of
\* the caller's buffer inside it.
THEOREM TypeAndBufferInvariant == Spec => [](TypeOK /\ BufferInside)
<1>1. Sound => TypeOK /\ BufferInside
  BY DEF Sound
<1> QED
  BY InitSound, NextSound, <1>1, PTL DEF Spec
-----------------------------------------------------------------------------
(* Timeouts. *)

\* The time a bounded call has left and the time it has waited make up what it
\* was given: this is what TimeoutRespected needs to be inductive.
Budget ==
  \A t \in Threads : Bounded(t) => frame[t].left >= 0 /\ frame[t].left + frame[t].waited = frame[t].ms

\* Calls begin with their whole timeout left, if it is bounded at all.
LEMMA EnterBudget ==
  ASSUME Sound, Budget, NEW t \in Threads, NEW op \in AllOps, NEW buf \in Views,
         NEW ms \in Int, NEW left \in Int, Enter(t, op, buf, ms, left),
         ms >= 0 /\ (op = "poll" => ms <= IntMax) => left = ms
  PROVE  Budget'
<1>1. frame' = [frame EXCEPT ![t] = [op |-> op, size |-> buf.size, ms |-> ms,
                                     buf |-> buf, left |-> left, waited |-> 0]]
  BY DEF Enter
<1>2. ASSUME NEW u \in Threads, Bounded(u)'
      PROVE  frame'[u].left >= 0 /\ frame'[u].left + frame'[u].waited = frame'[u].ms
  <2>1. CASE u = t
    BY <1>1, <1>2, <2>1 DEF Sound, TypeOK, Bounded
  <2>2. CASE u # t
    <3>1. frame'[u] = frame[u]
      BY <1>1, <2>2 DEF Sound, TypeOK
    <3> QED
      BY <1>2, <3>1 DEF Budget, Bounded
  <2> QED
    BY <2>1, <2>2
<1> QED
  BY <1>2 DEF Budget

\* Steps that leave the clocks of all calls alone.
Untimed ==
  \A u \in Threads : /\ frame'[u].op = frame[u].op     /\ frame'[u].ms = frame[u].ms
                     /\ frame'[u].left = frame[u].left /\ frame'[u].waited = frame[u].waited

LEMMA UntimedBudget == Budget /\ Untimed => Budget'
  BY DEF Budget, Untimed, Bounded

LEMMA ProgressUntimed ==
  ASSUME Sound, NEW t \in Threads, NEW n, NEW label, NEW val, Progress(t, n, label, val)
  PROVE  Untimed
<1>1. frame' = [frame EXCEPT ![t].buf = Advance(frame[t].buf, n)]
  BY DEF Progress
<1> QED
  BY <1>1 DEF Untimed, Sound, TypeOK, Frames

LEMMA SelectUntimed ==
  ASSUME Sound, NEW t \in Threads, NEW val, Select(t, val)
  PROVE  Untimed
<1>1. frame' = [frame EXCEPT ![t].left = frame[t].left]
  BY DEF Select, NextTimeval
<1> QED
  BY <1>1 DEF Untimed, Sound, TypeOK, Frames

LEMMA WaitBudget ==
  ASSUME Sound, Budget, NEW t \in Threads, Wait(t)
  PROVE  Budget'
<1>1. frame' = [frame EXCEPT ![t].left = frame[t].left - 1, ![t].waited = frame[t].waited + 1]
  BY DEF Wait
<1>2. ASSUME NEW u \in Threads
      PROVE  /\ frame'[u].op = frame[u].op /\ frame'[u].ms = frame[u].ms
             /\ u # t => frame'[u].left = frame[u].left /\ frame'[u].waited = frame[u].waited
             /\ u = t => /\ frame'[u].left = frame[u].left - 1
                         /\ frame'[u].waited = frame[u].waited + 1
  BY <1>1 DEF Sound, TypeOK, Frames
<1>3. frame[t].left > 0 /\ frame[t].left \in Int /\ frame[t].waited \in Nat /\ frame[t].ms \in Int
  BY DEF Wait, Sound, TypeOK, Frames
<1>4. ASSUME NEW u \in Threads, Bounded(u)'
      PROVE  frame'[u].left >= 0 /\ frame'[u].left + frame'[u].waited = frame'[u].ms
  <2>1. Bounded(u)
    BY <1>2, <1>4 DEF Bounded
  <2> QED
    BY <1>2, <1>3, <2>1 DEF Budget
<1> QED
  BY <1>4 DEF Budget

\* What the timed calls and poll are given is what the caller passed.
LEMMA GivenTimeout ==
  ASSUME NEW ms \in Timeouts, ms >= 0
  PROVE  KernelMs(Timeval(ms)) = ms /\ (ms <= IntMax => ToInt(ms) = ms)
<1>1. ms \in Nat /\ IntMax \in Nat
  BY CharacterDeviceAssumption
<1> QED
  BY <1>1, TimevalExact, ToIntExact

LEMMA StepBudget ==
  ASSUME Sound, Budget, NEW t \in Threads, Step(t)
  PROVE  Budget'
<1>1. ASSUME NEW op \in AllOps, NEW buf \in Views, Enter(t, op, buf, NoTimeout, 0)
      PROVE  Budget'
  BY <1>1, EnterBudget, ConstantTypes DEF NoTimeout
<1>2. CASE UNCHANGED frame
  BY <1>2, UntimedBudget DEF Untimed
<1>3. ASSUME NEW n, NEW label, NEW val, Progress(t, n, label, val)
      PROVE  Budget'
  BY <1>3, ProgressUntimed, UntimedBudget
<1>4. ASSUME NEW val, Select(t, val)
      PROVE  Budget'
  BY <1>4, SelectUntimed, UntimedBudget
<1>5. ASSUME NEW op \in {"read_timeout", "read_all_timeout"}, NEW n \in 0..MaxSize,
             NEW ms \in Timeouts,
             Enter(t, op, MutableBuffer(0, n), ms, KernelMs(Timeval(ms)))
      PROVE  Budget'
  BY <1>5, EnterBudget, GivenTimeout, TimeoutTypes, FreshBuffer DEF AllOps
<1>6. ASSUME NEW ms \in Timeouts, Enter(t, "poll", MutableBuffer(0, 0), ms, ToInt(ms))
      PROVE  Budget'
  BY <1>6, EnterBudget, GivenTimeout, TimeoutTypes, FreshBuffer, ConstantTypes DEF AllOps
<1>7. CASE Read(t)
  BY <1>1, <1>2, <1>7, FreshBuffer DEF Read, AllOps
<1>8. CASE ReadAll(t)
  BY <1>1, <1>2, <1>3, <1>8, FreshBuffer DEF ReadAll, AllOps
<1>9. CASE ReadTimeout(t)
  BY <1>2, <1>4, <1>5, <1>9 DEF ReadTimeout
<1>10. CASE ReadAllTimeout(t)
  BY <1>2, <1>3, <1>4, <1>5, <1>10 DEF ReadAllTimeout
<1>11. CASE Write(t)
  BY <1>1, <1>2, <1>3, <1>11, FreshBuffer DEF Write, AllOps
<1>12. CASE Poll(t)
  BY <1>2, <1>6, <1>12 DEF Poll
<1>13. CASE InputWaiting(t) \/ OutputWaiting(t)
  BY <1>1, <1>13, FreshBuffer, ConstantTypes DEF InputWaiting, OutputWaiting, AllOps
<1> QED
  BY <1>7, <1>8, <1>9, <1>10, <1>11, <1>12, <1>13 DEF Step

LEMMA InitBudget == Init => Budget
<1> SUFFICES ASSUME Init PROVE Budget
  OBVIOUS
<1>1. \A t \in Threads : frame[t].ms = NoTimeout
  BY DEF Init
<1> QED
  BY <1>1 DEF Budget, Bounded, NoTimeout

LEMMA BudgetRespected == Sound /\ Budget => TimeoutRespected
<1> SUFFICES ASSUME Sound, Budget, NEW t \in Threads, Bounded(t)
             PROVE  frame[t].waited <= frame[t].ms
  BY DEF TimeoutRespected
<1>1. frame[t].left \in Int /\ frame[t].waited \in Nat /\ frame[t].ms \in Int
  BY DEF Sound, TypeOK, Frames
<1> QED
  BY <1>1 DEF Budget

LEMMA NextBudget == Sound /\ Budget /\ [Next]_vars => Budget'
<1> SUFFICES ASSUME Sound, Budget, [Next]_vars PROVE Budget'
  OBVIOUS
<1>1. CASE UNCHANGED frame
  BY <1>1, UntimedBudget DEF Untimed
<1>2. CASE Device
  BY <1>1, <1>2 DEF Device, Arrive, Transmit, HangUp
<1>3. ASSUME NEW t \in Threads, Step(t) \/ Wait(t) PROVE Budget'
  BY <1>3, StepBudget, WaitBudget
<1> QED
  BY <1>1, <1>2, <1>3 DEF Next, vars

LEMMA AlwaysBudget == Spec => [](Sound /\ Budget)
  BY InitSound, NextSound, InitBudget, NextBudget, PTL DEF Spec

\* A timed read or poll never blocks for longer than it was told to: not by
\* waiting again in its loop, not by what it converts the timeout to, and not
\* because other calls take the bytes it waited for.
THEOREM TimeoutTheorem == Spec => []TimeoutRespected
<1> QED
  BY AlwaysBudget, BudgetRespected, PTL
-----------------------------------------------------------------------------
(* Writing. *)

\* What write has sent is the part of the buffer it has moved over, and it
\* does not return before that is all of it.
WrittenBy(t) ==
  frame[t].op = "write" =>
    /\ sent[t] = [i \in 1..Moved(t) |-> i - 1]
    /\ Ended(t) => frame[t].buf.size = 0

Written == \A t \in Threads : WrittenBy(t)

\* A step of thread t is its own affair.
OthersKept(t) ==
  \A u \in Threads \ {t} :
    frame'[u] = frame[u] /\ sent'[u] = sent[u] /\ res'[u] = res[u]

LEMMA KeptWritten ==
  ASSUME Written, NEW t \in Threads, OthersKept(t), WrittenBy(t)'
  PROVE  Written'
<1>1. ASSUME NEW u \in Threads, u # t PROVE WrittenBy(u)'
  BY <1>1 DEF Written, WrittenBy, OthersKept, Moved, Ended
<1> QED
  BY <1>1 DEF Written

LEMMA EnterKept ==
  ASSUME Sound, NEW t \in Threads, NEW op, NEW buf, NEW ms, NEW left,
         Enter(t, op, buf, ms, left),
         \/ \E label : Goto(t, label)
         \/ \E o : Leave(t, o)
  PROVE  /\ OthersKept(t)
         /\ frame'[t].op = op /\ frame'[t].buf = buf /\ frame'[t].size = buf.size
         /\ sent'[t] = <<>>
  BY DEF Sound, TypeOK, Enter, OthersKept, Goto, Leave

LEMMA ProgressKept ==
  ASSUME Sound, NEW t \in Threads, NEW n \in Nat, NEW label, NEW val,
         Progress(t, n, label, val), n <= frame[t].buf.size
  PROVE  /\ \A u \in Threads \ {t} : frame'[u] = frame[u] /\ res'[u] = res[u]
         /\ frame'[t].op = frame[t].op
         /\ Moved(t)' = Moved(t) + n
         /\ Ended(t)' => frame'[t].buf.size = 0
<1> DEFINE b == Advance(frame[t].buf, n)
<1>1. frame[t].buf \in Views
  BY DEF Sound, TypeOK, Frames
<1>2. b \in Views /\ b.size = frame[t].buf.size - n
  BY <1>1, AdvanceView
<1>3. /\ frame' = [frame EXCEPT ![t].buf = b]
      /\ IF b.size > 0 THEN Goto(t, label) ELSE Leave(t, Returned(val))
  BY DEF Progress
<1> HIDE DEF b
<1>4. /\ frame'[t].op = frame[t].op /\ frame'[t].size = frame[t].size /\ frame'[t].buf = b
      /\ \A u \in Threads \ {t} : frame'[u] = frame[u]
  BY <1>3 DEF Sound, TypeOK, Frames
<1>5. \A u \in Threads \ {t} : res'[u] = res[u]
  BY <1>3 DEF Goto, Leave, Sound, TypeOK
<1>6. Moved(t)' = Moved(t) + n
  BY <1>1, <1>2, <1>4, FrameTypes DEF Moved, Views
<1>7. Ended(t)' => b.size = 0
  <2>1. CASE b.size > 0
    BY <1>3, <2>1 DEF Goto, Ended, Pending, Sound, TypeOK
  <2>2. CASE b.size = 0
    BY <2>2
  <2> QED
    BY <1>2, <2>1, <2>2 DEF Views
<1> QED
  BY <1>4, <1>5, <1>6, <1>7

LEMMA WriteWritten ==
  ASSUME Sound, Written, NEW t \in Threads, Write(t)
  PROVE  Written'
<1>1. ASSUME NEW n \in 0..MaxSize, Enter(t, "write", ConstBuffer(0, n), NoTimeout, 0),
             IF n > 0 THEN Goto(t, "write") ELSE Leave(t, Returned(0))
      PROVE  Written'
  <2>1. /\ OthersKept(t) /\ sent'[t] = <<>>
        /\ frame'[t].buf = ConstBuffer(0, n) /\ frame'[t].size = n
    BY <1>1, EnterKept, FreshBuffer
  <2>2. n \in Nat /\ ConstBuffer(0, n).size = n
    BY FreshBuffer, ConstantTypes
  <2>3. Moved(t)' = 0
    BY <2>1, <2>2 DEF Moved
  <2>4. Ended(t)' => n = 0
    BY <1>1, <2>2 DEF Goto, Ended, Pending, Sound, TypeOK
  <2>5. sent'[t] = [i \in 1..Moved(t)' |-> i - 1]
    BY <2>1, <2>3
  <2>6. WrittenBy(t)'
    BY <2>1, <2>2, <2>4, <2>5 DEF WrittenBy
  <2> QED
    BY <2>1, <2>6, KeptWritten
<1>2. ASSUME At(t, "write", "write"),
             NEW ret \in WriteResults(frame[t].buf), SysWrite(t, ret),
             \/ ret < 0 /\ Leave(t, Threw) /\ UNCHANGED frame
             \/ ret >= 0 /\ Progress(t, ret, "write", 0)
      PROVE  Written'
  <2>1. ret \in Int /\ ret <= frame[t].buf.size
    BY <1>2, SysWriteTypes DEF Sound
  <2>2. frame[t].op = "write" /\ sent[t] = [i \in 1..Moved(t) |-> i - 1]
    BY <1>2 DEF At, Written, WrittenBy
  <2>3. frame[t].buf.data = Moved(t) /\ Moved(t) \in Nat
    BY FrameTypes DEF Moved
  <2> DEFINE n == IF ret > 0 THEN ret ELSE 0
  <2>4. sent' = [sent EXCEPT ![t] = sent[t] \o [i \in 1..n |-> frame[t].buf.data + i - 1]]
    BY <1>2 DEF SysWrite
  <2>5. (ret < 0 => n = 0) /\ (ret >= 0 => n = ret)
    BY <2>1
  <2> HIDE DEF n
  <2>6. CASE ret < 0
    <3>1. sent' = [sent EXCEPT ![t] = sent[t] \o [i \in 1..0 |-> frame[t].buf.data + i - 1]]
      BY <2>4, <2>6, <2>5
    <3>2. sent'[t] = sent[t] /\ \A u \in Threads \ {t} : sent'[u] = sent[u]
      <4>1. ASSUME NEW s \in Seq(Nat), NEW d PROVE s \o [i \in 1..0 |-> d + i - 1] = s
        OBVIOUS
      <4>2. sent[t] \in Seq(Nat)
        BY DEF Sound, TypeOK
      <4>3. sent' = [sent EXCEPT ![t] = sent[t]]
        BY <3>1, <4>1, <4>2
      <4> QED
        BY <4>3 DEF Sound, TypeOK
    <3>3. UNCHANGED frame /\ Leave(t, Threw)
      BY <1>2, <2>1, <2>6
    <3>4. OthersKept(t) /\ ~Ended(t)' /\ Moved(t)' = Moved(t)
      BY <3>2, <3>3 DEF OthersKept, Leave, Threw, Ended, Moved, Sound, TypeOK
    <3>5. WrittenBy(t)'
      BY <2>2, <3>2, <3>4 DEF WrittenBy
    <3> QED
      BY <3>4, <3>5, KeptWritten
  <2>7. CASE ret >= 0
    <3>1. sent' = [sent EXCEPT ![t] = sent[t] \o [i \in 1..ret |-> frame[t].buf.data + i - 1]]
      BY <2>4, <2>7, <2>5
    <3>2. ret \in Nat /\ Progress(t, ret, "write", 0)
      BY <1>2, <2>1, <2>7
    <3>3. /\ \A u \in Threads \ {t} : frame'[u] = frame[u] /\ res'[u] = res[u]
          /\ frame'[t].op = frame[t].op
          /\ Moved(t)' = Moved(t) + ret
          /\ Ended(t)' => frame'[t].buf.size = 0
      BY <2>1, <3>2, ProgressKept
    <3>4. OthersKept(t)
      BY <3>1, <3>3 DEF OthersKept, Sound, TypeOK
    <3>5. sent'[t] = [i \in 1..Moved(t) |-> i - 1] \o [i \in 1..ret |-> Moved(t) + i - 1]
      BY <2>2, <2>3, <3>1 DEF Sound, TypeOK
    <3>6. ASSUME NEW m \in Nat, NEW k \in Nat
          PROVE  [i \in 1..m |-> i - 1] \o [i \in 1..k |-> m + i - 1] = [i \in 1..m + k |-> i - 1]
      <4> DEFINE f == [i \in 1..m |-> i - 1]
                 g == [i \in 1..k |-> m + i - 1]
                 h == [i \in 1..m + k |-> i - 1]
      <4>1. f \in Seq(Int) /\ g \in Seq(Int) /\ h \in Seq(Int)
        BY <3>6
      <4>2. Len(f) = m /\ Len(g) = k /\ Len(h) = m + k
        BY <3>6
      <4>3. \A i \in 1..m + k : (f \o g)[i] = h[i]
        BY <3>6, <4>1, <4>2
      <4>4. f \o g \in Seq(Int) /\ Len(f \o g) = m + k
        BY <4>1, <4>2
      <4> QED
        BY <3>6, <4>1, <4>2, <4>3, <4>4
    <3>7. sent'[t] = [i \in 1..Moved(t)' |-> i - 1]
      BY <2>3, <3>2, <3>3, <3>5, <3>6
    <3>8. WrittenBy(t)'
      BY <3>3, <3>7 DEF WrittenBy
    <3> QED
      BY <3>4, <3>8, KeptWritten
  <2> QED
    BY <2>1, <2>6, <2>7
<1> QED
  BY <1>1, <1>2 DEF Write

\* The other calls have nothing to do with what write sent.
Elsewhere(t) == OthersKept(t) /\ frame'[t].op # "write"

LEMMA EnterElsewhere ==
  ASSUME Sound, NEW t \in Threads, NEW op, op # "write", NEW buf, NEW ms, NEW left,
         Enter(t, op, buf, ms, left),
         \/ \E label : Goto(t, label)
         \/ \E o : Leave(t, o)
  PROVE  Elsewhere(t)
  BY EnterKept DEF Elsewhere

LEMMA SelectElsewhere ==
  ASSUME Sound, NEW t \in Threads, frame[t].op # "write", NEW val, Select(t, val)
  PROVE  Elsewhere(t)
<1>1. frame' = [frame EXCEPT ![t].left = frame[t].left]
  BY DEF Select, NextTimeval
<1>2. frame' = frame
  BY <1>1 DEF Sound, TypeOK, Frames
<1>3. Goto(t, "read") \/ \E o : Leave(t, o)
  BY DEF Select
<1> QED
  BY <1>2, <1>3 DEF Select, Elsewhere, OthersKept, Goto, Leave, Sound, TypeOK

LEMMA ReadStepElsewhere ==
  ASSUME Sound, NEW t \in Threads, frame[t].op # "write",
         NEW ret \in ReadResults(frame[t].buf), SysRead(t, ret),
         \/ UNCHANGED frame /\ \E o : Leave(t, o)
         \/ ret >= 0 /\ \E label, val : Progress(t, ret, label, val)
  PROVE  Elsewhere(t)
<1>1. ret \in Int /\ ret <= frame[t].buf.size
  BY SysReadTypes DEF Sound
<1>2. UNCHANGED sent
  BY DEF SysRead
<1>3. CASE UNCHANGED frame /\ \E o : Leave(t, o)
  BY <1>2, <1>3 DEF Elsewhere, OthersKept, Leave, Sound, TypeOK
<1>4. CASE ret >= 0 /\ \E label, val : Progress(t, ret, label, val)
  BY <1>1, <1>2, <1>4, ProgressKept DEF Elsewhere, OthersKept
<1> QED
  BY <1>3, <1>4

LEMMA StepElsewhere ==
  ASSUME Sound, NEW t \in Threads, Step(t), ~Write(t)
  PROVE  Elsewhere(t)
<1>1. CASE Read(t)
  BY <1>1, EnterElsewhere, ReadStepElsewhere DEF Read, At
<1>2. CASE ReadAll(t)
  BY <1>2, EnterElsewhere, ReadStepElsewhere DEF ReadAll, At
<1>3. CASE ReadTimeout(t)
  BY <1>3, EnterElsewhere, SelectElsewhere, ReadStepElsewhere DEF ReadTimeout, At
<1>4. CASE ReadAllTimeout(t)
  BY <1>4, EnterElsewhere, SelectElsewhere, ReadStepElsewhere DEF ReadAllTimeout, At
<1>5. CASE Poll(t)
  <2>1. CASE \E ms \in Timeouts :
               Enter(t, "poll", MutableBuffer(0, 0), ms, ToInt(ms)) /\ Goto(t, "poll")
    BY <2>1, EnterElsewhere
  <2>2. CASE /\ At(t, "poll", "poll") /\ UNCHANGED <<kernel, frame, mem, sent, gone>>
             /\ \E o : Leave(t, o)
    BY <2>2 DEF Elsewhere, OthersKept, At, Leave, Sound, TypeOK
  <2> QED
    BY <1>5, <2>1, <2>2 DEF Poll
<1>6. CASE InputWaiting(t) \/ OutputWaiting(t)
  BY <1>6, EnterElsewhere DEF InputWaiting, OutputWaiting
<1> QED
  BY <1>1, <1>2, <1>3, <1>4, <1>5, <1>6 DEF Step

LEMMA NextWritten == Sound /\ Written /\ [Next]_vars => Written'
<1> SUFFICES ASSUME Sound, Written, [Next]_vars PROVE Written'
  OBVIOUS
<1>1. CASE UNCHANGED <<frame, sent, res>>
  BY <1>1 DEF Written, WrittenBy, Moved, Ended
<1>2. CASE Device
  BY <1>1, <1>2 DEF Device, Arrive, Transmit, HangUp
<1>3. ASSUME NEW t \in Threads, Wait(t) PROVE Written'
  <2>1. frame' = [frame EXCEPT ![t].left = frame[t].left - 1, ![t].waited = frame[t].waited + 1]
    BY <1>3 DEF Wait
  <2>2. \A u \in Threads : /\ frame'[u].op = frame[u].op /\ frame'[u].buf = frame[u].buf
                           /\ frame'[u].size = frame[u].size
    BY <2>1 DEF Sound, TypeOK, Frames
  <2>3. UNCHANGED <<sent, res>>
    BY <1>3 DEF Wait
  <2> QED
    BY <2>2, <2>3 DEF Written, WrittenBy, Moved, Ended
<1>4. ASSUME NEW t \in Threads, Step(t), ~Write(t) PROVE Written'
  <2>1. Elsewhere(t)
    BY <1>4, StepElsewhere
  <2>2. WrittenBy(t)'
    BY <2>1 DEF WrittenBy, Elsewhere
  <2> QED
    BY <2>1, <2>2, KeptWritten DEF Elsewhere
<1>5. ASSUME NEW t \in Threads, Write(t) PROVE Written'
  BY <1>5, WriteWritten
<1> QED
  BY <1>1, <1>2, <1>3, <1>4, <1>5 DEF Next, vars

LEMMA InitWritten == Init => Written
  BY DEF Init, Written, WrittenBy

LEMMA WrittenExact == Sound /\ Written => WriteExact
<1> SUFFICES ASSUME Sound, Written, NEW t \in Threads, frame[t].op = "write"
             PROVE  /\ sent[t] = [i \in 1..Moved(t) |-> i - 1]
                    /\ Ended(t) => Moved(t) = frame[t].size
  BY DEF WriteExact
<1>1. frame[t].size \in Nat /\ frame[t].buf.size \in Nat
  BY FrameTypes
<1> QED
  BY <1>1 DEF Written, WrittenBy, Moved

\* Across short writes, errors and any number of other threads' calls, write
\* sends the bytes of its caller's buffer once each and in order, and returns
\* only after the last.
THEOREM WriteTheorem == Spec => []WriteExact
<1> QED
  BY InitSound, NextSound, InitWritten, NextWritten, WrittenExact, PTL DEF Spec
=============================================================================
