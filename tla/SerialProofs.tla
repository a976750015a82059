---------------------------- MODULE SerialProofs ----------------------------
(***************************************************************************)
(* Theorems about Serial: what is proved of CharacterDevice's calls holds  *)
(* of the copies in Serial, beside flush() and on a port where ::read may  *)
(* return nothing, and flush() leaves no output of its caller behind.      *)
(***************************************************************************)
EXTENDS Serial, TLAPS

\* The theorems about CharacterDevice, for the port's ::read.
Shared == INSTANCE StreamProofs WITH EmptyRead <- "Zero"

-----------------------------------------------------------------------------
(* The operators that Serial and those theorems speak of are the same. *)

LEMMA Assumed == Shared!CharacterDeviceAssumption
BY SerialAssumption
   DEF Dev!CharacterDeviceAssumption, Shared!CharacterDeviceAssumption,
       Dev!AllOps, Shared!AllOps

LEMMA SameValues ==
  /\ Dev!Pending = Shared!Pending /\ Dev!Threw = Shared!Threw
  /\ Dev!NoTimeout = Shared!NoTimeout /\ Dev!Addr = Shared!Addr
  /\ Dev!Untouched = Shared!Untouched
  /\ \A v : Dev!Returned(v) = Shared!Returned(v)
  /\ \A b, n : Dev!Advance(b, n) = Shared!Advance(b, n)
  /\ \A n : /\ Dev!MutableBuffer(0, n) = Shared!MutableBuffer(0, n)
            /\ Dev!ConstBuffer(0, n) = Shared!ConstBuffer(0, n)
  /\ \A ms : Dev!FirstCall(ms) = Shared!FirstCall(ms)
  /\ \A ms : Dev!KernelMs(Dev!Timeval(ms)) = Shared!KernelMs(Shared!Timeval(ms))
  /\ \A ms : Dev!ToInt(ms) = Shared!ToInt(ms)
  /\ Dev!Readable <=> Shared!Readable
  /\ \A b, n : Dev!Transfers(b, n) = Shared!Transfers(b, n)
  /\ \A b : Dev!ReadResults(b) = Shared!ReadResults(b)
  /\ \A b : Dev!WriteResults(b) = Shared!WriteResults(b)
  /\ \A t : Dev!Held(t) = Shared!Held(t)
BY DEF Dev!Pending, Shared!Pending, Dev!Threw, Shared!Threw, Dev!NoTimeout, Shared!NoTimeout,
       Dev!Addr, Shared!Addr, Dev!Untouched, Shared!Untouched, Dev!Returned, Shared!Returned,
       Dev!Advance, Shared!Advance, Dev!Offset, Shared!Offset,
       Dev!MutableBuffer, Shared!MutableBuffer, Dev!ConstBuffer, Shared!ConstBuffer,
       Dev!FirstCall, Shared!FirstCall, Dev!KernelMs, Shared!KernelMs,
       Dev!Timeval, Shared!Timeval, Dev!ToInt, Shared!ToInt, Dev!Readable, Shared!Readable,
       Dev!ReadResults, Shared!ReadResults, Dev!WriteResults, Shared!WriteResults,
       Dev!Transfers, Shared!Transfers, Dev!Held, Shared!Held

LEMMA SameParts ==
  /\ \A t, op, buf, ms, left :
       Dev!Enter(t, op, buf, ms, left) <=> Shared!Enter(t, op, buf, ms, left)
  /\ \A t, label : Dev!Goto(t, label) <=> Shared!Goto(t, label)
  /\ \A t, o : Dev!Leave(t, o) <=> Shared!Leave(t, o)
  /\ \A t, n, label, val : Dev!Progress(t, n, label, val) <=> Shared!Progress(t, n, label, val)
  /\ \A t, val : Dev!Select(t, val) <=> Shared!Select(t, val)
  /\ \A t, ret : Dev!SysRead(t, ret) <=> Shared!SysRead(t, ret)
  /\ \A t, ret : Dev!SysWrite(t, ret) <=> Shared!SysWrite(t, ret)
  /\ \A t, op, label : Dev!At(t, op, label) <=> Shared!At(t, op, label)
<1>1. \A t, op, buf, ms, left :
        Dev!Enter(t, op, buf, ms, left) <=> Shared!Enter(t, op, buf, ms, left)
  BY SameValues DEF Dev!Enter, Shared!Enter, Dev!kernel, Shared!kernel
<1>2. \A t, label : Dev!Goto(t, label) <=> Shared!Goto(t, label)
  BY SameValues DEF Dev!Goto, Shared!Goto
<1>3. \A t, o : Dev!Leave(t, o) <=> Shared!Leave(t, o)
  BY DEF Dev!Leave, Shared!Leave
<1>4. \A t, n, label, val : Dev!Progress(t, n, label, val) <=> Shared!Progress(t, n, label, val)
  BY <1>2, <1>3, SameValues DEF Dev!Progress, Shared!Progress
<1>5. \A t, val : Dev!Select(t, val) <=> Shared!Select(t, val)
  BY <1>2, <1>3, SameValues
     DEF Dev!Select, Shared!Select, Dev!NextTimeval, Shared!NextTimeval,
         Dev!Expired, Shared!Expired, Dev!kernel, Shared!kernel
<1>6. \A t, ret : Dev!SysRead(t, ret) <=> Shared!SysRead(t, ret)
  BY SameValues DEF Dev!SysRead, Shared!SysRead
<1>7. \A t, ret : Dev!SysWrite(t, ret) <=> Shared!SysWrite(t, ret)
  BY DEF Dev!SysWrite, Shared!SysWrite
<1>8. \A t, op, label : Dev!At(t, op, label) <=> Shared!At(t, op, label)
  BY DEF Dev!At, Shared!At
<1> QED BY <1>1, <1>2, <1>3, <1>4, <1>5, <1>6, <1>7, <1>8

LEMMA SameSteps ==
  ASSUME NEW t \in Threads
  PROVE  /\ Step(t) <=> Shared!Step(t) \/ Flush(t)
         /\ Dev!Wait(t) <=> Shared!Wait(t)
<1>1. Dev!Read(t) <=> Shared!Read(t)
  BY SameValues, SameParts DEF Dev!Read, Shared!Read
<1>2. Dev!ReadAll(t) <=> Shared!ReadAll(t)
  BY SameValues, SameParts DEF Dev!ReadAll, Shared!ReadAll
<1>3. Dev!ReadTimeout(t) <=> Shared!ReadTimeout(t)
  BY SameValues, SameParts DEF Dev!ReadTimeout, Shared!ReadTimeout
<1>4. Dev!ReadAllTimeout(t) <=> Shared!ReadAllTimeout(t)
  BY SameValues, SameParts DEF Dev!ReadAllTimeout, Shared!ReadAllTimeout
<1>5. Dev!Write(t) <=> Shared!Write(t)
  BY SameValues, SameParts DEF Dev!Write, Shared!Write
<1>6. Dev!Poll(t) <=> Shared!Poll(t)
  BY SameValues, SameParts
     DEF Dev!Poll, Shared!Poll, Dev!Expired, Shared!Expired, Dev!kernel, Shared!kernel
<1>7. Dev!InputWaiting(t) <=> Shared!InputWaiting(t)
  BY SameValues, SameParts DEF Dev!InputWaiting, Shared!InputWaiting
<1>8. Dev!OutputWaiting(t) <=> Shared!OutputWaiting(t)
  BY SameValues, SameParts DEF Dev!OutputWaiting, Shared!OutputWaiting
<1>9. Dev!Wait(t) <=> Shared!Wait(t)
  BY SameValues DEF Dev!Wait, Shared!Wait, Dev!kernel, Shared!kernel
<1> QED
  BY <1>1, <1>2, <1>3, <1>4, <1>5, <1>6, <1>7, <1>8, <1>9
     DEF Step, Shared!Step, Read, ReadAll, ReadTimeout, ReadAllTimeout, Write, Poll,
         InputWaiting, OutputWaiting

LEMMA SameInit == Init <=> Shared!Init
BY SameValues DEF Init, Dev!Init, Shared!Init

\* A step of the port is a step of a plain descriptor, or of flush().
LEMMA PortNext ==
  ASSUME [Next]_vars
  PROVE  [Shared!Next]_(Shared!vars) \/ \E t \in Threads : Flush(t)
<1>1. Dev!Device <=> Shared!Device
  BY DEF Dev!Device, Shared!Device, Dev!Arrive, Shared!Arrive, Dev!Transmit, Shared!Transmit,
         Dev!HangUp, Shared!HangUp
<1>2. CASE Next BY <1>1, <1>2, SameSteps DEF Next, Shared!Next
<1>3. CASE UNCHANGED vars BY <1>3 DEF vars, Dev!vars, Shared!vars
<1> QED BY <1>2, <1>3
-----------------------------------------------------------------------------
(* flush(). *)

\* The two steps of flush(), in the terms of the theorems.
LEMMA FlushSteps ==
  ASSUME NEW t \in Threads, Flush(t)
  PROVE  \/ /\ Shared!Enter(t, "flush", Shared!MutableBuffer(0, 0), Shared!NoTimeout, 0)
            /\ Shared!Goto(t, "drain")
         \/ /\ Shared!At(t, "flush", "drain")
            /\ \E o \in {Shared!Threw, Shared!Returned(0)} : Shared!Leave(t, o)
            /\ UNCHANGED <<inq, arrived, hup, outq, frame, mem, sent, gone>>
BY SameValues, SameParts DEF Flush, Drained, Dev!MutableBuffer, Shared!MutableBuffer, MutableBuffer

LEMMA FlushBegins ==
  /\ "flush" \in Shared!AllOps /\ "drain" \in Shared!Labels
  /\ Shared!MutableBuffer(0, 0) \in Shared!Views
  /\ Shared!MutableBuffer(0, 0).data = 0 /\ Shared!MutableBuffer(0, 0).size = 0
  /\ Shared!MutableBuffer(0, 0).size \in 0..MaxSize
  /\ Shared!NoTimeout \in Int /\ Shared!NoTimeout < 0
<1>1. MaxSize \in Nat BY Assumed DEF Shared!CharacterDeviceAssumption
<1> QED
  BY <1>1 DEF Shared!AllOps, Shared!Labels, Shared!MutableBuffer, Shared!Views, Shared!NoTimeout

LEMMA FlushSound ==
  ASSUME Shared!Sound, NEW t \in Threads, Flush(t)
  PROVE  Shared!Sound'
<1>1. CASE /\ Shared!Enter(t, "flush", Shared!MutableBuffer(0, 0), Shared!NoTimeout, 0)
           /\ Shared!Goto(t, "drain")
  BY <1>1, FlushBegins, Assumed, Shared!BeginSound
<1>2. CASE /\ \E o \in {Shared!Threw, Shared!Returned(0)} : Shared!Leave(t, o)
           /\ UNCHANGED <<inq, arrived, hup, outq, frame, mem, sent, gone>>
  <2>1. PICK o \in Shared!Results : Shared!Leave(t, o)
    BY <1>2, Assumed, Shared!ConstantTypes
  <2>2. pc' \in [Threads -> Shared!Labels] /\ res' \in [Threads -> Shared!Results]
    BY <2>1, Assumed, Shared!LeaveTypes DEF Shared!Sound, Shared!Results
  <2> QED
    BY <1>2, <2>2 DEF Shared!Sound, Shared!TypeOK, Shared!BufferInside, Shared!Results
<1> QED BY <1>1, <1>2, FlushSteps

LEMMA FlushBudget ==
  ASSUME Shared!Sound, Shared!Budget, NEW t \in Threads, Flush(t)
  PROVE  Shared!Budget'
<1>1. CASE Shared!Enter(t, "flush", Shared!MutableBuffer(0, 0), Shared!NoTimeout, 0)
  BY <1>1, FlushBegins, Assumed, Shared!EnterBudget
<1>2. CASE UNCHANGED frame
  BY <1>2, Assumed, Shared!UntimedBudget DEF Shared!Untimed
<1> QED BY <1>1, <1>2, FlushSteps

LEMMA FlushWritten ==
  ASSUME Shared!Sound, Shared!Written, NEW t \in Threads, Flush(t)
  PROVE  Shared!Written'
<1>1. Shared!Elsewhere(t)
  <2>1. CASE /\ Shared!Enter(t, "flush", Shared!MutableBuffer(0, 0), Shared!NoTimeout, 0)
             /\ Shared!Goto(t, "drain")
    BY <2>1, Assumed, Shared!EnterElsewhere
  <2>2. CASE /\ Shared!At(t, "flush", "drain")
             /\ \E o \in {Shared!Threw, Shared!Returned(0)} : Shared!Leave(t, o)
             /\ UNCHANGED <<inq, arrived, hup, outq, frame, mem, sent, gone>>
    BY <2>2 DEF Shared!At, Shared!Leave, Shared!Elsewhere, Shared!OthersKept, Shared!Sound,
                Shared!TypeOK
  <2> QED BY <2>1, <2>2, FlushSteps
<1>2. Shared!WrittenBy(t)' BY <1>1 DEF Shared!WrittenBy, Shared!Elsewhere
<1> QED BY <1>1, <1>2, Assumed, Shared!KeptWritten DEF Shared!Elsewhere

\* To the bytes that were read, flush() is a call that takes none.
LEMMA FlushKinds ==
  ASSUME Shared!Sound, Shared!Calls, NEW t \in Threads, Flush(t)
  PROVE  /\ Shared!Starts(t) \/ Shared!Still(t)
         /\ Shared!Apart(t) /\ Shared!Calls'
<1>1. CASE /\ Shared!Enter(t, "flush", Shared!MutableBuffer(0, 0), Shared!NoTimeout, 0)
           /\ Shared!Goto(t, "drain")
  BY <1>1, FlushBegins, Assumed, Shared!EnterStarts
<1>2. CASE /\ Shared!At(t, "flush", "drain")
           /\ \E o \in {Shared!Threw, Shared!Returned(0)} : Shared!Leave(t, o)
           /\ UNCHANGED <<inq, arrived, hup, outq, frame, mem, sent, gone>>
  BY <1>2, Assumed, Shared!PollStill DEF Shared!At
<1> QED BY <1>1, <1>2, FlushSteps

LEMMA FlushAccounted ==
  ASSUME Shared!Sound, Shared!Accounted, NEW t \in Threads, Flush(t)
  PROVE  Shared!Accounted'
BY FlushKinds, Assumed, Shared!KindsAccounted DEF Shared!Accounted
-----------------------------------------------------------------------------
(* What is left in the output queue. *)

Queued(t) == \E i \in 1..Len(outq) : outq[i] = t

Drains(t) == frame[t].op = "flush" /\ res[t].kind = "returned" => ~Queued(t)

\* A thread's steps queue bytes of its own and no others.
LEMMA OthersQueue ==
  ASSUME Shared!Sound, NEW t \in Threads, NEW u \in Threads, t # u, ~Queued(u),
         Shared!Step(t) \/ Shared!Wait(t) \/ Flush(t)
  PROVE  ~Queued(u)'
<1>1. CASE UNCHANGED outq BY <1>1 DEF Queued
<1>2. CASE Shared!Write(t)
  <2>1. ASSUME NEW ret \in Shared!WriteResults(frame[t].buf), Shared!SysWrite(t, ret)
        PROVE  ~Queued(u)'
    <3> DEFINE n == IF ret > 0 THEN ret ELSE 0
    <3>1. ret \in Int /\ outq \in Seq(Threads)
      BY <2>1, Assumed, Shared!SysWriteTypes DEF Shared!Sound, Shared!TypeOK
    <3>2. n \in Nat /\ outq' = outq \o [i \in 1..n |-> t] BY <2>1, <3>1 DEF Shared!SysWrite
    <3> HIDE DEF n
    <3>3. /\ Len(outq') = Len(outq) + n /\ Len(outq) \in Nat
          /\ \A i \in 1..Len(outq') : outq'[i] = IF i <= Len(outq) THEN outq[i] ELSE t
      BY <3>1, <3>2
    <3> QED BY <3>3 DEF Queued
  <2>2. ASSUME NEW n, Shared!Enter(t, "write", Shared!ConstBuffer(0, n), Shared!NoTimeout, 0)
        PROVE  ~Queued(u)'
    BY <1>1, <2>2 DEF Shared!Enter, Shared!kernel
  <2> QED BY <1>2, <2>1, <2>2 DEF Shared!Write
<1>3. CASE Shared!Step(t) /\ ~Shared!Write(t)
  BY <1>1, <1>3
     DEF Shared!Step, Shared!Read, Shared!ReadAll, Shared!ReadTimeout, Shared!ReadAllTimeout,
         Shared!Poll, Shared!InputWaiting, Shared!OutputWaiting, Shared!Enter, Shared!kernel,
         Shared!SysRead, Shared!Select
<1>4. CASE Shared!Wait(t) BY <1>1, <1>4 DEF Shared!Wait, Shared!kernel
<1>5. CASE Flush(t) BY <1>1, <1>5, FlushSteps DEF Shared!Enter, Shared!kernel
<1> QED BY <1>2, <1>3, <1>4, <1>5

LEMMA DeviceQueue ==
  ASSUME Shared!Sound, NEW u \in Threads, ~Queued(u), Shared!Device
  PROVE  ~Queued(u)'
<1>1. CASE Shared!Transmit
  <2>1. outq \in Seq(Threads) /\ outq # <<>> /\ outq' = Tail(outq)
    BY <1>1 DEF Shared!Transmit, Shared!Sound, Shared!TypeOK
  <2>2. /\ Len(outq') = Len(outq) - 1 /\ Len(outq) \in Nat
        /\ \A i \in 1..Len(outq') : outq'[i] = outq[i + 1]
    BY <2>1
  <2>3. \A i \in 1..Len(outq') : i + 1 \in 1..Len(outq) BY <2>2
  <2> QED BY <2>2, <2>3 DEF Queued
<1>2. CASE Shared!HangUp BY <1>2 DEF Shared!HangUp, Queued
<1>3. CASE Shared!Arrive BY <1>3 DEF Shared!Arrive, Queued
<1> QED BY <1>1, <1>2, <1>3 DEF Shared!Device

\* No other member function leaves its thread with the outcome of a flush().
LEMMA NotFlush ==
  ASSUME Shared!Sound, Shared!Calls, NEW t \in Threads, Shared!Step(t) \/ Shared!Wait(t)
  PROVE  frame'[t].op # "flush" \/ res'[t].kind = "pending"
<1>1. /\ \A op, buf, ms, left :
           Shared!Enter(t, op, buf, ms, left) => frame'[t].op = op
      /\ \A val : Shared!Select(t, val) => UNCHANGED frame
  BY Assumed, Shared!Pieces
<1>2. \A n, label, val : Shared!Progress(t, n, label, val) => frame'[t].op = frame[t].op
  BY Assumed, Shared!LoopPiece
<1>3. CASE Shared!Read(t) BY <1>1, <1>3 DEF Shared!Read, Shared!At
<1>4. CASE Shared!ReadAll(t) BY <1>1, <1>2, <1>4 DEF Shared!ReadAll, Shared!At
<1>5. CASE Shared!ReadTimeout(t) BY <1>1, <1>5 DEF Shared!ReadTimeout, Shared!At
<1>6. CASE Shared!ReadAllTimeout(t) BY <1>1, <1>2, <1>6 DEF Shared!ReadAllTimeout, Shared!At
<1>7. CASE Shared!Write(t) BY <1>1, <1>2, <1>7 DEF Shared!Write, Shared!At
<1>8. CASE Shared!Poll(t) BY <1>1, <1>8 DEF Shared!Poll, Shared!At
<1>9. CASE Shared!InputWaiting(t) \/ Shared!OutputWaiting(t)
  BY <1>1, <1>9 DEF Shared!InputWaiting, Shared!OutputWaiting
<1>10. CASE Shared!Wait(t)
  BY <1>10 DEF Shared!Wait, Shared!Calls, Shared!Behaved, Shared!Pending
<1> QED BY <1>3, <1>4, <1>5, <1>6, <1>7, <1>8, <1>9, <1>10 DEF Shared!Step

LEMMA NextDrains ==
  ASSUME Shared!Sound, Shared!Calls, [Next]_vars, NEW u \in Threads, Drains(u)
  PROVE  Drains(u)'
<1>1. CASE Shared!Device
  <2>1. UNCHANGED <<frame, res>>
    BY <1>1 DEF Shared!Device, Shared!Arrive, Shared!Transmit, Shared!HangUp
  <2> QED BY <1>1, <2>1, DeviceQueue DEF Drains
<1>2. CASE UNCHANGED Shared!vars BY <1>2 DEF Shared!vars, Drains, Queued
<1>3. ASSUME NEW t \in Threads, t # u, Shared!Step(t) \/ Shared!Wait(t) \/ Flush(t)
      PROVE  Drains(u)'
  <2>1. Shared!Apart(t) BY <1>3, Assumed, Shared!StepKinds, FlushKinds
  <2>2. frame'[u] = frame[u] /\ res'[u] = res[u] BY <1>3, <2>1 DEF Shared!Apart
  <2> QED BY <1>3, <2>2, OthersQueue DEF Drains
<1>4. CASE Shared!Step(u) \/ Shared!Wait(u) BY <1>4, NotFlush DEF Drains
<1>5. CASE Flush(u)
  <2>1. CASE Dev!Goto(u, "drain")
    BY <2>1 DEF Dev!Goto, Dev!Pending, Drains, Shared!Sound, Shared!TypeOK
  <2>2. CASE Drained(u)
    <3>1. CASE outq = <<>> BY <2>2, <3>1 DEF Drained, Drains, Queued
    <3>2. CASE Dev!Leave(u, Dev!Threw)
      BY <3>2 DEF Dev!Leave, Dev!Threw, Drains, Shared!Sound, Shared!TypeOK
    <3> QED BY <2>2, <3>1, <3>2 DEF Drained
  <2> QED BY <1>5, <2>1, <2>2 DEF Flush
<1> QED BY <1>1, <1>2, <1>3, <1>4, <1>5, PortNext DEF Shared!Next
-----------------------------------------------------------------------------
(* The inductive invariant of the port. *)

PortInv ==
  /\ Shared!Sound /\ Shared!Budget /\ Shared!Written /\ Shared!Accounted
  /\ \A t \in Threads : Drains(t)

LEMMA InitPort == Init => PortInv
<1>1. Init => \A t \in Threads : frame[t].op = "none" BY SameInit DEF Shared!Init
<1> QED
  BY <1>1, SameInit, Assumed, Shared!InitSound, Shared!InitBudget, Shared!InitWritten,
     Shared!InitAccounted
     DEF PortInv, Drains

LEMMA NextPort == PortInv /\ [Next]_vars => PortInv'
<1> SUFFICES ASSUME PortInv, [Next]_vars PROVE PortInv'
  OBVIOUS
<1> USE DEF PortInv
<1>1. \A t \in Threads : Drains(t)' BY NextDrains DEF Shared!Accounted
<1>2. CASE [Shared!Next]_(Shared!vars)
  <2>1. Shared!Sound' BY <1>2, Assumed, Shared!NextSound
  <2>2. Shared!Budget' BY <1>2, Assumed, Shared!NextBudget
  <2>3. Shared!Written' BY <1>2, Assumed, Shared!NextWritten
  <2>4. Shared!Accounted' BY <1>2, Assumed, Shared!NextAccounted
  <2> QED BY <1>1, <2>1, <2>2, <2>3, <2>4
<1>3. ASSUME NEW t \in Threads, Flush(t) PROVE PortInv'
  BY <1>1, <1>3, FlushSound, FlushBudget, FlushWritten, FlushAccounted
<1> QED BY <1>2, <1>3, PortNext

LEMMA AlwaysPort == Spec => []PortInv
BY InitPort, NextPort, PTL DEF Spec
-----------------------------------------------------------------------------
(* The theorems. *)

\* Every variable of a serial port keeps its type.
THEOREM PortTypes == Spec => []TypeOK
<1>1. PortInv => TypeOK
  BY DEF PortInv, Shared!Sound, Shared!TypeOK, TypeOK, Dev!TypeOK, Shared!Labels, Dev!Labels,
         Shared!Frames, Dev!Frames, Shared!AllOps, Dev!AllOps, Shared!Views, Dev!Views,
         Shared!Addr, Dev!Addr
<1> QED BY AlwaysPort, <1>1, PTL

\* On a serial port too, where ::read may return nothing at any time, no byte
\* that arrived is lost, doubled or given to two calls.
THEOREM PortBytes == Spec => []BytesConserved
<1>1. PortInv => Shared!BytesConserved BY Assumed, Shared!AccountedConserved DEF PortInv
<1>2. Shared!BytesConserved => BytesConserved
  BY SameValues DEF Shared!BytesConserved, BytesConserved, Dev!BytesConserved
<1> QED BY AlwaysPort, <1>1, <1>2, PTL

\* The bytes of one call on the port lie at the front of its buffer in the order
\* they arrived, also when empty reads and other threads' reads came between.
THEOREM PortOrder == Spec => []PrefixInOrder
<1>1. PortInv => Shared!PrefixInOrder BY Assumed, Shared!AccountedInOrder DEF PortInv
<1>2. Shared!PrefixInOrder => PrefixInOrder
  BY SameValues DEF Shared!PrefixInOrder, PrefixInOrder, Dev!PrefixInOrder
<1> QED BY AlwaysPort, <1>1, <1>2, PTL

\* The counts that the port's reads return are the bytes they stored, although
\* ::read may find the port empty: from read_all_timeout what an int keeps of
\* their number, which is the number itself only up to INT_MAX.
THEOREM PortCounts == Spec => []ReadAccounted
<1>1. PortInv => Shared!ReadAccounted BY Assumed, Shared!AccountedCounts DEF PortInv
<1>2. /\ \A t : Dev!Held(t) = Shared!Held(t) /\ Dev!Moved(t) = Shared!Moved(t)
      /\ \A t : Dev!Ended(t) <=> Shared!Ended(t)
      /\ Dev!Threw = Shared!Threw /\ \A n : Dev!ToInt(n) = Shared!ToInt(n)
  BY SameValues DEF Shared!Ended, Dev!Ended, Shared!Moved, Dev!Moved
<1>3. \A S : Dev!Cardinality(S) = Shared!Cardinality(S)
  BY DEF Dev!Cardinality, Shared!Cardinality
<1>4. Shared!ReadAccounted => ReadAccounted
  BY <1>2, <1>3 DEF ReadAccounted, Dev!ReadAccounted, Shared!ReadAccounted
<1> QED BY AlwaysPort, <1>1, <1>4, PTL

\* A timed read or poll of a port blocks no longer than it was told to, however
\* often its loop finds the port empty and waits again.
THEOREM PortTimeouts == Spec => []TimeoutRespected
<1>1. PortInv => Shared!TimeoutRespected BY Assumed, Shared!BudgetRespected DEF PortInv
<1>2. Shared!TimeoutRespected => TimeoutRespected
  BY DEF Shared!TimeoutRespected, TimeoutRespected, Dev!TimeoutRespected, Shared!Bounded,
         Dev!Bounded
<1> QED BY AlwaysPort, <1>1, <1>2, PTL

\* The port's write sends its caller's bytes once each and in order while other
\* threads write to and flush the same queue.
THEOREM PortWrites == Spec => []WriteExact
<1>1. PortInv => Shared!WriteExact BY Assumed, Shared!WrittenExact DEF PortInv
<1>2. Shared!WriteExact => WriteExact
  BY DEF Shared!WriteExact, WriteExact, Dev!WriteExact, Shared!Ended, Dev!Ended,
         Shared!Moved, Dev!Moved
<1> QED BY AlwaysPort, <1>1, <1>2, PTL

\* When flush() has returned, nothing that its thread wrote is still queued,
\* whatever other threads write before, during and after it.
THEOREM PortFlushes == Spec => []FlushDrains
<1>1. PortInv => FlushDrains BY DEF PortInv, Drains, Queued, FlushDrains
<1> QED BY AlwaysPort, <1>1, PTL

\* The port's reads, with flush() between them, implement ByteStream: callers
\* take pieces of one stream and nothing else.
THEOREM PortStream == Spec => ImplementsStream
<1>1. Dev!Received = Shared!Received /\ Dev!Received' = Shared!Received'
  BY DEF Dev!Received, Shared!Received, Dev!Count, Shared!Count, Dev!Moved, Shared!Moved
<1>2. Init => Dev!Stream!Init
  BY <1>1, SameInit, Assumed, Shared!InitStream DEF Dev!Stream!Init, Shared!Stream!Init
<1>3. PortInv /\ PortInv' /\ [Next]_vars => [Shared!Stream!Next]_(Shared!Stream!vars)
  <2> SUFFICES ASSUME PortInv, PortInv', [Next]_vars
               PROVE  [Shared!Stream!Next]_(Shared!Stream!vars)
    OBVIOUS
  <2> USE DEF PortInv
  <2>1. CASE [Shared!Next]_(Shared!vars) BY <2>1, Assumed, Shared!StreamStep
  <2>2. ASSUME NEW t \in Threads, Flush(t)
        PROVE  [Shared!Stream!Next]_(Shared!Stream!vars)
    BY <2>2, FlushKinds, Assumed, Shared!KindsStream DEF Shared!Accounted
  <2> QED BY <2>1, <2>2, PortNext
<1>4. [Shared!Stream!Next]_(Shared!Stream!vars) => [Dev!Stream!Next]_(Dev!Stream!vars)
  BY <1>1
     DEF Dev!Stream!Next, Shared!Stream!Next, Dev!Stream!vars, Shared!Stream!vars,
         Dev!Stream!Produce, Shared!Stream!Produce, Dev!Stream!Close, Shared!Stream!Close,
         Dev!Stream!Take, Shared!Stream!Take, Dev!Stream!Begin, Shared!Stream!Begin
<1> QED
  BY AlwaysPort, <1>2, <1>3, <1>4, PTL DEF Spec, ImplementsStream, Dev!ImplementsStream, Dev!Stream!Spec
=============================================================================
