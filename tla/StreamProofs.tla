---------------------------- MODULE StreamProofs ----------------------------
(***************************************************************************)
(* Theorems about the bytes that CharacterDevice reads: none is lost,      *)
(* doubled or misplaced, the counts that callers get are true, and the     *)
(* calls divide one stream as ByteStream says, for any number of threads,  *)
(* any buffers, timeouts, short reads, failures and a hang-up.             *)
(***************************************************************************)
EXTENDS CharacterDeviceProofs, FiniteSetTheorems, SequenceTheorems

LoopReads == {"read_all", "read_all_timeout"}
OnceReads == {"read", "read_timeout"}

\* What the results of calls say of their loops.
Behaved(t) ==
  /\ pc[t] # "idle" => res[t] = Pending
  /\ res[t].kind # "returned" => res[t].val = 0
  /\ frame[t].op \in OnceReads => frame[t].buf.data = 0
  /\ Ended(t) => /\ frame[t].op = "read_all" => frame[t].buf.size = 0
                 /\ frame[t].op = "read_all_timeout" => res[t].val = ToInt(Moved(t))

Calls == \A t \in Threads : Behaved(t)

\* The steps, by what they do with bytes that were read.

\* Every other thread's call, and the count it gives, is as it was.
Apart(t) ==
  \A u \in Threads \ {t} :
    pc'[u] = pc[u] /\ frame'[u] = frame[u] /\ res'[u] = res[u]

\* A call begins, with a buffer that has nothing in it yet.
Starts(t) ==
  /\ mem' = [mem EXCEPT ![t] = Untouched]
  /\ gone' = gone \cup Held(t)
  /\ Count(t)' = 0
  /\ UNCHANGED <<inq, arrived, hup>>

\* The n oldest bytes go to the end of what the call has.
Takes(t, n) ==
  /\ n \in Nat /\ n <= Len(inq) /\ Count(t) + n <= MaxSize
  /\ inq' = SubSeq(inq, n + 1, Len(inq))
  /\ mem' = [mem EXCEPT ![t] = [a \in Addr |->
               IF a \in Count(t) .. Count(t) + n - 1 THEN inq[a - Count(t) + 1] ELSE mem[t][a]]]
  /\ Count(t)' = Count(t) + n
  /\ UNCHANGED <<arrived, hup, gone>>

Still(t) == UNCHANGED <<inq, arrived, hup, mem, gone>> /\ Count(t)' = Count(t)

\* What an outcome must be for a call to op with the buffer b left.
Honest(op, b, moved, o) ==
  /\ o \in Results
  /\ o.kind # "returned" => o.val = 0
  /\ o.kind = "returned" => /\ op = "read_all" => b.size = 0
                            /\ op = "read_all_timeout" => o.val = ToInt(moved)

LEMMA ApartCounts ==
  ASSUME NEW t \in Threads, Apart(t), NEW u \in Threads \ {t}
  PROVE  Count(u)' = Count(u) /\ (Behaved(u) => Behaved(u)')
BY DEF Apart, Count, Moved, Behaved, Ended

LEMMA EnterStarts ==
  ASSUME Sound, Calls, NEW t \in Threads, NEW op \in AllOps, NEW buf \in Views,
         NEW ms \in Int, NEW left \in Int, buf.size \in 0..MaxSize, buf.data = 0,
         Enter(t, op, buf, ms, left),
         \/ \E label \in Labels : Goto(t, label)
         \/ \E o \in Results : /\ Leave(t, o) /\ Honest(op, buf, 0, o)
                               /\ op \notin OnceReads
  PROVE  Starts(t) /\ Apart(t) /\ Calls'
<1>1. Apart(t) BY DEF Sound, TypeOK, Enter, Goto, Leave, Apart
<1>2. /\ frame'[t].op = op /\ frame'[t].buf = buf /\ frame'[t].size = buf.size
      /\ mem' = [mem EXCEPT ![t] = Untouched] /\ gone' = gone \cup Held(t)
      /\ UNCHANGED <<inq, arrived, hup>>
  BY DEF Sound, TypeOK, Enter, kernel
<1>3. buf.size \in Nat BY DEF Views
<1>4. CASE \E label \in Labels : Goto(t, label)
  <2>1. res'[t] = Pending BY <1>4 DEF Goto, Sound, TypeOK
  <2>2. Count(t)' = 0 BY <1>2, <1>3, <2>1 DEF Count, Moved, Pending
  <2>3. Behaved(t)' BY <1>2, <2>1 DEF Behaved, Pending, Ended
  <2> QED BY <1>1, <1>2, <2>2, <2>3, ApartCounts DEF Starts, Calls
<1>5. CASE \E o \in Results : /\ Leave(t, o) /\ Honest(op, buf, 0, o) /\ op \notin OnceReads
  <2>1. PICK o \in Results : /\ Leave(t, o) /\ Honest(op, buf, 0, o) /\ op \notin OnceReads
    BY <1>5
  <2>2. res'[t] = o /\ pc'[t] = "idle" BY <2>1 DEF Leave, Sound, TypeOK
  <2>3. Count(t)' = 0 BY <1>2, <1>3, <2>1 DEF Count, Moved, OnceReads
  <2>4. Moved(t)' = 0 BY <1>2, <1>3 DEF Moved
  <2>5. Behaved(t)' BY <1>2, <2>1, <2>2, <2>4 DEF Behaved, Ended, Honest
  <2> QED BY <1>1, <1>2, <2>3, <2>5, ApartCounts DEF Starts, Calls
<1> QED BY <1>4, <1>5

\* The step of a call that makes a ::read.
LEMMA ReadTakes ==
  ASSUME Sound, Calls, NEW t \in Threads, pc[t] = "read",
         frame[t].op \in LoopReads \cup OnceReads,
         NEW ret \in ReadResults(frame[t].buf), SysRead(t, ret),
         \/ ret < 0 /\ Leave(t, Threw) /\ UNCHANGED frame
         \/ /\ ret >= 0 /\ frame[t].op \in OnceReads
            /\ Leave(t, Returned(ret)) /\ UNCHANGED frame
         \/ /\ ret >= 0 /\ frame[t].op \in LoopReads
            /\ \E label \in Labels, val \in Int :
                 /\ Progress(t, ret, label, val)
                 /\ frame[t].op = "read_all_timeout" => val = ToInt(frame[t].size)
  PROVE  (\E n \in Nat : Takes(t, n)) /\ Apart(t) /\ Calls'
<1> DEFINE n == IF ret > 0 THEN ret ELSE 0
           data == frame[t].buf.data
<1>1. /\ ret \in Int /\ ret <= frame[t].buf.size /\ ret <= Len(inq)
      /\ frame[t].buf \in Views /\ Len(inq) \in Nat /\ frame[t].size <= MaxSize
  BY ConstantTypes DEF Sound, TypeOK, Frames, ReadResults, Transfers, Views
<1>2. /\ data \in Nat /\ frame[t].buf.size \in Nat /\ frame[t].size \in Nat
      /\ data + frame[t].buf.size = frame[t].size
  BY FrameTypes DEF Sound, BufferInside
<1>3. res[t] = Pending /\ (frame[t].op \in OnceReads => data = 0) BY DEF Calls, Behaved
<1>4. Count(t) = data
  BY <1>2, <1>3 DEF Count, Moved, Pending, LoopReads, OnceReads
<1>5. n \in Nat /\ n <= Len(inq) /\ n <= frame[t].buf.size BY <1>1, <1>2
<1>6. /\ inq' = SubSeq(inq, n + 1, Len(inq))
      /\ mem' = [mem EXCEPT ![t] = [a \in Addr |->
                   IF a \in data .. data + n - 1 THEN inq[a - data + 1] ELSE mem[t][a]]]
      /\ UNCHANGED <<arrived, hup, gone>>
  BY DEF SysRead
<1> HIDE DEF n, data
<1>7. Count(t) + n <= MaxSize BY <1>1, <1>2, <1>4, <1>5, ConstantTypes
<1>8. Apart(t) /\ Count(t)' = data + n /\ Behaved(t)'
  <2>1. CASE ret < 0 /\ Leave(t, Threw) /\ UNCHANGED frame
    <3>1. Apart(t) /\ res'[t] = Threw /\ pc'[t] = "idle"
      BY <2>1 DEF Leave, Apart, Sound, TypeOK
    <3>2. n = 0 BY <1>1, <2>1 DEF n
    <3>3. Count(t)' = data + n
      BY <1>2, <1>3, <1>4, <2>1, <3>1, <3>2 DEF Count, Moved, Threw, OnceReads, LoopReads
    <3>4. Behaved(t)' BY <1>3, <2>1, <3>1 DEF Behaved, Ended, Threw, data
    <3> QED BY <3>1, <3>3, <3>4
  <2>2. CASE /\ ret >= 0 /\ frame[t].op \in OnceReads
             /\ Leave(t, Returned(ret)) /\ UNCHANGED frame
    <3>1. Apart(t) /\ res'[t] = Returned(ret) /\ pc'[t] = "idle"
      BY <2>2 DEF Leave, Apart, Sound, TypeOK
    <3>2. n = ret BY <1>1, <2>2 DEF n
    <3>3. Count(t)' = data + n
      BY <1>1, <1>3, <2>2, <3>1, <3>2 DEF Count, Returned, OnceReads
    <3>4. Behaved(t)' BY <1>3, <2>2, <3>1 DEF Behaved, Ended, Returned, data, OnceReads
    <3> QED BY <3>1, <3>3, <3>4
  <2>3. CASE /\ ret >= 0 /\ frame[t].op \in LoopReads
             /\ \E label \in Labels, val \in Int :
                  /\ Progress(t, ret, label, val)
                  /\ frame[t].op = "read_all_timeout" => val = ToInt(frame[t].size)
    <3>1. PICK label \in Labels, val \in Int :
            /\ Progress(t, ret, label, val)
            /\ frame[t].op = "read_all_timeout" => val = ToInt(frame[t].size)
      BY <2>3
    <3>2. n = ret BY <1>1, <2>3 DEF n
    <3> DEFINE b == Advance(frame[t].buf, n)
    <3>3. b \in Views /\ b.data = data + n /\ b.size = frame[t].buf.size - n
      BY <1>1, <1>5, AdvanceView DEF data
    <3>4. /\ frame' = [frame EXCEPT ![t].buf = b]
          /\ IF b.size > 0 THEN Goto(t, label) ELSE Leave(t, Returned(val))
      BY <3>1, <3>2 DEF Progress
    <3> HIDE DEF b
    <3>5. frame'[t].op = frame[t].op /\ frame'[t].size = frame[t].size /\ frame'[t].buf = b
      BY <3>4 DEF Sound, TypeOK, Frames
    <3>6. Apart(t)
      BY <3>4 DEF Goto, Leave, Apart, Sound, TypeOK
    <3>7. Count(t)' = data + n
      BY <1>2, <1>5, <2>3, <3>3, <3>5 DEF Count, Moved, LoopReads
    <3>8. \/ res'[t] = Pending
          \/ b.size = 0 /\ res'[t] = Returned(val) /\ pc'[t] = "idle"
      BY <1>2, <1>5, <3>3, <3>4 DEF Goto, Leave, Sound, TypeOK
    <3>9. Behaved(t)'
      <4>1. frame'[t].op \notin OnceReads BY <2>3, <3>5 DEF LoopReads, OnceReads
      <4>2. CASE res'[t] = Pending BY <4>1, <4>2 DEF Behaved, Pending, Ended
      <4>3. CASE b.size = 0 /\ res'[t] = Returned(val) /\ pc'[t] = "idle"
        <5>1. Moved(t)' = frame[t].size BY <1>2, <3>5, <4>3 DEF Moved
        <5>2. frame'[t].op = "read_all_timeout" => res'[t].val = ToInt(Moved(t)')
          BY <3>1, <3>5, <4>3, <5>1 DEF Returned
        <5> QED BY <3>5, <4>1, <4>3, <5>2 DEF Behaved, Returned, Ended
      <4> QED BY <3>8, <4>2, <4>3
    <3> QED BY <3>6, <3>7, <3>9
  <2> QED BY <2>1, <2>2, <2>3
<1>9. Takes(t, n) BY <1>4, <1>5, <1>6, <1>7, <1>8 DEF Takes
<1> QED BY <1>5, <1>8, <1>9, ApartCounts DEF Calls

\* Waiting, polling and writing leave what was read alone.
LEMMA SelectStill ==
  ASSUME Sound, Calls, NEW t \in Threads, NEW val \in Int, Select(t, val),
         frame[t].op \in TimedOps,
         frame[t].op = "read_timeout" => val = 0,
         frame[t].op = "read_all_timeout" => val = ToInt(Moved(t))
  PROVE  Still(t) /\ Apart(t) /\ Calls'
<1>1. frame' = frame
  <2>1. frame' = [frame EXCEPT ![t].left = frame[t].left] BY DEF Select, NextTimeval
  <2> QED BY <2>1 DEF Sound, TypeOK, Frames
<1>2. UNCHANGED <<inq, arrived, hup, mem, gone>> /\ pc[t] = "select" BY DEF Select, kernel
<1>3. res[t] = Pending BY <1>2 DEF Calls, Behaved
<1>4. \/ Goto(t, "read")
      \/ Leave(t, Threw) \/ Leave(t, Returned(val))
  BY DEF Select
<1>5. Apart(t) BY <1>1, <1>4 DEF Goto, Leave, Apart, Sound, TypeOK
<1>6. \/ res'[t] = Pending
      \/ pc'[t] = "idle" /\ res'[t] \in {Threw, Returned(val)}
  BY <1>4 DEF Goto, Leave, Sound, TypeOK
<1>7. Pending.val = 0 /\ Threw.val = 0 /\ Returned(val).val = val
  BY DEF Pending, Threw, Returned
<1>8. frame'[t] = frame[t] /\ Moved(t)' = Moved(t)
  BY <1>1 DEF Moved
<1>9. CASE frame[t].op = "read_timeout"
  <2>1. res'[t].val = 0 BY <1>6, <1>7, <1>9
  <2>2. Count(t)' = Count(t) BY <1>3, <1>7, <1>8, <1>9, <2>1 DEF Count
  <2>3. Behaved(t)' BY <1>6, <1>8, <1>9, <2>1 DEF Behaved, Pending, Ended, Calls
  <2> QED BY <1>2, <1>5, <2>2, <2>3, ApartCounts DEF Still, Calls
<1>10. CASE frame[t].op = "read_all_timeout"
  <2>1. Count(t)' = Count(t) BY <1>8, <1>10 DEF Count
  <2>2. res'[t].kind = "returned" => res'[t].val = ToInt(Moved(t)')
    BY <1>6, <1>7, <1>8, <1>10 DEF Pending, Threw
  <2>3. res'[t].kind # "returned" => res'[t].val = 0
    BY <1>6, <1>7 DEF Returned
  <2>4. Behaved(t)' BY <1>6, <1>8, <1>10, <2>2, <2>3 DEF Behaved, Ended, OnceReads
  <2> QED BY <1>2, <1>5, <2>1, <2>4, ApartCounts DEF Still, Calls
<1> QED BY <1>9, <1>10 DEF TimedOps

LEMMA WaitStill ==
  ASSUME Sound, Calls, NEW t \in Threads, Wait(t)
  PROVE  Still(t) /\ Apart(t) /\ Calls'
<1>1. /\ frame' = [frame EXCEPT ![t].left = frame[t].left - 1,
                                ![t].waited = frame[t].waited + 1]
      /\ UNCHANGED <<kernel, pc, mem, res, sent, gone>>
  BY DEF Wait
<1>2. /\ \A u \in Threads \ {t} : frame'[u] = frame[u]
      /\ frame'[t].op = frame[t].op /\ frame'[t].size = frame[t].size
      /\ frame'[t].buf = frame[t].buf
  BY <1>1 DEF Sound, TypeOK, Frames
<1>3. Apart(t) BY <1>1, <1>2 DEF Apart
<1>4. Count(t)' = Count(t) BY <1>1, <1>2 DEF Count, Moved
<1>5. Behaved(t)' BY <1>1, <1>2 DEF Behaved, Ended, Moved, Calls
<1> QED BY <1>1, <1>3, <1>4, <1>5, ApartCounts DEF Still, Calls, kernel

LEMMA PollStill ==
  ASSUME Sound, Calls, NEW t \in Threads, frame[t].op \in {"poll", "flush"},
         UNCHANGED <<inq, arrived, hup, frame, mem, gone>>,
         NEW o \in {Threw, Returned(0), Returned(1)},
         Leave(t, o)
  PROVE  Still(t) /\ Apart(t) /\ Calls'
<1>1. Apart(t) BY DEF Leave, Apart, Sound, TypeOK
<1>2. res'[t] = o /\ pc'[t] = "idle" BY DEF Leave, Sound, TypeOK
<1>3. Count(t)' = Count(t) BY DEF Count
<1>4. Behaved(t)' BY <1>2 DEF Behaved, Threw, Returned, Ended, OnceReads
<1> QED BY <1>1, <1>3, <1>4, ApartCounts DEF Still, Calls

LEMMA WriteStill ==
  ASSUME Sound, Calls, NEW t \in Threads, frame[t].op = "write",
         NEW ret \in WriteResults(frame[t].buf), SysWrite(t, ret),
         \/ ret < 0 /\ Leave(t, Threw) /\ UNCHANGED frame
         \/ ret >= 0 /\ Progress(t, ret, "write", 0)
  PROVE  Still(t) /\ Apart(t) /\ Calls'
<1>1. UNCHANGED <<inq, arrived, hup, mem, gone>> BY DEF SysWrite, WriteResults, Transfers
<1>2. /\ \A u \in Threads \ {t} : frame'[u] = frame[u]
      /\ frame'[t].op = "write"
  BY DEF Sound, TypeOK, Frames, Progress
<1>3. /\ \A u \in Threads \ {t} : pc'[u] = pc[u] /\ res'[u] = res[u]
      /\ \/ res'[t] = Pending
         \/ pc'[t] = "idle" /\ res'[t] \in {Threw, Returned(0)}
  BY DEF Sound, TypeOK, Progress, Goto, Leave
<1>4. Apart(t) BY <1>2, <1>3 DEF Apart
<1>5. Count(t)' = Count(t) BY <1>2 DEF Count
<1>6. Behaved(t)'
  BY <1>2, <1>3 DEF Behaved, Threw, Returned, Pending, Ended, OnceReads
<1> QED BY <1>1, <1>4, <1>5, <1>6, ApartCounts DEF Still, Calls

\* Every step of a thread begins a call, takes bytes, or leaves them alone.
LEMMA StepKinds ==
  ASSUME Sound, Calls, NEW t \in Threads, Step(t) \/ Wait(t)
  PROVE  /\ Starts(t) \/ (\E n \in Nat : Takes(t, n)) \/ Still(t)
         /\ Apart(t) /\ Calls'
<1> DEFINE Goal == /\ Starts(t) \/ (\E n \in Nat : Takes(t, n)) \/ Still(t)
                   /\ Apart(t) /\ Calls'
<1> SUFFICES Goal OBVIOUS
<1>1. ASSUME NEW n \in 0..MaxSize, NEW op \in AllOps, NEW ms \in Int, NEW left \in Int,
             NEW buf \in {MutableBuffer(0, n), ConstBuffer(0, n)}, Enter(t, op, buf, ms, left),
             \/ \E label \in Labels : Goto(t, label)
             \/ /\ op \notin OnceReads
                /\ \E o \in Results : /\ Leave(t, o)
                                    /\ Honest(op, buf, 0, o)
      PROVE  Goal
  <2>1. buf \in Views /\ buf.size = n /\ buf.data = 0 BY FreshBuffer
  <2>2. buf.size \in 0..MaxSize BY <2>1
  <2> QED BY <1>1, <2>1, <2>2, EnterStarts
<1>2. ASSUME pc[t] = "read", frame[t].op \in OnceReads,
             NEW ret \in ReadResults(frame[t].buf), SysRead(t, ret),
             Leave(t, IF ret < 0 THEN Threw ELSE Returned(ret)), UNCHANGED frame
      PROVE  Goal
  <2>1. ret \in Int BY <1>2, SysReadTypes DEF Sound
  <2> QED BY <1>2, <2>1, ReadTakes
<1>3. ASSUME pc[t] = "read", frame[t].op \in LoopReads, NEW label \in Labels,
             NEW ret \in ReadResults(frame[t].buf), SysRead(t, ret), NEW val \in Int,
             frame[t].op = "read_all_timeout" => val = ToInt(frame[t].size),
             \/ ret < 0 /\ Leave(t, Threw) /\ UNCHANGED frame
             \/ ret >= 0 /\ Progress(t, ret, label, val)
      PROVE  Goal
  BY <1>3, ReadTakes
<1>4. ASSUME NEW n \in 0..MaxSize, NEW ms \in Timeouts, NEW op \in TimedOps,
             Enter(t, op, MutableBuffer(0, n), ms, KernelMs(Timeval(ms))),
             Goto(t, FirstCall(ms))
      PROVE  Goal
  BY <1>1, <1>4, TimeoutTypes, LabelTypes DEF TimedOps, AllOps
<1>5. ASSUME NEW op \in {"read_all", "write"}, NEW n \in 0..MaxSize, NEW label \in Labels,
             NEW buf \in {MutableBuffer(0, n), ConstBuffer(0, n)},
             Enter(t, op, buf, NoTimeout, 0),
             IF n > 0 THEN Goto(t, label) ELSE Leave(t, Returned(0))
      PROVE  Goal
  <2>1. n \in Nat /\ NoTimeout \in Int /\ 0 \in Int /\ op \in AllOps /\ op \notin OnceReads
    BY ConstantTypes DEF AllOps, OnceReads
  <2>2. CASE n > 0
    <3>1. Goto(t, label) BY <1>5, <2>2
    <3> QED BY <1>1, <1>5, <2>1, <3>1
  <2>3. CASE n = 0
    <3>1. Honest(op, buf, 0, Returned(0))
      BY <2>3, ConstantTypes, FreshBuffer DEF Honest, Returned
    <3>2. Leave(t, Returned(0)) /\ Returned(0) \in Results
      BY <1>5, <2>3, <3>1 DEF Honest
    <3> QED BY <1>1, <1>5, <2>1, <3>1, <3>2
  <2> QED BY <2>1, <2>2, <2>3
<1>6. CASE Read(t)
  <2>1. CASE \E n \in 0..MaxSize :
               Enter(t, "read", MutableBuffer(0, n), NoTimeout, 0) /\ Goto(t, "read")
    <3>1. "read" \in AllOps /\ NoTimeout \in Int /\ 0 \in Int /\ "read" \in Labels
      BY ConstantTypes, LabelTypes DEF AllOps
    <3> QED BY <1>1, <2>1, <3>1
  <2>2. CASE /\ At(t, "read", "read")
             /\ \E ret \in ReadResults(frame[t].buf) :
                  /\ SysRead(t, ret)
                  /\ Leave(t, IF ret < 0 THEN Threw ELSE Returned(ret))
             /\ UNCHANGED frame
    BY <1>2, <2>2 DEF At, OnceReads
  <2> QED BY <1>6, <2>1, <2>2 DEF Read
<1>7. CASE ReadAll(t)
  BY <1>3, <1>5, <1>7, LabelTypes DEF ReadAll, At, LoopReads
<1>8. CASE ReadTimeout(t)
  <2>1. CASE frame[t].op = "read_timeout" /\ Select(t, 0)
    BY <2>1, SelectStill DEF TimedOps
  <2> QED BY <1>2, <1>4, <1>8, <2>1 DEF ReadTimeout, At, OnceReads, TimedOps
<1>9. CASE ReadAllTimeout(t)
  <2>1. CASE frame[t].op = "read_all_timeout" /\ Select(t, ToInt(Moved(t)))
    <3>1. ToInt(Moved(t)) \in Int BY FrameTypes, NarrowedTypes DEF Moved
    <3> QED BY <2>1, <3>1, SelectStill DEF TimedOps
  <2>2. ToInt(frame[t].size) \in Int /\ FirstCall(frame[t].ms) \in Labels
    BY FrameTypes, LabelTypes, NarrowedTypes
  <2> QED BY <1>3, <1>4, <1>9, <2>1, <2>2 DEF ReadAllTimeout, At, LoopReads, TimedOps, Moved
<1>10. CASE Write(t)
  BY <1>5, <1>10, WriteStill, LabelTypes DEF Write, At
<1>11. CASE Poll(t)
  <2>1. ASSUME NEW ms \in Timeouts, Enter(t, "poll", MutableBuffer(0, 0), ms, ToInt(ms)),
               Goto(t, "poll")
        PROVE  Goal
    <3>1. 0 \in 0..MaxSize /\ ToInt(ms) \in Int /\ ms \in Int /\ "poll" \in Labels
      BY TimeoutTypes, LabelTypes, ConstantTypes
    <3> QED BY <1>1, <2>1, <3>1 DEF AllOps
  <2> QED BY <1>11, <2>1, PollStill DEF Poll, At, kernel
<1>12. CASE InputWaiting(t) \/ OutputWaiting(t)
  <2>1. PICK op \in {"input_waiting", "output_waiting"}, n \in Nat :
          /\ Enter(t, op, MutableBuffer(0, 0), NoTimeout, 0)
          /\ Leave(t, Threw) \/ Leave(t, Returned(n))
    <3>1. Len(inq) \in Nat /\ Len(outq) \in Nat BY DEF Sound, TypeOK
    <3> QED BY <1>12, <3>1 DEF InputWaiting, OutputWaiting
  <2>2. \A o \in {Threw, Returned(n)} : Honest(op, MutableBuffer(0, 0), 0, o)
    BY <2>1, ConstantTypes DEF Honest, Threw, Returned
  <2>3. 0 \in 0..MaxSize /\ NoTimeout \in Int /\ op \in AllOps /\ op \notin OnceReads
    BY ConstantTypes DEF AllOps, OnceReads
  <2>4. PICK o \in Results : Leave(t, o) /\ Honest(op, MutableBuffer(0, 0), 0, o)
    BY <2>1, <2>2 DEF Honest
  <2>5. ASSUME NEW buf \in {MutableBuffer(0, 0)}, Enter(t, op, buf, NoTimeout, 0) PROVE Goal
    <3> QED BY <1>1, <2>3, <2>4, <2>5
  <2> QED BY <2>1, <2>5
<1>13. CASE Wait(t)
  BY <1>13, WaitStill
<1> QED BY <1>6, <1>7, <1>8, <1>9, <1>10, <1>11, <1>12, <1>13 DEF Step
-----------------------------------------------------------------------------
(* Where every byte is. *)

\* The queue holds arrived bytes, oldest first.
Queue ==
  \A i \in 1..Len(inq) :
    /\ inq[i] \in 1..arrived
    /\ \A j \in 1..Len(inq) : i < j => inq[i] < inq[j]

\* The byte has left the queue, so it is older than all that is in it.
Older(x) == x \in 1..arrived /\ \A i \in 1..Len(inq) : x < inq[i]

\* The same of a byte x after the step.
OlderThen(x) == x \in 1..arrived' /\ \A i \in 1..Len(inq') : x < inq'[i]

Past ==
  /\ \A x \in gone : Older(x)
  /\ \A t \in Threads, a \in Addr : mem[t][a] # 0 => Older(mem[t][a])

\* A call's buffer is filled up to its count, and no further.
Filled(t) ==
  /\ Count(t) \in 0..MaxSize
  /\ \A a \in Addr : mem[t][a] # 0 <=> a < Count(t)

Prefix == \A t \in Threads : Filled(t)

Rising ==
  \A t \in Threads, a, b \in Addr : a < b /\ mem[t][b] # 0 => mem[t][a] < mem[t][b]

Once ==
  \A t \in Threads, a \in Addr : mem[t][a] # 0 =>
    /\ mem[t][a] \notin gone
    /\ \A u \in Threads \ {t}, b \in Addr : mem[t][a] # mem[u][b]

Complete ==
  \A x \in 1..arrived :
    \/ x \in gone
    \/ \E i \in 1..Len(inq) : inq[i] = x
    \/ \E t \in Threads, a \in Addr : mem[t][a] = x

Flow == Queue /\ Past /\ Prefix /\ Rising /\ Once /\ Complete

LEMMA StateTypes ==
  ASSUME Sound
  PROVE  /\ Len(inq) \in Nat /\ arrived \in Nat /\ inq \in Seq(Nat) /\ gone \subseteq Nat
         /\ \A i \in 1..Len(inq) : inq[i] \in Nat
         /\ \A t \in Threads, a \in Addr : mem[t][a] \in Nat
         /\ \A a \in Addr : a \in Nat /\ a < MaxSize
         /\ MaxSize \in Nat
  BY ConstantTypes DEF Sound, TypeOK, Addr

LEMMA TakesFacts ==
  ASSUME Sound, Prefix, NEW t \in Threads, NEW n \in Nat, Takes(t, n)
  PROVE  /\ Len(inq') = Len(inq) - n
         /\ \A i \in 1..Len(inq') : i + n \in 1..Len(inq) /\ inq'[i] = inq[i + n]
         /\ \A i \in 1..Len(inq) : i > n => i - n \in 1..Len(inq') /\ inq'[i - n] = inq[i]
         /\ \A u \in Threads \ {t} : mem'[u] = mem[u]
         /\ \A a \in Addr :
              IF Count(t) <= a /\ a < Count(t) + n
              THEN a - Count(t) + 1 \in 1..n /\ mem'[t][a] = inq[a - Count(t) + 1]
              ELSE mem'[t][a] = mem[t][a]
         /\ \A i \in 1..n : /\ Count(t) + i - 1 \in Addr
                           /\ mem'[t][Count(t) + i - 1] = inq[i]
         /\ Count(t) \in Nat
<1> DEFINE c == Count(t)
<1>1. c \in Nat /\ c + n <= MaxSize /\ n <= Len(inq)
  BY StateTypes DEF Prefix, Filled, Takes
<1>2. inq' = SubSeq(inq, n + 1, Len(inq)) BY DEF Takes
<1>3. Len(inq') = Len(inq) - n /\ \A i \in 1..Len(inq') : inq'[i] = inq[i + n]
  BY <1>1, <1>2, StateTypes
<1>4. mem' = [mem EXCEPT ![t] = [a \in Addr |->
                IF a \in c .. c + n - 1 THEN inq[a - c + 1] ELSE mem[t][a]]]
  BY DEF Takes
<1> HIDE DEF c
<1>5. /\ \A u \in Threads \ {t} : mem'[u] = mem[u]
      /\ mem'[t] = [a \in Addr |->
                       IF a \in c .. c + n - 1 THEN inq[a - c + 1] ELSE mem[t][a]]
  BY <1>4 DEF Sound, TypeOK
<1>6. \A a \in Addr : IF c <= a /\ a < c + n
                     THEN a - c + 1 \in 1..n /\ mem'[t][a] = inq[a - c + 1]
                     ELSE mem'[t][a] = mem[t][a]
  BY <1>1, <1>5, StateTypes
<1>7. \A i \in 1..n : c + i - 1 \in Addr /\ mem'[t][c + i - 1] = inq[i]
  <2> SUFFICES ASSUME NEW i \in 1..n
               PROVE  c + i - 1 \in Addr /\ mem'[t][c + i - 1] = inq[i]
    OBVIOUS
  <2>1. PICK a \in Addr : a = c + i - 1 BY <1>1, StateTypes DEF Addr
  <2>2. c <= a /\ a < c + n /\ a - c + 1 = i BY <1>1, <2>1
  <2>3. mem'[t][a] = inq[i] BY <1>6, <2>2
  <2> QED BY <2>1, <2>3
<1>8. /\ \A i \in 1..Len(inq') : i + n \in 1..Len(inq)
      /\ \A i \in 1..Len(inq) : i > n => i - n \in 1..Len(inq') /\ inq'[i - n] = inq[i]
  <2>1. Len(inq) \in Nat BY StateTypes
  <2>2. ASSUME NEW i \in 1..Len(inq), i > n
        PROVE  i - n \in 1..Len(inq') /\ inq'[i - n] = inq[i]
    <3>1. i - n \in 1..Len(inq') /\ (i - n) + n = i BY <1>1, <1>3, <2>1, <2>2
    <3> QED BY <1>3, <3>1
  <2> QED BY <1>1, <1>3, <2>1, <2>2
<1> QED BY <1>1, <1>3, <1>5, <1>6, <1>7, <1>8 DEF c

LEMMA TakesFlow ==
  ASSUME Sound, Flow, NEW t \in Threads, NEW n \in Nat, Takes(t, n), Apart(t)
  PROVE  Flow'
<1> DEFINE c == Count(t)
<1> USE DEF Flow
<1>1. /\ Len(inq') = Len(inq) - n
      /\ \A i \in 1..Len(inq') : i + n \in 1..Len(inq) /\ inq'[i] = inq[i + n]
      /\ \A i \in 1..Len(inq) : i > n => i - n \in 1..Len(inq') /\ inq'[i - n] = inq[i]
      /\ \A u \in Threads \ {t} : mem'[u] = mem[u]
      /\ \A a \in Addr : IF c <= a /\ a < c + n
                        THEN a - c + 1 \in 1..n /\ mem'[t][a] = inq[a - c + 1]
                        ELSE mem'[t][a] = mem[t][a]
      /\ \A i \in 1..n : c + i - 1 \in Addr /\ mem'[t][c + i - 1] = inq[i]
      /\ c \in Nat
  BY TakesFacts
<1>2. n <= Len(inq) /\ UNCHANGED <<arrived, gone>> /\ Count(t)' = c + n /\ c + n <= MaxSize
  BY DEF Takes
<1>3. /\ Len(inq) \in Nat /\ arrived \in Nat /\ gone \subseteq Nat /\ MaxSize \in Nat
      /\ \A i \in 1..Len(inq) : inq[i] \in Nat
      /\ \A u \in Threads, a \in Addr : mem[u][a] \in Nat
      /\ \A a \in Addr : a \in Nat /\ a < MaxSize
  BY StateTypes
<1>4. \A i, j \in 1..Len(inq) : i < j => inq[i] < inq[j]
  BY DEF Queue
<1>5. /\ \A a \in Addr : mem[t][a] # 0 <=> a < c
      /\ \A u \in Threads \ {t} : Filled(u)' = Filled(u)
  BY <1>1, ApartCounts DEF Prefix, Filled
<1> HIDE DEF c
<1>6. Queue'
  <2>1. \A i \in 1..Len(inq') : inq'[i] \in 1..arrived BY <1>1 DEF Queue
  <2>2. ASSUME NEW i \in 1..Len(inq'), NEW j \in 1..Len(inq'), i < j
        PROVE  inq'[i] < inq'[j]
    <3>1. i + n < j + n BY <1>1, <1>2, <1>3, <2>2
    <3> QED BY <1>1, <1>4, <3>1
  <2> QED BY <1>2, <2>1, <2>2 DEF Queue
<1>7. \A x : Older(x) => OlderThen(x)
  BY <1>1, <1>2, <1>3 DEF Older, OlderThen
<1>8. \A i \in 1..n : i \in 1..Len(inq) /\ OlderThen(inq[i])
  <2> SUFFICES ASSUME NEW i \in 1..n PROVE i \in 1..Len(inq) /\ OlderThen(inq[i])
    OBVIOUS
  <2>1. i \in 1..Len(inq) BY <1>2, <1>3
  <2>2. ASSUME NEW j \in 1..Len(inq') PROVE inq[i] < inq'[j]
    <3>1. i < j + n BY <1>1, <1>2, <1>3
    <3> QED BY <1>1, <1>4, <2>1, <3>1
  <2> QED BY <1>2, <2>1, <2>2 DEF OlderThen, Queue
<1>9. Past'
  <2>1. \A x \in gone' : OlderThen(x) BY <1>2, <1>7 DEF Past
  <2>2. ASSUME NEW u \in Threads, NEW a \in Addr, mem'[u][a] # 0
        PROVE  OlderThen(mem'[u][a])
    <3>1. CASE u = t /\ c <= a /\ a < c + n BY <1>1, <1>8, <3>1
    <3>2. CASE ~(u = t /\ c <= a /\ a < c + n)
      <4>1. mem'[u][a] = mem[u][a] BY <1>1, <3>2
      <4> QED BY <1>7, <2>2, <4>1 DEF Past
    <3> QED BY <3>1, <3>2
  <2> QED BY <2>1, <2>2 DEF Past, Older, OlderThen
<1>10. Prefix'
  <2>1. \A a \in Addr : mem'[t][a] # 0 <=> a < c + n
    <3> SUFFICES ASSUME NEW a \in Addr PROVE mem'[t][a] # 0 <=> a < c + n
      OBVIOUS
    <3>1. CASE c <= a /\ a < c + n
      <4>1. mem'[t][a] \in 1..arrived BY <1>1, <1>2, <1>8, <3>1 DEF OlderThen
      <4> QED BY <1>3, <3>1, <4>1
    <3>2. CASE ~(c <= a /\ a < c + n)
      <4>1. a < c + n <=> a < c BY <1>1, <1>3, <3>2
      <4> QED BY <1>1, <1>5, <3>2, <4>1
    <3> QED BY <3>1, <3>2
  <2>2. Filled(t)' BY <1>1, <1>2, <2>1, <1>3 DEF Filled
  <2> QED BY <1>5, <2>2 DEF Prefix
<1>11. Rising'
  <2> SUFFICES ASSUME NEW u \in Threads, NEW a \in Addr, NEW b \in Addr,
                      a < b, mem'[u][b] # 0
               PROVE  mem'[u][a] < mem'[u][b]
    BY DEF Rising
  <2>1. CASE u # t BY <1>1, <2>1 DEF Rising
  <2>2. CASE u = t /\ ~(c <= b /\ b < c + n)
    <3>1. b < c /\ mem[t][b] # 0 /\ mem'[t][b] = mem[t][b] BY <1>1, <1>5, <2>2
    <3>2. mem'[t][a] = mem[t][a] BY <1>1, <1>3, <3>1
    <3> QED BY <2>2, <3>1, <3>2 DEF Rising
  <2>3. CASE u = t /\ c <= b /\ b < c + n
    <3>1. b - c + 1 \in 1..n /\ mem'[t][b] = inq[b - c + 1] BY <1>1, <2>3
    <3>2. CASE c <= a
      <4> HIDE DEF Flow
      <4>0. a \in Nat /\ b \in Nat /\ c \in Nat /\ n \in Nat BY <1>1, <1>3
      <4>1. c <= a /\ a < c + n /\ a - c + 1 < b - c + 1 BY <2>3, <3>2, <4>0
      <4>2. a - c + 1 \in 1..n /\ mem'[t][a] = inq[a - c + 1] BY <1>1, <4>1
      <4> QED BY <1>4, <1>8, <2>3, <3>1, <4>1, <4>2
    <3>3. CASE a < c
      <4>1. mem[t][a] # 0 /\ mem'[t][a] = mem[t][a] BY <1>1, <1>3, <1>5, <3>3
      <4>2. Older(mem[t][a]) BY <4>1 DEF Past
      <4> QED BY <1>8, <2>3, <3>1, <4>1, <4>2 DEF Older
    <3> QED BY <1>1, <1>3, <3>2, <3>3
  <2> QED BY <2>1, <2>2, <2>3
<1>12. \A i \in 1..n : /\ inq[i] \notin gone
                     /\ \A u \in Threads, b \in Addr : inq[i] # mem[u][b]
  <2> SUFFICES ASSUME NEW i \in 1..n
               PROVE  /\ inq[i] \notin gone
                      /\ \A u \in Threads, b \in Addr : inq[i] # mem[u][b]
    OBVIOUS
  <2>1. inq[i] \in Nat /\ inq[i] # 0 /\ ~Older(inq[i])
    BY <1>3, <1>8 DEF Older, OlderThen
  <2> QED BY <2>1 DEF Past
<1>13. Once'
  <2>1. ASSUME NEW u \in Threads, NEW a \in Addr, mem'[u][a] # 0
        PROVE  \/ mem'[u][a] = mem[u][a]
               \/ u = t /\ \E i \in 1..n : mem'[u][a] = inq[i]
    BY <1>1
  <2> SUFFICES ASSUME NEW u \in Threads, NEW a \in Addr, mem'[u][a] # 0
               PROVE  /\ mem'[u][a] \notin gone
                      /\ \A v \in Threads \ {u}, b \in Addr : mem'[u][a] # mem'[v][b]
    BY <1>2 DEF Once
  <2>2. mem'[u][a] \notin gone BY <1>12, <2>1 DEF Once
  <2>3. ASSUME NEW v \in Threads \ {u}, NEW b \in Addr, mem'[u][a] = mem'[v][b]
        PROVE  FALSE
    BY <1>12, <2>1, <2>3 DEF Once
  <2> QED BY <2>2, <2>3
<1>14. Complete'
  <2> SUFFICES ASSUME NEW x \in 1..arrived
               PROVE  \/ x \in gone
                      \/ \E i \in 1..Len(inq') : inq'[i] = x
                      \/ \E u \in Threads, a \in Addr : mem'[u][a] = x
    BY <1>2 DEF Complete
  <2>1. CASE \E i \in 1..Len(inq) : inq[i] = x
    <3>1. PICK i \in 1..Len(inq) : inq[i] = x BY <2>1
    <3>2. CASE i <= n BY <1>1, <1>2, <3>1, <3>2
    <3>3. CASE i > n BY <1>1, <3>1, <3>3
    <3> QED BY <1>2, <1>3, <3>2, <3>3
  <2>2. CASE \E u \in Threads, a \in Addr : mem[u][a] = x
    <3>1. PICK u \in Threads, a \in Addr : mem[u][a] = x BY <2>2
    <3>2. mem'[u][a] = x
      <4>1. CASE u # t BY <1>1, <3>1, <4>1
      <4>2. CASE u = t
        <5>1. mem[t][a] # 0 BY <1>3, <3>1, <4>2
        <5>2. a < c /\ a \in Nat BY <1>3, <1>5, <5>1
        <5> QED BY <1>1, <3>1, <4>2, <5>2
      <4> QED BY <4>1, <4>2
    <3> QED BY <3>2
  <2> QED BY <2>1, <2>2 DEF Complete
<1> QED BY <1>6, <1>9, <1>10, <1>11, <1>13, <1>14

\* A call that begins gives up what the thread's last call read.
LEMMA StartsFlow ==
  ASSUME Sound, Flow, NEW t \in Threads, Starts(t), Apart(t)
  PROVE  Flow'
<1> USE DEF Flow
<1>1. /\ \A a \in Addr : mem'[t][a] = 0
      /\ \A u \in Threads \ {t} : mem'[u] = mem[u]
      /\ \A x : x \in gone' <=> \/ x \in gone
                                \/ x # 0 /\ \E a \in Addr : mem[t][a] = x
      /\ UNCHANGED <<inq, arrived>> /\ Count(t)' = 0
  <2>1. mem' = [mem EXCEPT ![t] = [a \in Addr |-> 0]] BY DEF Starts, Untouched
  <2>2. gone' = gone \cup ({mem[t][a] : a \in Addr} \ {0}) BY DEF Starts, Held
  <2>3. \A x : x \in gone' <=> \/ x \in gone
                               \/ x # 0 /\ \E a \in Addr : mem[t][a] = x
    BY <2>2
  <2>4. (\A a \in Addr : mem'[t][a] = 0) /\ \A u \in Threads \ {t} : mem'[u] = mem[u]
    BY <2>1 DEF Sound, TypeOK
  <2> QED BY <2>3, <2>4 DEF Starts
<1>2. MaxSize \in Nat /\ \A a \in Addr : a \in Nat BY StateTypes
<1>3. Queue' BY <1>1 DEF Queue
<1>4. Past' BY <1>1 DEF Past, Older
<1>5. Prefix'
  <2>1. \A u \in Threads \ {t} : Filled(u)' BY <1>1, ApartCounts DEF Prefix, Filled
  <2>2. Filled(t)' BY <1>1, <1>2 DEF Filled
  <2> QED BY <2>1, <2>2 DEF Prefix
<1>6. Rising' BY <1>1 DEF Rising
<1>7. Once' BY <1>1 DEF Once
<1>8. Complete'
  <2> SUFFICES ASSUME NEW x \in 1..arrived
               PROVE  \/ x \in gone'
                      \/ \E i \in 1..Len(inq) : inq[i] = x
                      \/ \E u \in Threads, a \in Addr : mem'[u][a] = x
    BY <1>1 DEF Complete
  <2>1. CASE \E u \in Threads, a \in Addr : mem[u][a] = x
    <3>1. PICK u \in Threads, a \in Addr : mem[u][a] = x BY <2>1
    <3>2. CASE u = t
      <4>1. x # 0 BY StateTypes
      <4> QED BY <1>1, <3>1, <3>2, <4>1
    <3>3. CASE u # t BY <1>1, <3>1, <3>3
    <3> QED BY <3>2, <3>3
  <2>2. \A y \in gone : y \in gone' BY <1>1
  <2> QED BY <2>1, <2>2 DEF Complete
<1> QED BY <1>3, <1>4, <1>5, <1>6, <1>7, <1>8

LEMMA StillFlow ==
  ASSUME Flow, UNCHANGED <<inq, arrived, mem, gone>>,
         \A u \in Threads : Count(u)' = Count(u)
  PROVE  Flow'
<1>1. Queue' /\ Past' /\ Rising' /\ Once' /\ Complete'
  BY DEF Flow, Queue, Past, Older, Rising, Once, Complete
<1>2. Prefix' BY DEF Flow, Prefix, Filled
<1> QED BY <1>1, <1>2 DEF Flow

LEMMA ArriveFlow ==
  ASSUME Sound, Flow, Arrive
  PROVE  Flow'
<1> USE DEF Flow
<1>1. /\ arrived' = arrived + 1 /\ UNCHANGED <<pc, frame, mem, res, gone>>
      /\ Len(inq') = Len(inq) + 1 /\ inq'[Len(inq) + 1] = arrived + 1
      /\ \A i \in 1..Len(inq) : inq'[i] = inq[i]
  BY StateTypes DEF Arrive
<1>2. Len(inq) \in Nat /\ arrived \in Nat BY StateTypes
<1>3. \A i \in 1..Len(inq') : i = Len(inq) + 1 \/ i \in 1..Len(inq) BY <1>1, <1>2
<1>4. Queue'
  <2>1. \A i \in 1..Len(inq') : inq'[i] \in 1..arrived'
    BY <1>1, <1>2, <1>3 DEF Queue
  <2>2. ASSUME NEW i \in 1..Len(inq'), NEW j \in 1..Len(inq'), i < j
        PROVE  inq'[i] < inq'[j]
    <3>1. i \in 1..Len(inq) BY <1>1, <1>2, <2>2
    <3>2. CASE j \in 1..Len(inq) BY <1>1, <2>2, <3>1, <3>2 DEF Queue
    <3>3. CASE j = Len(inq) + 1
      <4>1. inq'[i] \in 1..arrived BY <1>1, <3>1 DEF Queue
      <4> QED BY <1>1, <1>2, <3>3, <4>1
    <3> QED BY <1>3, <3>2, <3>3
  <2> QED BY <2>1, <2>2 DEF Queue
<1>5. \A x : Older(x) => OlderThen(x)
  <2> SUFFICES ASSUME NEW x, Older(x) PROVE OlderThen(x) OBVIOUS
  <2>1. x \in 1..arrived /\ x \in 1..arrived' BY <1>1, <1>2 DEF Older
  <2>2. ASSUME NEW i \in 1..Len(inq') PROVE x < inq'[i]
    BY <1>1, <1>2, <1>3, <2>1 DEF Older
  <2> QED BY <2>1, <2>2 DEF OlderThen
<1>6. Past' BY <1>1, <1>5 DEF Past, Older, OlderThen
<1>7. Prefix' BY <1>1 DEF Prefix, Filled, Count, Moved
<1>8. Rising' /\ Once' BY <1>1 DEF Rising, Once
<1>9. Complete'
  <2> SUFFICES ASSUME NEW x \in 1..arrived'
               PROVE  \/ x \in gone
                      \/ \E i \in 1..Len(inq') : inq'[i] = x
                      \/ \E u \in Threads, a \in Addr : mem[u][a] = x
    BY <1>1 DEF Complete
  <2>1. CASE x = arrived + 1
    <3>1. Len(inq) + 1 \in 1..Len(inq') BY <1>1, <1>2
    <3> QED BY <1>1, <2>1, <3>1
  <2>2. CASE x \in 1..arrived
    <3>1. CASE \E i \in 1..Len(inq) : inq[i] = x
      <4>1. PICK i \in 1..Len(inq) : inq[i] = x BY <3>1
      <4>2. i \in 1..Len(inq') /\ inq'[i] = x BY <1>1, <1>2, <4>1
      <4> QED BY <4>2
    <3> QED BY <2>2, <3>1 DEF Complete
  <2> QED BY <1>1, <1>2, <2>1, <2>2
<1> QED BY <1>4, <1>6, <1>7, <1>8, <1>9

LEMMA HangUpFlow ==
  ASSUME Sound, Flow, HangUp
  PROVE  Flow'
<1> USE DEF Flow
<1>1. UNCHANGED <<arrived, pc, frame, mem, res>> BY DEF HangUp
<1>2. \A u \in Threads : Count(u)' = Count(u) BY <1>1 DEF Count, Moved
<1>3. CASE UNCHANGED <<inq, gone>> BY <1>1, <1>2, <1>3, StillFlow
<1>4. CASE inq' = <<>> /\ gone' = gone \cup {inq[i] : i \in 1..Len(inq)}
  <2>1. /\ Len(inq') = 0 /\ \A i \in 1..Len(inq') : FALSE
        /\ \A x : x \in gone' <=> x \in gone \/ \E i \in 1..Len(inq) : inq[i] = x
    BY <1>4
  <2>2. \A i \in 1..Len(inq) : inq[i] \in 1..arrived /\ ~Older(inq[i])
    BY StateTypes DEF Queue, Older
  <2>3. Queue' BY <2>1 DEF Queue
  <2>4. Past' BY <1>1, <2>1, <2>2 DEF Past, Older
  <2>5. Prefix' BY <1>1, <1>2 DEF Prefix, Filled
  <2>6. Rising' BY <1>1 DEF Rising
  <2>7. Once'
    <3>1. \A t \in Threads, a \in Addr : mem[t][a] # 0 => mem[t][a] \notin gone'
      BY <2>1, <2>2 DEF Past, Once
    <3> QED BY <1>1, <3>1 DEF Once
  <2>8. Complete' BY <1>1, <2>1 DEF Complete
  <2> QED BY <2>3, <2>4, <2>5, <2>6, <2>7, <2>8
<1> QED BY <1>3, <1>4 DEF HangUp

Accounted == Calls /\ Flow

LEMMA InitAccounted == Init => Accounted
<1> SUFFICES ASSUME Init PROVE Accounted
  OBVIOUS
<1>1. /\ inq = <<>> /\ arrived = 0 /\ gone = {}
      /\ mem = [t \in Threads |-> [a \in Addr |-> 0]]
  BY DEF Init, Untouched
<1>2. \A t \in Threads :
        /\ frame[t].op = "none" /\ res[t].kind = "pending" /\ res[t].val = 0
        /\ res[t] = Pending
  BY DEF Init, Pending
<1>3. Calls BY <1>2 DEF Calls, Behaved, Ended, OnceReads
<1>4. Queue /\ Past /\ Rising /\ Once /\ Complete
  BY <1>1 DEF Queue, Past, Rising, Once, Complete
<1>5. Prefix
  <2>1. \A t \in Threads : Count(t) = 0 BY <1>2 DEF Count
  <2>2. MaxSize \in Nat /\ \A a \in Addr : a \in Nat BY ConstantTypes DEF Addr
  <2> QED BY <1>1, <2>1, <2>2 DEF Prefix, Filled
<1> QED BY <1>3, <1>4, <1>5 DEF Accounted, Flow

\* What the kinds of steps do to the account.
LEMMA KindsAccounted ==
  ASSUME Sound, Accounted, NEW t \in Threads, Apart(t), Calls',
         Starts(t) \/ (\E n \in Nat : Takes(t, n)) \/ Still(t)
  PROVE  Accounted'
<1> USE DEF Accounted
<1>1. CASE Starts(t) BY <1>1, StartsFlow
<1>2. CASE \E n \in Nat : Takes(t, n) BY <1>2, TakesFlow
<1>3. CASE Still(t)
  <2>1. \A u \in Threads : Count(u)' = Count(u) BY <1>3, ApartCounts DEF Still
  <2> QED BY <1>3, <2>1, StillFlow DEF Still
<1> QED BY <1>1, <1>2, <1>3

LEMMA NextAccounted == Sound /\ Accounted /\ [Next]_vars => Accounted'
<1> SUFFICES ASSUME Sound, Accounted, [Next]_vars PROVE Accounted'
  OBVIOUS
<1> USE DEF Accounted
<1>1. ASSUME UNCHANGED <<pc, frame, res>> PROVE Calls'
  BY <1>1 DEF Calls, Behaved, Ended, Moved
<1>2. CASE UNCHANGED <<inq, arrived, pc, frame, mem, res, gone>>
  <2>1. \A u \in Threads : Count(u)' = Count(u) BY <1>2 DEF Count, Moved
  <2> QED BY <1>1, <1>2, <2>1, StillFlow
<1>3. CASE Arrive BY <1>1, <1>3, ArriveFlow DEF Arrive
<1>4. CASE Transmit BY <1>2, <1>4 DEF Transmit
<1>5. CASE HangUp BY <1>1, <1>5, HangUpFlow DEF HangUp
<1>6. ASSUME NEW t \in Threads, Step(t) \/ Wait(t) PROVE Accounted'
  BY <1>6, StepKinds, KindsAccounted
<1> QED BY <1>2, <1>3, <1>4, <1>5, <1>6 DEF Next, Device, vars

LEMMA AlwaysAccounted == Spec => [](Sound /\ Accounted)
<1>1. Sound /\ Accounted /\ [Next]_vars => (Sound /\ Accounted)'
  BY NextSound, NextAccounted
<1> QED BY InitSound, InitAccounted, <1>1, PTL DEF Spec
-----------------------------------------------------------------------------
(* The theorems. *)

LEMMA AccountedConserved == Sound /\ Accounted => BytesConserved
<1> SUFFICES ASSUME Sound, Flow PROVE BytesConserved
  BY DEF Accounted
<1> USE DEF Flow
<1> DEFINE queued == {inq[i] : i \in 1..Len(inq)}
<1>1. /\ \A x \in queued : x \in 1..arrived /\ ~Older(x)
      /\ \A t \in Threads : \A x \in Held(t) :
           x # 0 /\ Older(x) /\ \E a \in Addr : mem[t][a] = x
      /\ \A x \in gone : Older(x)
  BY StateTypes DEF Queue, Past, Held, Older
<1>2. queued \cup gone \cup UNION {Held(t) : t \in Threads} \subseteq 1..arrived
  BY <1>1 DEF Older
<1>3. ASSUME NEW x \in 1..arrived
      PROVE  x \in queued \cup gone \cup UNION {Held(t) : t \in Threads}
  <2>1. x # 0 BY StateTypes
  <2> QED BY <2>1 DEF Complete, Held
<1>4. queued \cap gone = {} BY <1>1
<1>5. ASSUME NEW t \in Threads PROVE Held(t) \cap (queued \cup gone) = {}
  <2>1. \A x \in Held(t) : x \notin queued BY <1>1
  <2>2. \A x \in Held(t) : x \notin gone BY <1>1 DEF Once
  <2> QED BY <2>1, <2>2
<1>6. ASSUME NEW t \in Threads, NEW u \in Threads, t # u PROVE Held(t) \cap Held(u) = {}
  BY <1>1, <1>6 DEF Once
<1>7. ASSUME NEW t \in Threads, NEW a \in Addr, NEW b \in Addr, a # b,
             mem[t][a] = mem[t][b]
      PROVE  mem[t][a] = 0
  BY <1>7, StateTypes DEF Rising
<1>8. queued \cup gone \cup UNION {Held(t) : t \in Threads} = 1..arrived BY <1>2, <1>3
<1> QED BY <1>4, <1>5, <1>6, <1>7, <1>8 DEF BytesConserved

\* However calls interleave, fail or time out, every byte that arrived is in
\* one place: queued, at one address of one call's memory, or with a call that
\* is over.
THEOREM BytesTheorem == Spec => []BytesConserved
<1> QED BY AlwaysAccounted, AccountedConserved, PTL

LEMMA AccountedInOrder == Sound /\ Accounted => PrefixInOrder
<1> SUFFICES ASSUME Sound, Flow, NEW t \in Threads, NEW a \in Addr, NEW b \in Addr,
                    a < b, mem[t][b] # 0
             PROVE  0 < mem[t][a] /\ mem[t][a] < mem[t][b]
  BY DEF Accounted, PrefixInOrder
<1>1. b < Count(t) /\ Count(t) \in Nat BY StateTypes DEF Flow, Prefix, Filled
<1>2. mem[t][a] # 0 BY <1>1, StateTypes DEF Flow, Prefix, Filled
<1> QED BY <1>2, StateTypes DEF Flow, Rising

\* The bytes of one call lie at the front of its buffer, without gaps and in
\* the order they arrived.
THEOREM PrefixTheorem == Spec => []PrefixInOrder
<1> QED BY AlwaysAccounted, AccountedInOrder, PTL

\* A call holds as many bytes as its count says.
LEMMA HeldCount ==
  ASSUME Sound, Flow, NEW t \in Threads
  PROVE  Cardinality(Held(t)) = Count(t)
<1> DEFINE c == Count(t)
           f == [i \in 1..c |-> mem[t][i - 1]]
<1>1. c \in Nat /\ c <= MaxSize /\ \A a \in Addr : mem[t][a] # 0 <=> a < c
  BY StateTypes DEF Flow, Prefix, Filled
<1> HIDE DEF c
<1>2. \A i \in 1..c : i - 1 \in Addr /\ mem[t][i - 1] \in Held(t)
  <2>1. \A i \in 1..c : i - 1 \in Addr /\ i - 1 < c BY <1>1, StateTypes DEF Addr
  <2> QED BY <1>1, <2>1 DEF Held
<1>3. f \in [1..c -> Held(t)] BY <1>2
<1>4. \A i, j \in 1..c : i < j => f[i] < f[j]
  <2> SUFFICES ASSUME NEW i \in 1..c, NEW j \in 1..c, i < j PROVE f[i] < f[j]
    OBVIOUS
  <2>1. i - 1 < j - 1 /\ mem[t][j - 1] # 0 BY <1>1, <1>2
  <2> QED BY <1>2, <2>1 DEF Flow, Rising
<1>5. \A i, j \in 1..c : f[i] = f[j] => i = j
  <2>1. \A i \in 1..c : f[i] \in Nat BY <1>2, StateTypes
  <2> QED BY <1>1, <1>4, <2>1
<1>6. \A x \in Held(t) : \E i \in 1..c : f[i] = x
  <2> SUFFICES ASSUME NEW x \in Held(t) PROVE \E i \in 1..c : f[i] = x
    OBVIOUS
  <2>1. PICK a \in Addr : mem[t][a] = x /\ x # 0 BY DEF Held
  <2>2. a + 1 \in 1..c /\ (a + 1) - 1 = a BY <1>1, <2>1, StateTypes
  <2> QED BY <2>1, <2>2
<1> HIDE DEF f
<1>7. ExistsBijection(1..c, Held(t))
  BY <1>3, <1>5, <1>6 DEF ExistsBijection, Bijection, Injection, Surjection, IsInjective
<1> QED BY <1>1, <1>7, FS_CountingElements DEF c

LEMMA AccountedCounts == Sound /\ Accounted => ReadAccounted
<1> SUFFICES
      ASSUME Sound, Accounted, NEW t \in Threads
      PROVE  LET stored == Cardinality(Held(t))
             IN /\ frame[t].op \in LoopReads => stored = Moved(t)
                /\ Ended(t) /\ frame[t].op \in OnceReads => res[t].val = stored
                /\ Ended(t) /\ frame[t].op = "read_all_timeout" => res[t].val = ToInt(stored)
                /\ Ended(t) /\ frame[t].op = "read_all" => stored = frame[t].size
                /\ res[t] = Threw /\ frame[t].op \in OnceReads => stored = 0
  BY DEF ReadAccounted, LoopReads, OnceReads
<1>1. Cardinality(Held(t)) = Count(t) BY HeldCount DEF Accounted
<1>2. Behaved(t) BY DEF Accounted, Calls
<1>3. frame[t].op \in LoopReads => Count(t) = Moved(t) BY DEF Count, LoopReads
<1>4. frame[t].op \in OnceReads => Count(t) = res[t].val BY DEF Count, OnceReads
<1>5. Ended(t) /\ frame[t].op = "read_all_timeout" => res[t].val = ToInt(Count(t))
  BY <1>2, <1>3 DEF Behaved, LoopReads
<1>6. Ended(t) /\ frame[t].op = "read_all" => Count(t) = frame[t].size
  BY <1>2, <1>3, FrameTypes DEF Behaved, Moved, LoopReads
<1>7. res[t] = Threw => res[t].val = 0 BY DEF Threw
<1> QED BY <1>1, <1>3, <1>4, <1>5, <1>6, <1>7

\* Of a read, its return value is the number of bytes it stored; a loop has
\* moved over as many as it stored, and read_all over the whole buffer.  What
\* read_all_timeout returns is that number narrowed to an int, so the number
\* itself when it is at most INT_MAX and not beyond.
THEOREM CountTheorem == Spec => []ReadAccounted
<1> QED BY AlwaysAccounted, AccountedCounts, PTL
-----------------------------------------------------------------------------
(* The calls implement ByteStream. *)

\* Nobody's bytes change but, perhaps, those of thread t.
LEMMA OthersReceived ==
  ASSUME Sound, Prefix, NEW t \in Threads, Apart(t),
         \A u \in Threads \ {t} : mem'[u] = mem[u]
  PROVE  Received' = [Received EXCEPT ![t] = [i \in 1..Count(t)' |-> mem'[t][i - 1]]]
<1>1. \A u \in Threads \ {t} :
        [i \in 1..Count(u)' |-> mem'[u][i - 1]] = [i \in 1..Count(u) |-> mem[u][i - 1]]
  BY ApartCounts
<1>2. Received' = [u \in Threads |-> [i \in 1..Count(u)' |-> mem'[u][i - 1]]]
  BY DEF Received
<1>3. Received = [u \in Threads |-> [i \in 1..Count(u) |-> mem[u][i - 1]]]
  BY DEF Received
<1> QED BY <1>1, <1>2, <1>3

LEMMA StartsBegin ==
  ASSUME Sound, Prefix, NEW t \in Threads, Starts(t), Apart(t)
  PROVE  Stream!Begin(t)
<1>1. \A u \in Threads \ {t} : mem'[u] = mem[u] BY DEF Starts, Sound, TypeOK
<1>2. Count(t)' = 0 /\ UNCHANGED <<inq, arrived, hup>> BY DEF Starts
<1>3. [i \in 1..Count(t)' |-> mem'[t][i - 1]] = <<>> BY <1>2
<1> QED BY <1>1, <1>2, <1>3, OthersReceived DEF Stream!Begin

LEMMA Joined ==
  ASSUME NEW f \in Seq(Nat), NEW g \in Seq(Nat), NEW h \in Seq(Nat),
         Len(h) = Len(f) + Len(g),
         \A i \in 1..Len(f) : h[i] = f[i],
         \A i \in 1..Len(g) : h[Len(f) + i] = g[i]
  PROVE  h = f \o g
<1>1. f \o g \in Seq(Nat) /\ Len(f \o g) = Len(h) OBVIOUS
<1>2. ASSUME NEW i \in 1..Len(h) PROVE h[i] = (f \o g)[i]
  <2>1. CASE i <= Len(f) BY <2>1
  <2>2. CASE i > Len(f)
    <3>1. PICK k \in 1..Len(g) : i = Len(f) + k
      <4>1. i - Len(f) \in 1..Len(g) /\ i = Len(f) + (i - Len(f)) BY <2>2
      <4> QED BY <4>1
    <3>2. (f \o g)[i] = g[k] BY <2>2, <3>1
    <3> QED BY <3>1, <3>2
  <2> QED BY <2>1, <2>2
<1> QED BY <1>1, <1>2, SeqEqual

LEMMA TakesTake ==
  ASSUME Sound, Prefix, NEW t \in Threads, NEW n \in Nat, Takes(t, n), n > 0, Apart(t)
  PROVE  Stream!Take(t)
<1> DEFINE c == Count(t)
           f == [i \in 1..c |-> mem[t][i - 1]]
           g == SubSeq(inq, 1, n)
           h == [i \in 1..c + n |-> mem'[t][i - 1]]
<1>1. /\ \A u \in Threads \ {t} : mem'[u] = mem[u]
      /\ \A a \in Addr : IF c <= a /\ a < c + n
                        THEN a - c + 1 \in 1..n /\ mem'[t][a] = inq[a - c + 1]
                        ELSE mem'[t][a] = mem[t][a]
      /\ c \in Nat
  BY TakesFacts
<1>2. /\ Count(t)' = c + n /\ c + n <= MaxSize /\ n <= Len(inq)
      /\ inq' = SubSeq(inq, n + 1, Len(inq)) /\ UNCHANGED <<arrived, hup>>
  BY DEF Takes
<1>3. /\ Len(inq) \in Nat /\ MaxSize \in Nat /\ inq \in Seq(Nat)
      /\ \A u \in Threads, a \in Addr : mem[u][a] \in Nat
      /\ \A a \in Addr : a \in Nat /\ a < MaxSize
      /\ \A i \in 1..Len(inq) : inq[i] \in Nat
  BY StateTypes
<1>4. Received' = [Received EXCEPT ![t] = h]
  BY <1>1, <1>2, OthersReceived
<1>5. Received[t] = f BY DEF Received
<1> HIDE DEF c
<1>6. \A i \in 1..c + n : i - 1 \in Addr BY <1>1, <1>2, <1>3 DEF Addr
<1>7. \A i \in 1..c : f[i] = mem[t][i - 1] /\ f[i] \in Nat /\ h[i] = f[i]
  <2> SUFFICES ASSUME NEW i \in 1..c
               PROVE  f[i] = mem[t][i - 1] /\ f[i] \in Nat /\ h[i] = f[i]
    OBVIOUS
  <2>1. i \in 1..c + n /\ i - 1 \in Addr /\ i - 1 < c BY <1>1, <1>6
  <2>2. mem'[t][i - 1] = mem[t][i - 1] BY <1>1, <2>1
  <2> QED BY <1>3, <2>1, <2>2
<1>8. \A i \in 1..n : /\ g[i] = inq[i] /\ g[i] \in Nat
                    /\ c + i \in 1..c + n /\ h[c + i] = inq[i]
  <2> SUFFICES ASSUME NEW i \in 1..n
               PROVE  /\ g[i] = inq[i] /\ g[i] \in Nat
                      /\ c + i \in 1..c + n /\ h[c + i] = inq[i]
    OBVIOUS
  <2>1. g[i] = inq[i] /\ g[i] \in Nat BY <1>2, <1>3
  <2>2. PICK a \in Addr : a = c + i - 1 BY <1>1, <1>6
  <2>3. c <= a /\ a < c + n /\ a - c + 1 = i /\ c + i \in 1..c + n BY <1>1, <2>2
  <2>4. mem'[t][a] = inq[i] BY <1>1, <2>3
  <2>5. h[c + i] = mem'[t][c + i - 1] /\ c + i - 1 = a BY <1>1, <2>2, <2>3
  <2> QED BY <2>1, <2>3, <2>4, <2>5
<1>9. Len(g) = n /\ g \in Seq(Nat) BY <1>2, <1>3
<1>10. f \in Seq(Nat) /\ Len(f) = c
  <2>1. \A i \in 1..c : mem[t][i - 1] \in Nat BY <1>7
  <2> QED BY <1>1, <2>1
<1>11. h = f \o g
  <2>1. \A i \in 1..c + n : mem'[t][i - 1] \in Nat
    <3>1. ASSUME NEW a \in Addr PROVE mem'[t][a] \in Nat
      <4>1. CASE c <= a /\ a < c + n
        <5>1. a - c + 1 \in 1..Len(inq) BY <1>1, <1>2, <1>3, <4>1
        <5> QED BY <1>1, <1>3, <4>1, <5>1
      <4>2. CASE ~(c <= a /\ a < c + n) BY <1>1, <1>3, <4>2
      <4> QED BY <4>1, <4>2
    <3> QED BY <1>6, <3>1
  <2>2. h \in Seq(Nat) /\ Len(h) = c + n BY <1>1, <2>1
  <2>3. \A i \in 1..Len(f) : h[i] = f[i] BY <1>7, <1>10
  <2>4. \A i \in 1..Len(g) : h[Len(f) + i] = g[i] BY <1>8, <1>9, <1>10
  <2> HIDE DEF f, g, h
  <2> QED BY <1>9, <1>10, <2>2, <2>3, <2>4, Joined
<1> HIDE DEF f, g
<1>12. n \in 1..Len(inq) BY <1>2, <1>3
<1> HIDE DEF h
<1> QED BY <1>2, <1>4, <1>5, <1>11, <1>12 DEF Stream!Take, g

LEMMA KindsStream ==
  ASSUME Sound, Sound', Accounted, NEW t \in Threads, Apart(t),
         Starts(t) \/ (\E n \in Nat : Takes(t, n)) \/ Still(t)
  PROVE  [Stream!Next]_(Stream!vars)
<1> USE DEF Accounted, Flow
<1>1. CASE Starts(t) BY <1>1, StartsBegin DEF Stream!Next
<1>2. ASSUME UNCHANGED <<inq, arrived, hup, mem>>, Count(t)' = Count(t)
      PROVE  UNCHANGED Stream!vars
  <2>1. \A u \in Threads : Count(u)' = Count(u) BY <1>2, ApartCounts
  <2>2. Received' = Received BY <1>2, <2>1 DEF Received
  <2> QED BY <1>2, <2>2 DEF Stream!vars
<1>3. CASE Still(t) BY <1>2, <1>3 DEF Still
<1>4. ASSUME NEW n \in Nat, Takes(t, n) PROVE [Stream!Next]_(Stream!vars)
  <2>1. CASE n > 0 BY <1>4, <2>1, TakesTake DEF Stream!Next
  <2>2. CASE n = 0
    <3>1. inq' = inq /\ UNCHANGED <<arrived, hup>> /\ Count(t)' = Count(t)
      <4>1. Count(t) \in Nat BY StateTypes DEF Prefix, Filled
      <4>2. SubSeq(inq, 1, Len(inq)) = inq BY StateTypes
      <4> QED BY <1>4, <2>2, <4>1, <4>2 DEF Takes
    <3>2. mem' = mem
      <4>1. /\ \A u \in Threads \ {t} : mem'[u] = mem[u]
            /\ \A a \in Addr : mem'[t][a] = mem[t][a]
        BY <1>4, <2>2, TakesFacts, StateTypes
      <4>2. mem'[t] \in [Addr -> Nat] /\ mem[t] \in [Addr -> Nat]
        BY DEF Sound, TypeOK
      <4>3. \A u \in Threads : mem'[u] = mem[u] BY <4>1, <4>2
      <4> QED BY <4>3 DEF Sound, TypeOK
    <3> QED BY <1>2, <3>1, <3>2
  <2> QED BY <2>1, <2>2
<1> QED BY <1>1, <1>3, <1>4

LEMMA StreamStep ==
  ASSUME Sound, Accounted, [Next]_vars
  PROVE  [Stream!Next]_(Stream!vars)
<1> USE DEF Accounted, Flow
<1>1. ASSUME UNCHANGED <<mem, frame, res>> PROVE UNCHANGED Received
  BY <1>1 DEF Received, Count, Moved
<1>2. CASE UNCHANGED <<inq, arrived, hup, frame, mem, res>>
  BY <1>1, <1>2 DEF Stream!vars
<1>3. CASE Arrive
  BY <1>1, <1>3 DEF Arrive, Stream!Next, Stream!Produce
<1>4. CASE Transmit BY <1>2, <1>4 DEF Transmit
<1>5. CASE HangUp
  BY <1>1, <1>5 DEF HangUp, Stream!Next, Stream!Close
<1>6. ASSUME NEW t \in Threads, Step(t) \/ Wait(t) PROVE [Stream!Next]_(Stream!vars)
  BY <1>6, StepKinds, NextSound, KindsStream DEF Next
<1> QED BY <1>2, <1>3, <1>4, <1>5, <1>6 DEF Next, Device, vars

LEMMA InitStream == Init => Stream!Init
<1> SUFFICES ASSUME Init PROVE Stream!Init
  OBVIOUS
<1>1. \A t \in Threads : Count(t) = 0 BY DEF Init, Count
<1>2. \A t \in Threads : [i \in 1..Count(t) |-> mem[t][i - 1]] = <<>> BY <1>1
<1>3. Received = [t \in Threads |-> <<>>] BY <1>2 DEF Received
<1> QED BY <1>3 DEF Init, Stream!Init

\* Callers that take pieces of one stream, and nothing else, is what the read
\* functions give: no byte is overwritten, skipped, counted twice or put in
\* two calls.
THEOREM StreamTheorem == Spec => ImplementsStream
<1>1. Sound /\ Accounted /\ [Next]_vars => [Stream!Next]_(Stream!vars)
  BY StreamStep
<1> QED BY InitStream, <1>1, AlwaysAccounted, PTL DEF Spec, ImplementsStream, Stream!Spec
-----------------------------------------------------------------------------
(* What the outcome of a timed call tells its caller. *)

\* The pieces that member functions are made of, and how they end.
LEMMA Pieces ==
  ASSUME Sound, NEW t \in Threads
  PROVE  /\ \A label : Goto(t, label) => res'[t] = Pending /\ pc'[t] = label
         /\ \A o : Leave(t, o) => res'[t] = o /\ pc'[t] = "idle"
         /\ \A op, buf, ms, left : Enter(t, op, buf, ms, left) =>
              frame'[t].op = op /\ frame'[t].ms = ms /\ UNCHANGED kernel
         /\ \A val : Select(t, val) => UNCHANGED frame /\ UNCHANGED kernel
<1>1. \A val : Select(t, val) => UNCHANGED frame /\ UNCHANGED kernel
  BY DEF Select, NextTimeval, Sound, TypeOK, Frames
<1> QED BY <1>1 DEF Goto, Leave, Enter, Sound, TypeOK

LEMMA LoopPiece ==
  ASSUME Sound, NEW t \in Threads, NEW n, NEW label, NEW val, Progress(t, n, label, val)
  PROVE  /\ frame'[t].op = frame[t].op /\ frame'[t].ms = frame[t].ms
         /\ frame'[t].size = frame[t].size
         /\ \/ res'[t] = Pending /\ pc'[t] = label
            \/ res'[t] = Returned(val) /\ pc'[t] = "idle"
<1>1. frame' = [frame EXCEPT ![t].buf = Advance(frame[t].buf, n)] BY DEF Progress
<1>2. Goto(t, label) \/ Leave(t, Returned(val)) BY DEF Progress
<1> QED BY <1>1, <1>2, Pieces DEF Sound, TypeOK, Frames

\* The outcomes that say that there was no more to read.
Short(t) ==
  \/ frame[t].op = "poll" /\ res[t].val = 0
  \/ frame[t].op = "read_timeout" /\ res[t].val = 0 /\ frame[t].size > 0
  \/ frame[t].op = "read_all_timeout" /\ Moved(t) < frame[t].size

OutOfTime(t) == Ended(t) /\ Short(t) /\ ~hup => frame[t].left = 0

LEMMA StepOutOfTime ==
  ASSUME EmptyRead = "Again", Sound, Calls, NEW t \in Threads, Step(t) \/ Wait(t)
  PROVE  OutOfTime(t)'
<1>1. ASSUME res'[t] = Pending \/ res'[t] = Threw PROVE OutOfTime(t)'
  BY <1>1 DEF OutOfTime, Ended, Pending, Threw
<1>2. ASSUME frame'[t].op \notin {"poll", "read_timeout", "read_all_timeout"}
      PROVE  OutOfTime(t)'
  BY <1>2 DEF OutOfTime, Short
<1>3. ASSUME NEW val, Select(t, val) PROVE OutOfTime(t)'
  <2>1. UNCHANGED frame BY <1>3, Pieces
  <2>2. CASE Goto(t, "read") \/ Leave(t, Threw) BY <1>1, <2>2, Pieces
  <2>3. CASE Expired(t) BY <2>1, <2>3 DEF OutOfTime, Expired
  <2> QED BY <1>3, <2>2, <2>3 DEF Select
<1>4. ASSUME NEW n \in Nat, n <= frame[t].buf.size, NEW label, NEW val,
             Progress(t, n, label, val), frame[t].op \notin {"poll", "read_timeout"}
      PROVE  OutOfTime(t)'
  <2> DEFINE b == Advance(frame[t].buf, n)
  <2>1. frame[t].buf \in Views BY DEF Sound, TypeOK, Frames
  <2>2. b \in Views /\ b.size \in Nat BY <1>4, <2>1, AdvanceView DEF Views
  <2>3. /\ frame' = [frame EXCEPT ![t].buf = b]
        /\ IF b.size > 0 THEN Goto(t, label) ELSE Leave(t, Returned(val))
    BY <1>4 DEF Progress
  <2> HIDE DEF b
  <2>4. frame'[t].op = frame[t].op /\ frame'[t].size = frame[t].size /\ frame'[t].buf = b
    BY <2>3 DEF Sound, TypeOK, Frames
  <2>5. CASE b.size > 0 BY <1>1, <2>3, <2>5, Pieces
  <2>6. CASE b.size = 0
    <3>1. Moved(t)' = frame'[t].size BY <2>4, <2>6, FrameTypes DEF Moved
    <3>2. frame'[t].size \in Nat BY <2>4, FrameTypes
    <3>3. ~Short(t)' BY <1>4, <2>4, <3>1, <3>2 DEF Short
    <3> QED BY <3>3 DEF OutOfTime
  <2> QED BY <2>2, <2>5, <2>6
<1>5. CASE Read(t) BY <1>2, <1>5, Pieces DEF Read, At
<1>6. CASE ReadAll(t) BY <1>2, <1>6, Pieces, LoopPiece DEF ReadAll, At
<1>7. CASE ReadTimeout(t)
  <2>1. ASSUME At(t, "read_timeout", "read"), UNCHANGED frame,
               NEW ret \in ReadResults(frame[t].buf), SysRead(t, ret),
               Leave(t, IF ret < 0 THEN Threw ELSE Returned(ret))
        PROVE  OutOfTime(t)'
    <3>1. ret \in Int BY <2>1, SysReadTypes DEF Sound
    <3>2. CASE ret < 0 BY <1>1, <2>1, <3>2, Pieces
    <3>3. CASE ret >= 0
      <4>1. res'[t] = Returned(ret) BY <2>1, <3>1, <3>3, Pieces
      <4>2. /\ frame[t].buf.data = 0 /\ frame[t].buf.size = frame[t].size
            /\ frame[t].size \in Nat /\ frame[t].op = "read_timeout"
        BY <2>1, FrameTypes DEF Sound, BufferInside, Calls, Behaved, OnceReads, At
      <4>3. ret = 0 => hup \/ frame[t].size = 0
        BY <2>1, <4>2 DEF ReadResults, Transfers
      <4>4. UNCHANGED hup BY <2>1 DEF SysRead
      <4> QED BY <2>1, <4>1, <4>2, <4>3, <4>4 DEF OutOfTime, Short, Returned
    <3> QED BY <3>1, <3>2, <3>3
  <2> QED BY <1>1, <1>3, <1>7, <2>1, Pieces DEF ReadTimeout
<1>8. CASE ReadAllTimeout(t)
  <2>1. \A ret \in ReadResults(frame[t].buf) : ret >= 0 => ret \in 0..frame[t].buf.size
    BY FrameTypes DEF ReadResults, Transfers
  <2> QED BY <1>1, <1>3, <1>4, <1>8, <2>1, Pieces DEF ReadAllTimeout, At
<1>9. CASE Write(t) BY <1>2, <1>9, Pieces, LoopPiece DEF Write, At
<1>10. CASE Poll(t)
  <2>1. CASE Readable /\ Leave(t, Returned(1)) /\ At(t, "poll", "poll") /\ UNCHANGED frame
    BY <2>1, Pieces DEF OutOfTime, Short, Returned, At
  <2>2. CASE Expired(t) /\ UNCHANGED frame BY <2>2 DEF OutOfTime, Expired
  <2> QED BY <1>1, <1>10, <2>1, <2>2, Pieces DEF Poll
<1>11. CASE InputWaiting(t) \/ OutputWaiting(t)
  BY <1>2, <1>11, Pieces DEF InputWaiting, OutputWaiting
<1>12. CASE Wait(t)
  <2>1. res[t] = Pending BY <1>12 DEF Wait, Calls, Behaved
  <2> QED BY <1>1, <1>12, <2>1 DEF Wait
<1> QED BY <1>5, <1>6, <1>7, <1>8, <1>9, <1>10, <1>11, <1>12 DEF Step

\* On a descriptor whose ::read fails rather than return nothing, as those that
\* CharacterDevice opens do, a timed call comes back short only when its time
\* is over, whatever other callers take in the meantime.
THEOREM ShortTheorem == ASSUME EmptyRead = "Again" PROVE Spec => []ShortMeansTimedOut
<1> DEFINE Late == \A t \in Threads : OutOfTime(t)
<1>1. Init => Late BY DEF Init, OutOfTime, Ended, Pending
<1>2. Sound /\ Calls /\ Late /\ [Next]_vars => Late'
  <2> SUFFICES ASSUME Sound, Calls, Late, [Next]_vars, NEW u \in Threads PROVE OutOfTime(u)'
    OBVIOUS
  <2>1. CASE UNCHANGED <<frame, res>> /\ (hup => hup')
    BY <2>1 DEF OutOfTime, Short, Ended, Moved
  <2>2. CASE Device \/ UNCHANGED vars
    BY <2>1, <2>2 DEF Device, Arrive, Transmit, HangUp, vars
  <2>3. ASSUME NEW t \in Threads, Step(t) \/ Wait(t) PROVE OutOfTime(u)'
    <3>1. CASE u = t BY <2>3, <3>1, StepOutOfTime
    <3>2. CASE u # t
      <4>1. frame'[u] = frame[u] /\ res'[u] = res[u] BY <2>3, <3>2, StepKinds DEF Apart
      <4>2. UNCHANGED hup BY <2>3, StepKinds DEF Starts, Takes, Still
      <4> QED BY <4>1, <4>2 DEF OutOfTime, Short, Ended, Moved
    <3> QED BY <3>1, <3>2
  <2> QED BY <2>2, <2>3 DEF Next
<1>3. Sound /\ Budget /\ Late => ShortMeansTimedOut
  <2> SUFFICES ASSUME Sound, Budget, Late, NEW t \in Threads,
                      Ended(t), Bounded(t), ~hup, Short(t)
               PROVE  frame[t].waited = frame[t].ms
    BY DEF ShortMeansTimedOut, Short
  <2>1. frame[t].left = 0 BY DEF OutOfTime
  <2>2. frame[t].waited \in Nat BY DEF Sound, TypeOK, Frames
  <2> QED BY <2>1, <2>2 DEF Budget
<1> HIDE DEF Late
<1> QED BY AlwaysAccounted, AlwaysBudget, <1>1, <1>2, <1>3, PTL DEF Spec, Accounted
-----------------------------------------------------------------------------
(* Why the loops end. *)

\* A step that goes on with a call uses some of it up.
Runs(t) == "idle" \notin {pc[t], pc'[t]} => Rest(t)' < Rest(t)

\* A loop that goes round again has moved at least one byte: only an empty
\* buffer, or a descriptor that says "nothing" for ever, gets a count of zero.
LEMMA RoundMoves ==
  ASSUME Sound, NEW t \in Threads, NEW ret \in Int, 0 <= ret, ret <= frame[t].buf.size,
         ret = 0 => frame[t].buf.size = 0,
         pc[t] \in {"read", "write"}, NEW label, NEW val, Progress(t, ret, label, val)
  PROVE  Runs(t)
<1> DEFINE b == Advance(frame[t].buf, ret)
<1>1. frame[t].buf \in Views /\ frame[t].buf.size \in Nat /\ frame[t].left \in Int
  BY FrameTypes DEF Sound, TypeOK, Frames
<1>2. b \in Views /\ b.size = frame[t].buf.size - ret
  BY <1>1, AdvanceView
<1>3. /\ frame' = [frame EXCEPT ![t].buf = b]
      /\ IF b.size > 0 THEN Goto(t, label) ELSE Leave(t, Returned(val))
  BY DEF Progress
<1> HIDE DEF b
<1>4. frame'[t].buf = b /\ frame'[t].left = frame[t].left
  BY <1>3 DEF Sound, TypeOK, Frames
<1>5. CASE b.size > 0
  <2>1. ret >= 1 BY <1>1, <1>2, <1>5
  <2>2. frame'[t].buf.size = frame[t].buf.size - ret BY <1>2, <1>4
  <2> QED BY <1>1, <1>4, <2>1, <2>2 DEF Runs, Rest
<1>6. CASE ~(b.size > 0) BY <1>3, <1>6, Pieces DEF Runs
<1> QED BY <1>5, <1>6

LEMMA StepRuns ==
  ASSUME EmptyRead = "Again", ~hup, Sound, NEW t \in Threads, Step(t) \/ Wait(t)
  PROVE  Runs(t)
<1>1. ASSUME NEW o, Leave(t, o) PROVE Runs(t) BY <1>1, Pieces DEF Runs
<1>2. ASSUME NEW op, NEW buf, NEW ms, NEW left, Enter(t, op, buf, ms, left) PROVE Runs(t)
  BY <1>2 DEF Enter, Runs
<1>3. ASSUME NEW val, Select(t, val) PROVE Runs(t)
  <2>1. CASE Goto(t, "read")
    <3>1. UNCHANGED frame /\ pc[t] = "select" /\ pc'[t] = "read"
      BY <1>3, <2>1, Pieces DEF Select
    <3>2. frame[t].buf.size \in Nat /\ frame[t].left \in Int
      BY FrameTypes DEF Sound, TypeOK, Frames
    <3> QED BY <3>1, <3>2 DEF Runs, Rest
  <2> QED BY <1>1, <1>3, <2>1 DEF Select
<1>4. ASSUME pc[t] = "read", NEW ret \in ReadResults(frame[t].buf), ret >= 0,
             NEW label, NEW val, Progress(t, ret, label, val)
      PROVE  Runs(t)
  <2>1. frame[t].buf.size \in Nat BY FrameTypes
  <2>2. ret \in Int /\ ret <= frame[t].buf.size BY <1>4, <2>1 DEF ReadResults, Transfers
  <2>3. ret = 0 => frame[t].buf.size = 0 BY <1>4, <2>1 DEF ReadResults, Transfers
  <2> QED BY <1>4, <2>2, <2>3, RoundMoves
<1>5. ASSUME pc[t] = "write", NEW ret \in WriteResults(frame[t].buf), ret >= 0,
             NEW label, NEW val, Progress(t, ret, label, val)
      PROVE  Runs(t)
  <2>1. frame[t].buf.size \in Nat BY FrameTypes
  <2>2. ret \in Int /\ 1 <= ret /\ ret <= frame[t].buf.size BY <1>5, <2>1 DEF WriteResults, Transfers
  <2> QED BY <1>5, <2>2, RoundMoves
<1>6. CASE Wait(t)
  <2>1. /\ frame' = [frame EXCEPT ![t].left = frame[t].left - 1,
                                  ![t].waited = frame[t].waited + 1]
        /\ UNCHANGED pc /\ frame[t].left > 0
    BY <1>6 DEF Wait
  <2>2. frame'[t].buf = frame[t].buf /\ frame'[t].left = frame[t].left - 1
    BY <2>1 DEF Sound, TypeOK, Frames
  <2>3. frame[t].buf.size \in Nat /\ frame[t].left \in Int
    BY FrameTypes DEF Sound, TypeOK, Frames
  <2> QED BY <2>1, <2>2, <2>3 DEF Runs, Rest
<1>7. CASE Read(t) BY <1>1, <1>2, <1>7 DEF Read
<1>8. CASE ReadAll(t) BY <1>1, <1>2, <1>4, <1>8 DEF ReadAll, At
<1>9. CASE ReadTimeout(t) BY <1>1, <1>2, <1>3, <1>9 DEF ReadTimeout
<1>10. CASE ReadAllTimeout(t) BY <1>1, <1>2, <1>3, <1>4, <1>10 DEF ReadAllTimeout, At
<1>11. CASE Write(t) BY <1>1, <1>2, <1>5, <1>11 DEF Write, At
<1>12. CASE Poll(t) BY <1>1, <1>2, <1>12 DEF Poll
<1>13. CASE InputWaiting(t) \/ OutputWaiting(t)
  BY <1>2, <1>13 DEF InputWaiting, OutputWaiting
<1> QED BY <1>6, <1>7, <1>8, <1>9, <1>10, <1>11, <1>12, <1>13 DEF Step

\* While the device is there and its empty reads fail, every step of a call that
\* goes on uses up bytes or time, whatever other threads and the device do
\* between its steps: no loop can go round for ever.
THEOREM RunDownTheorem == Spec => CallsRunDown
<1> DEFINE Run(t) == EmptyRead = "Again" /\ ~hup /\ "idle" \notin {pc[t], pc'[t]}
                      => <<pc[t], frame[t]>>' = <<pc[t], frame[t]>> \/ Rest(t)' < Rest(t)
           Down   == \A t \in Threads : Run(t)
<1>1. Sound /\ Calls /\ [Next]_vars => [Down]_vars
  <2> SUFFICES ASSUME Sound, Calls, [Next]_vars, NEW u \in Threads PROVE Run(u)
    OBVIOUS
  <2>1. CASE UNCHANGED <<pc, frame>> BY <2>1
  <2>2. ASSUME NEW t \in Threads, Step(t) \/ Wait(t) PROVE Run(u)
    <3>1. CASE u = t BY <2>2, <3>1, StepRuns DEF Runs
    <3>2. CASE u # t BY <2>2, <3>2, StepKinds DEF Apart
    <3> QED BY <3>1, <3>2
  <2> QED BY <2>1, <2>2 DEF Next, Device, Arrive, Transmit, HangUp, vars
<1>2. Spec => [][Down]_vars BY AlwaysAccounted, <1>1, PTL DEF Spec, Accounted
<1> QED BY <1>2 DEF CallsRunDown
-----------------------------------------------------------------------------
(* What a program with one caller may rely on. *)

Alone == \A t, u \in Threads : t = u

\* A timed call that goes on to read has something to read.
Promised(t) ==
  frame[t].op \in TimedOps /\ Bounded(t) =>
    res[t] # Threw /\ (pc[t] = "read" => Readable)

LEMMA ReadIsInt ==
  ASSUME Sound, NEW t \in Threads
  PROVE  \A ret \in ReadResults(frame[t].buf) : ret \in Int
BY FrameTypes DEF ReadResults, Transfers

LEMMA StepPromised ==
  ASSUME ~CanFail, Sound, NEW t \in Threads, Promised(t), Step(t) \/ Wait(t)
  PROVE  Promised(t)'
<1>1. ASSUME frame'[t].op \notin TimedOps PROVE Promised(t)'
  BY <1>1 DEF Promised
<1>2. ASSUME res'[t] # Threw, pc'[t] # "read" PROVE Promised(t)'
  BY <1>2 DEF Promised
<1>3. \A v : Returned(v) # Threw /\ Pending # Threw BY DEF Returned, Threw, Pending
<1>4. ASSUME NEW val, Select(t, val) PROVE Promised(t)'
  <2>1. UNCHANGED kernel BY <1>4, Pieces
  <2>2. CASE Readable /\ Goto(t, "read")
    BY <1>3, <2>1, <2>2, Pieces DEF Promised, Readable, kernel
  <2>3. CASE Leave(t, Returned(val)) BY <1>2, <1>3, <2>3, Pieces
  <2> QED BY <1>4, <2>2, <2>3 DEF Select
<1>5. ASSUME NEW n \in 0..MaxSize, NEW ms \in Timeouts, NEW op,
             Enter(t, op, MutableBuffer(0, n), ms, KernelMs(Timeval(ms))), Goto(t, FirstCall(ms))
      PROVE  Promised(t)'
  <2>1. frame'[t].ms = ms /\ res'[t] = Pending /\ pc'[t] = FirstCall(ms) BY <1>5, Pieces
  <2>2. ms >= 0 => FirstCall(ms) = "select" BY DEF FirstCall
  <2> QED BY <1>3, <2>1, <2>2 DEF Promised, Bounded
<1>6. ASSUME pc[t] = "read", frame[t].op \in TimedOps, Bounded(t),
             NEW ret \in ReadResults(frame[t].buf)
      PROVE  ret >= 0
  <2>1. Readable BY <1>6 DEF Promised
  <2>2. frame[t].buf.size \in Nat BY FrameTypes
  <2> QED BY <1>6, <2>1, <2>2 DEF ReadResults, Transfers, Readable
<1>7. CASE Read(t) BY <1>1, <1>7, Pieces DEF Read, At, TimedOps
<1>8. CASE ReadAll(t)
  BY <1>1, <1>8, Pieces, LoopPiece DEF ReadAll, At, TimedOps
<1>9. CASE ReadTimeout(t)
  <2>1. ASSUME At(t, "read_timeout", "read"), UNCHANGED frame,
               NEW ret \in ReadResults(frame[t].buf),
               Leave(t, IF ret < 0 THEN Threw ELSE Returned(ret))
        PROVE  Promised(t)'
    <3>1. CASE Bounded(t)
      <4>1. ret >= 0 BY <1>6, <2>1, <3>1 DEF At, TimedOps
      <4>2. ret \in Int BY <2>1, ReadIsInt
      <4> QED BY <1>2, <1>3, <2>1, <4>1, <4>2, Pieces
    <3>2. CASE ~Bounded(t) BY <2>1, <3>2 DEF Promised, Bounded
    <3> QED BY <3>1, <3>2
  <2> QED BY <1>4, <1>5, <1>9, <2>1 DEF ReadTimeout
<1>10. CASE ReadAllTimeout(t)
  <2>1. ASSUME At(t, "read_all_timeout", "read"), NEW ret \in ReadResults(frame[t].buf),
               \/ ret < 0 /\ Leave(t, Threw) /\ UNCHANGED frame
               \/ ret >= 0 /\ Progress(t, ret, FirstCall(frame[t].ms), ToInt(frame[t].size))
        PROVE  Promised(t)'
    <3>0. ret \in Int BY <2>1, ReadIsInt
    <3>1. CASE ret < 0 /\ UNCHANGED frame
      <4>1. ~Bounded(t) BY <1>6, <2>1, <3>0, <3>1 DEF At, TimedOps
      <4> QED BY <3>1, <4>1 DEF Promised, Bounded
    <3>2. CASE Progress(t, ret, FirstCall(frame[t].ms), ToInt(frame[t].size))
      <4>1. /\ frame'[t].op = frame[t].op /\ frame'[t].ms = frame[t].ms
            /\ \/ res'[t] = Pending /\ pc'[t] = FirstCall(frame[t].ms)
               \/ res'[t] = Returned(ToInt(frame[t].size)) /\ pc'[t] = "idle"
        BY <3>2, LoopPiece
      <4>2. frame[t].ms >= 0 => FirstCall(frame[t].ms) = "select" BY DEF FirstCall
      <4> QED BY <1>3, <4>1, <4>2 DEF Promised, Bounded
    <3> QED BY <2>1, <3>1, <3>2
  <2> QED BY <1>4, <1>5, <1>10, <2>1 DEF ReadAllTimeout
<1>11. CASE Write(t)
  BY <1>1, <1>11, Pieces, LoopPiece DEF Write, At, TimedOps
<1>12. CASE Poll(t)
  BY <1>1, <1>12, Pieces DEF Poll, At, TimedOps
<1>13. CASE InputWaiting(t) \/ OutputWaiting(t)
  BY <1>1, <1>13, Pieces DEF InputWaiting, OutputWaiting, TimedOps
<1>14. CASE Wait(t)
  <2>1. /\ frame' = [frame EXCEPT ![t].left = frame[t].left - 1,
                                  ![t].waited = frame[t].waited + 1]
        /\ UNCHANGED <<pc, res>> /\ pc[t] # "read"
    BY <1>14 DEF Wait
  <2>2. frame'[t].op = frame[t].op /\ frame'[t].ms = frame[t].ms
    BY <2>1 DEF Sound, TypeOK, Frames
  <2> QED BY <2>1, <2>2 DEF Promised, Bounded
<1> QED BY <1>7, <1>8, <1>9, <1>10, <1>11, <1>12, <1>13, <1>14 DEF Step

\* If no other thread reads and no system call fails, a timed read never throws
\* for want of the data that it waited for.
THEOREM WaitedTheorem == ASSUME Alone, ~CanFail PROVE Spec => []WaitedReadsSucceed
<1> DEFINE Inv == \A t \in Threads : Promised(t)
<1>1. Init => Inv
  <2>1. Init => \A t \in Threads : frame[t].op = "none" BY DEF Init
  <2> QED BY <2>1 DEF Promised, TimedOps
<1>2. Sound /\ Inv /\ [Next]_vars => Inv'
  <2> SUFFICES ASSUME Sound, Inv, [Next]_vars, NEW t \in Threads PROVE Promised(t)'
    OBVIOUS
  <2>1. CASE UNCHANGED <<pc, frame, res>> /\ (Readable => Readable')
    BY <2>1 DEF Promised, Bounded
  <2>2. CASE Device \/ UNCHANGED vars
    <3>1. CASE Arrive
      <4>1. Len(inq') = Len(inq) + 1 /\ Len(inq) \in Nat BY <3>1 DEF Arrive, Sound, TypeOK
      <4> QED BY <2>1, <3>1, <4>1 DEF Arrive, Readable
    <3> QED BY <2>1, <2>2, <3>1 DEF Device, Transmit, HangUp, vars, Readable
  <2>3. ASSUME NEW u \in Threads, Step(u) \/ Wait(u) PROVE Promised(t)'
    BY <2>3, StepPromised DEF Alone
  <2> QED BY <2>2, <2>3 DEF Next
<1>3. Inv => WaitedReadsSucceed BY DEF Promised, WaitedReadsSucceed
<1> HIDE DEF Inv
<1> QED BY AlwaysAccounted, <1>1, <1>2, <1>3, PTL DEF Spec

Stays(t) ==
  frame[t].op = "input_waiting" /\ Ended(t) /\ ~hup => res[t].val <= Len(inq)

LEMMA StepStays ==
  ASSUME Sound, Calls, NEW t \in Threads, Step(t) \/ Wait(t)
  PROVE  Stays(t)'
<1>1. ASSUME frame'[t].op # "input_waiting" PROVE Stays(t)'
  BY <1>1 DEF Stays
<1>2. CASE InputWaiting(t)
  <2>1. UNCHANGED kernel BY <1>2, Pieces DEF InputWaiting
  <2>2. res'[t] = Returned(Len(inq)) \/ res'[t] = Threw BY <1>2, Pieces DEF InputWaiting
  <2>3. Len(inq) \in Nat BY DEF Sound, TypeOK
  <2> QED BY <2>1, <2>2, <2>3 DEF Stays, Ended, Threw, Returned, kernel
<1>3. CASE Wait(t)
  <2>1. res[t] = Pending BY <1>3 DEF Wait, Calls, Behaved
  <2> QED BY <1>3, <2>1 DEF Wait, Stays, Ended, Pending
<1>4. ASSUME NEW val, Select(t, val), frame[t].op # "input_waiting" PROVE Stays(t)'
  BY <1>1, <1>4, Pieces
<1>5. CASE Read(t) BY <1>1, <1>5, Pieces DEF Read, At
<1>6. CASE ReadAll(t) BY <1>1, <1>6, Pieces, LoopPiece DEF ReadAll, At
<1>7. CASE ReadTimeout(t) BY <1>1, <1>4, <1>7, Pieces DEF ReadTimeout, At
<1>8. CASE ReadAllTimeout(t) BY <1>1, <1>4, <1>8, Pieces, LoopPiece DEF ReadAllTimeout, At
<1>9. CASE Write(t) BY <1>1, <1>9, Pieces, LoopPiece DEF Write, At
<1>10. CASE Poll(t) BY <1>1, <1>10, Pieces DEF Poll, At
<1>11. CASE OutputWaiting(t) BY <1>1, <1>11, Pieces DEF OutputWaiting
<1> QED BY <1>2, <1>3, <1>5, <1>6, <1>7, <1>8, <1>9, <1>10, <1>11 DEF Step

\* If no other thread reads, the input that input_waiting() counted is there
\* until its caller reads or the device goes away.
THEOREM StaysTheorem == ASSUME Alone PROVE Spec => []WaitingStays
<1> DEFINE Inv == \A t \in Threads : Stays(t)
<1>1. Init => Inv
  <2>1. Init => \A t \in Threads : frame[t].op = "none" BY DEF Init
  <2> QED BY <2>1 DEF Stays
<1>2. Sound /\ Calls /\ Inv /\ [Next]_vars => Inv'
  <2> SUFFICES ASSUME Sound, Calls, Inv, [Next]_vars, NEW t \in Threads PROVE Stays(t)'
    OBVIOUS
  <2>1. CASE UNCHANGED <<frame, res, inq, hup>> BY <2>1 DEF Stays, Ended
  <2>2. CASE Arrive
    <3>1. Len(inq') = Len(inq) + 1 /\ Len(inq) \in Nat BY <2>2 DEF Arrive, Sound, TypeOK
    <3>2. res[t].val \in Int BY DEF Sound, TypeOK
    <3> QED BY <2>2, <3>1, <3>2 DEF Arrive, Stays, Ended
  <2>3. CASE HangUp BY <2>3 DEF HangUp, Stays
  <2>4. ASSUME NEW u \in Threads, Step(u) \/ Wait(u) PROVE Stays(t)'
    BY <2>4, StepStays DEF Alone
  <2> QED BY <2>1, <2>2, <2>3, <2>4 DEF Next, Device, Transmit, vars
<1>3. Inv => WaitingStays BY DEF Stays, WaitingStays
<1> HIDE DEF Inv
<1> QED BY AlwaysAccounted, <1>1, <1>2, <1>3, PTL DEF Spec, Accounted
=============================================================================
