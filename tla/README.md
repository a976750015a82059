# cpp-periphery: models and proofs

cpp-periphery is a C++11 library of thin classes over Linux descriptors: byte
devices, serial ports, GPIO lines, memory-mapped registers, SPI and I2C. The
library has no threads, locks or queues of its own. What is hard about it lies
between a method and the kernel: methods made of several system calls, calls
that transfer less than they were asked to or fail in the middle, timeouts that
cover several waits, kernel state that other threads, other objects and other
processes share, and descriptors that must have exactly one owner.

## The system's parts

| part | state | operations | interacts with | what is hard |
|---|---|---|---|---|
| buffers (`buffer.hpp`) | address and size of a view | constructors, `+`, `+=`, `buffer(...)` for views, arrays, vectors, strings | every class that transfers bytes | moving past the end, limits above the size, views that outlive a container's elements |
| `CharacterDevice` | `m_fd`, opened with `O_NDELAY` | `read`, `read_all`, `read_timeout`, `read_all_timeout`, `write`, `poll`, `input_waiting`, `output_waiting` | kernel queues; other threads in the same `const` methods | short transfers, failures after part of the bytes, one timeout over several waits, two readers, a device that goes away |
| `Serial` | `fd_`; the port's settings in the kernel | the same, and `flush`; constructors that set rate, bits, parity, stop bits and handshake | the same; other objects and programs on the port | an empty port reads 0; draining the queue while others write; flags left over from before, or that change the bytes or need characters that are not set; drivers that cannot do what was asked |
| `GpioPin` | `m_fd`, line, recorded attributes | constructor, `reconfigure`, five setters, `get`, `set`, destructor | the chip, other pins, other processes that want the line | every change gives the line up and asks for it again; failure in between; reuse of descriptor numbers; polarity; outputs that let go of their line |
| `GpioChip` | `m_fd` | constructor, destructor | its pins, by `shared_ptr` | a constructor that fails after opening |
| `Mmio` | base, sizes, mapping | constructor, destructor, typed and bulk reads and writes, `set`, `clear` | the device, other threads | a constructor of three system calls, wrapping of the bounds check, read-modify-write |
| `Spi` | `m_fd`; settings in the device | constructor, getters and setters, `transfer`, printing | other handles on the device | read-modify-write of the mode, a constructor that fails half-way, torn printing, 32-bit length |
| `I2C` | `m_fd` | constructor, messages, combined `transfer` | the device on the bus, other masters and processes | several messages that must not be torn apart, 16-bit lengths, counts below those asked for |

`CharacterDevice` declares `flush()` and `write(const std::string&)`, which are
not defined anywhere, and `periphery.hpp` an exception nothing throws. The
programs under `src/test` drive hardware by hand and assert nothing.

What makes each part correct: a view never covers a byte its container does not
have; the reads of a device divide one stream of bytes between the callers,
losing, doubling and misplacing none, and tell each caller how many it has; a
timeout bounds the whole call and is not cut short; a write sends every byte
once and in order; a pin owns its handle, alone, reports what is in effect, and
its output carries what was asked for; a register access is refused exactly when
it leaves the region; a setter
changes the setting it is about and no other; a port is set as asked and leaves
bytes alone; a combined transfer reaches the cells it names; every open
descriptor has one object, also when constructors fail.

## The modules

| module | models | state | actions |
|---|---|---|---|
| `Buffer` | the two view classes and `buffer()` | - | operators, one for each member and family of overloads |
| `BufferViews` | a program that keeps views of one container | the container's kind, place, size and epoch; the views | `Make`, `AddTo`, `LimitTo`, `ConstOf`, `Move`, `Change` |
| `ByteStream` | abstract: one stream divided between callers | what is pending, what each call received | `Produce`, `Take`, `Begin`, `Close` |
| `CharacterDevice` | the methods, and the kernel as they use it | two queues; per thread: next system call, locals, buffer memory, outcome | one per method, with a disjunct per system call; `Wait`; `Arrive`, `Transmit`, `HangUp` |
| `Serial` | the methods of `Serial`, as an instance of `CharacterDevice` | the same | the same, and `Flush` |
| `Descriptors` | what the constructors and destructors that own a descriptor have in common | the process's table; per object: class, descriptor, stage | `Construct`, `Complete`, `Abandon`, `Destroy`, used by the classes |
| `SerialPort` | constructors and destructor of `Serial`; what a terminal does with its flags | the port's settings, the flags its driver cannot change | `OpenPort`, `SetPort`, `ClosePort`; `Stty` |
| `I2C` | constructor, destructor, messages, `transfer`; the device on the bus | the device's cells and pointer | `OpenBus`, `QueryFunctions`, `CloseBus`, `Transfer`; `OtherMaster` |
| `Devices` | composes the two with `CharacterDevice`'s and `GpioChip`'s constructors and destructors over one table | all of these | all of these, `OpenDevice`, `CloseDevice`, `OpenChip`, `QueryChip`, `CloseChip` |
| `LineLeases` | abstract: who has which line, and moves its voltage | owners, outputs, driven lines, voltages | `Acquire`, `Set`, `GiveUp`, `Take`, `Outside` |
| `Gpio` | `GpioPin` and the lines of a chip | per pin: members, pending request, outcome; descriptor table, foreign holders, driven lines, voltages | `Construct`, `Close` and `Request` (the halves of `reopen()`), the setters, `Get`, `SetValue`, `Destroy`; `Others`, `Outside` |
| `GpioCopies` | `Gpio` with the compiler's copy constructor | the same | adds `Copy` |
| `Spi` | the objects of a program on one SPI device | the device's settings, open descriptors; per object: life, current call, outcome | `Construct` and one action per ioctl of the constructor, `Destroy`, the setters, `Getter`, `Show`, `Transfer` |
| `Mmio` | a mapped region of memory, used by several threads | life, descriptor, mapped pages, memory; per thread its current call | `Open`, `Map`, `CloseMemory`, `Destroy`, `Read`, `Write`, `Modify` (set and clear), `ReadBlock`, `WriteBlock` |
| `*Proofs` | theorems on the `Spec` of `BufferViews` (`ViewProofs`), `CharacterDevice` (`CharacterDeviceProofs`, and `StreamProofs` on the bytes read), `Serial` (`SerialProofs`), `Devices`, `Gpio`, `Spi` and `Mmio` | | |
| `MC*` | values of the constants for TLC | | |

An operator that is used by no other, such as `TermiosNoOdd` before `Termios`,
is that definition with a slip in it; see the end of the section on the runs.

How the state corresponds to the code:

- **`CharacterDevice`**. `pc[t]` is the system call that thread `t` is about to
  make, `frame[t]` its arguments and locals: `buf` is the parameter that the
  loops move with `+=`, `left` the time that `tv` still holds, or the int that
  `poll()` was given. A step is one system call and the code up to the next.
  That is as fine as the interleaving gets: the methods touch nothing shared
  between two calls. `mem[t]` is the memory under the caller's buffer; bytes are
  named by their order of arrival, so that losing, doubling or swapping one
  shows. `sent`, `gone` and `waited` are history: no action reads them. The count
  that `read_all_timeout` returns is a `size_t` made an `int`, as the timeouts of
  `poll()` are (`ToInt`); how many bytes a loop has moved is kept beside it.
- **`Serial`** repeats `CharacterDevice` member by member in the source. The
  model follows: it is `CharacterDevice` with `EmptyRead <- "Zero"`, because
  `VMIN` and `VTIME` are left zero, and each method's lines are mapped.
- **`Gpio`**. `pin[p]` has the members; `todo[p]` holds the new attributes
  between the two halves of `reopen()`, and is empty otherwise. `handle` is the
  process's descriptor table: the lowest free number is used, as POSIX
  requires, which is what makes reuse dangerous. The flags of a request are the
  sets that each `to_request()` gives. `Leases` shows what others see of this:
  a line's owner is the pin that has a descriptor for it (`Owners`), and its
  `Outputs` are what it holds as one. Not every output drives its line: the
  kernel lets go of an open-drain line for the voltage 1 and of an open-source
  line for 0, and then anything else may move it (`Drives`, `Put`, `driven`,
  `Outside`). The branch of
  `to_request(Bias)` that does not compile against newer kernel headers is not
  modelled; the one that does refuses every bias but the default. `Blank` is
  what is recorded of an object that does not exist.
- **`Spi`**. The settings are in the device and the object has only its
  descriptor, so `dev` is shared by all `Handles`. A step is one ioctl.
  `call[s].data8` is the local of that name: the flags that `mode(m)` read and
  will write. The flags byte is the set of its bits that are 1. The record also
  has history: the settings when the call began, those it asks for, and whether
  another object has changed the device since (`calm`), and, for a call that
  prints, each value that a setting has had meanwhile (`during`); an idle object's
  record is forgotten when the device changes, which keeps the states few.
- **`Descriptors`** and **`Devices`**. An object is `opened` between `open()`
  and the call after it (`tcsetattr`, `I2C_FUNCS`, the chip's information), and
  `alive` when its constructor returned; other constructors run in between.
  `CharacterDevice` makes no second call. Of its access modes, the known ones
  are `KnownAccesses`; any other value throws before anything is opened.
- **`SerialPort`**. A flag word of `struct termios` is the set of its flags,
  and a `Bxxx` code is named by its rate. The settings are the port's, not the
  descriptor's. `args` are the constructor's arguments until it has set them;
  `asked` is history, the arguments of the constructor that set the port last,
  if no other program (`Stty`) has changed it since. `tcsetattr()` succeeds if
  it could do anything at all, so a driver may leave flags as they were: those
  in `stuck`. `memset()` clears `c_cc` as well as the flags, so that the record of
  the port's settings has the characters VSTART and VSTOP, 0 for "disabled".
  `LineRate` to `Echoed` say what a terminal does with flags and characters.
- **`I2C`**. The device is a memory with a pointer, like the EEPROM that
  `test-i2c.cpp` uses: a written message moves the pointer and stores what
  follows, a read one reads from the pointer on. A transfer is one step, as the
  bus is held throughout. Lengths are cut as the assignment to a `__u16` cuts
  them. The ioctl may stop after some messages and return a lower count, which
  the code takes for success. `last` is the history of the last step.
- **`CharacterDevice` and `ByteStream`**. `Received` is what each call's buffer
  holds up to the count of what it has moved.
- **`Mmio`**. The constructor's `open`, `mmap` and `close` are a step each, with
  their error paths; `mapped` are the bytes of the pages that `mmap` and `munmap`
  make of a length. `mem` is the set of the bits that are 1, so that a register is a
  part of it and the byte order does not show. `offset` is shifted as in the
  code, in arithmetic that wraps at `SizeMax1`. `set` and `clear` are two steps,
  `memcpy` one for each byte, in any order. An access to bytes that are not
  mapped ends the process (`life = "killed"`).

The kernel is not in the repository. Its part is modelled from how the code
uses it and marked external in the map: `ReadResults`, `WriteResults`, `Wait`,
`HangUp`, `Grantable` and the like. Where the kernel may choose, so does the
model: how many bytes a call transfers, whether it fails, whether a hang-up
discards the input. The one choice that is fixed is Linux's: `select()` leaves
in its `timeval` the time that is left.

## The runs

| run | instance | shows |
|---|---|---|
| `Views` | two views, four kinds of container, up to 2 elements of 1 or 2 bytes, one change | no derivation leads outside, widens, or loses `const` |
| `SoleCaller` | one thread with every method, buffers of 0 to 4 bytes around an `IntMax` of 3, five timeouts, no call fails, the device may go away | announced input is there; no call blocks beyond its timeout, returns short before it, or leaves its buffer; counts are what an int keeps of the true ones; every round of a loop uses up bytes or time; writes are exact; bounded calls end, but for one loop after a hang-up |
| `SharedPort` | two threads with every method of a serial port, one timeout, 2 arrivals, output queue of 2, failures and hang-up | every byte is in one place and in order, and `ByteStream` is implemented, although an empty port reads as nothing; counts are true; writes go out whole; `flush` drains |
| `Pins` | two pins, two lines, two descriptor numbers, nine combinations of attributes, failing requests | handles are owned, not leaked; reports are true; what is driven is as asked; `LineLeases` is implemented |
| `SharedSpi` | two objects, two modes, two orders, two speeds, every ioctl may fail | undisturbed calls are exact; a disturbed `mode` loses flags only, and only those set meanwhile; a printed line shows values that were in force; no descriptor leaks |
| `Registers` | two threads, 2 bytes of one bit on either side of a page boundary, accesses of 1 and 2 bytes, blocks of 0 and 2, an offset that wraps, every system call may fail | the bounds check refuses nothing inside and lets only accesses through whose sums wrap; undisturbed calls are atomic; no failing constructor leaks |
| `Devices` | two objects of any class, two descriptor numbers, every value of every argument of a port, a device of two cells, every call may fail | descriptors have one object each; the port is as asked and leaves bytes alone; a combined transfer reaches its cells whoever else uses the bus; a length that is cut changes nothing behind it |
| `HangUpSpins` | one thread, hang-up | **violation**: `read_all_timeout` never returns |
| `CopiedPins` | two pins, copying | **violation**: a pin drives another pin's line |
| `BitOrderRead` | one object, nothing fails | **violation**: `bit_order()` says MSB first of a device set to LSB first |
| `XonXoff` | one port | **violation**: a port opened with XON/XOFF has no byte that stops it |
| `OffsetsWrap` | one thread, two offsets that wrap | **violation**: an offset near `SIZE_MAX` passes the bounds check |

The five violations are described, with the lines they contradict, under
"findings" in `PROJECT.json`. What holds where the cause is absent is checked
too: that calls end (`CallsEndOrSpin`) in `SoleCaller`, ownership in `Pins`, every getter but
that of the order in `SharedSpi`, the rest of a port's settings in `Devices`
(`SettingsAsAsked`), and the check for offsets whose sums do not wrap in
`Registers`.

Known defects that have no run of their own, because a property of a passing run
says what the code does instead, or because they are outside of the models:

- Input parity checking goes with `ISTRIP` (`serial.cpp:47`), so a port with eight
  data bits and parity gives seven. `BytesUnchanged` excepts exactly that bit.
- `read_all_timeout` narrows its count to an `int` (`chardevice.cpp:218`,
  `serial.cpp:302`): beyond `INT_MAX` bytes it is another number, or negative.
  `ReadAccounted` says that the number is what an `int` keeps of the count.
- Offsets whose sums wrap pass the checks of every read and write of `Mmio`
  (`mmio.cpp:70`, `:78`, `:88`, `:96`): the bounds check is exact for all others
  only. `OffsetsWrap` shows one; `RegionExact` names them.
- `open("/dev/mem", O_RDWR, O_SYNC)` passes a flag where the mode goes
  (`mmio.cpp:24`), and `O_SYNC` has no effect. Caching is not in the model.
- A length of 2^32 or more is narrowed by `Spi::transfer` (`spi.cpp:187`), and one
  of 65536 or more by an I2C message (`i2c.cpp:113`), and the calls return.

Bounds. In `SharedPort`, `MaxSize` 2 gives a loop a short transfer and a second
round, and 2 arrivals are as many bytes as one caller takes. Its one timeout can be waited
for; without one, the timed reads take the same steps as the others. `MsPerSec` stands for 1000
and `IntMax` for `INT_MAX`: with 2 and 3 a timeout of 3 is longer than a second,
4 is negative and 8 is zero as an int, so that both conversions have all their
cases, and a buffer of 4 in `SoleCaller` has a count that an int does not hold; the
proofs are about every value of both. A third thread would add
nothing that two do not have to each other, since threads meet in the queues
only. Two descriptor numbers for two pins are the smallest table in which a
number is reused by the other pin; the nine combinations are chosen so that
every setter has somewhere to go, one is refused, and an output of each drive mode
is asked for both voltages. `MaxEpoch` 1 separates views made before and
after a change. In `SharedSpi` the
two modes share no bit, so that a mode is only right if the other one's bit is
cleared; lengths are narrowed at 4 instead of 2^32. In `Registers` one bit a
byte is enough, since `&`, `|` and `~` do not mix bits; the region is the last byte of one page of 4 and the first of the next, so that
it is not where the mapping starts and an access may be one byte too long. With
a `size_t` of 16 values the check's second sum wraps for offset 12, which is
then the byte before the mapping; in `OffsetsWrap` the first sum does for offset
14, a byte of the first page that lies before the region. In `Devices`, `SomeRequests` has every value of each argument
and an invalid one of each, as arguments do not mix in the flags; `Drivers` are
one that can do everything and one without RTS/CTS; `Probes` has the bytes that
some flag treats specially, and both sides of the eighth bit. `LenLimit` 4
stands for 2^16, `KernelMax` 2 for the 8192 bytes and `KernelMsgs` 2 for the 42
messages that the kernel takes: so there is a length above the one but below
the other, lengths that are cut to 0 and to 1, and one message too many. Two
cells tell the named one from the other. Symmetry is used over threads, slots,
pins, lines and objects, and never in a run with a liveness property.

Deadlock. `SoleCaller`, `HangUpSpins` and `SharedPort` do not
check for it: nothing more has to arrive, and a `poll` without a timeout or a
`flush` of a port that does not send may block for ever. Nor do `Registers` and
`OffsetsWrap`: the process may have ended.

Fairness. Only `FairSpec` of `CharacterDevice` has any: a call that has begun
goes on while it can (the scheduler runs the thread), and time passes for a
blocked one. Nobody has to call and nothing has to arrive or be sent. A system
call that is not blocked returns, so weak fairness is enough.

Each property of a passing run is also checked against a mutant of the model,
a plausible slip in the code (listed in `PROJECT.json`), under which TLC finds
it violated.

## The proofs

All of it is checked by TLAPS and rests on the assumptions on constants, which
name the constants' types, and on what a theorem itself assumes. Two of the
assumptions say a little more: `SerialPortAssumption` that a request has the
five arguments of the constructor and that `Drivers` lack RTS/CTS at most,
`I2CAssumption` that a message is of bytes that name a cell. Threads, objects,
pins, lines, sizes, timeouts, numbers of arrivals, attributes, descriptor
numbers, bases and page sizes are arbitrary.

`ViewProofs`:

- `SplitMeets`: the front of a view and the rest meet, and are all of it.
- `InsideTheorem`, `WidensTheorem`, `SplitTheorem`: `ViewsInside`,
  `NeverWidens` and `SplitExact` of `BufferViews`. The invariant adds to
  `ViewsInside` that no view is of a later epoch than the container (`Dated`),
  without which a change could make an old view count as valid.

`CharacterDeviceProofs`:

- `AdvanceComposes`: moving a view twice is moving it by the sum.
- `TypeAndBufferInvariant`: `Spec => [](TypeOK /\ BufferInside)`. `BufferInside`
  alone is not inductive: that a read stays inside the buffer needs the result
  to be bounded by the size that was passed, and that a blocked call's `left` is
  a natural number. The invariant is their conjunction, `Sound`; the lemmas
  on `Advance` do the loop step.
- `TimeoutTheorem`: `TimeoutRespected`. The strengthening is `Budget`:
  for a call that honours its timeout, `left + waited` is the timeout. It is
  established by `TimevalExact` (splitting into seconds and microseconds loses
  no millisecond) and `ToIntExact` (no timeout up to `IntMax` changes), and kept
  because a further `select()` is given what is left.
- `WriteTheorem`: `WriteExact`. The strengthening `Written` says of
  every call to `write` that the addresses sent are those moved over, in order.

`StreamProofs` first sorts every step of a thread into three kinds: it `Starts`
a call, `Takes` n bytes from the queue to the end of what the call has, or
leaves the stream `Still` (`StepKinds`). The first four theorems never look at a
method again.

- `BytesTheorem`, `PrefixTheorem`, `CountTheorem`: `BytesConserved`,
  `PrefixInOrder`, `ReadAccounted`. The invariant `Accounted` says that the
  queue rises, that bytes outside it are older than all in it, that each buffer
  is filled exactly up to its call's count, in rising order, and that no byte is
  in two places or in none.
- `StreamTheorem`: `Spec => ImplementsStream`. `Starts` is `Begin`, `Takes` of
  some bytes is `Take`, `Arrive` is `Produce`, `HangUp` is `Close`; all else
  stutters.
- `ShortTheorem`: `ShortMeansTimedOut`, if `::read` on an empty queue fails,
  as it does for these descriptors but not for a port's.
- `RunDownTheorem`: `CallsRunDown`, without fairness the half of termination that
  is the code's own, while the device is there and empty reads fail: a loop that goes round has moved a byte (`RoundMoves`), one
  that waits has less time left, and no other thread gives either back. That a
  thread takes its steps at all is left to `CallsEndOrSpin`.
- `WaitedTheorem`: `WaitedReadsSucceed`, if there is one thread and no system
  call fails; `StaysTheorem`: `WaitingStays`, if there is one thread. Both are
  false with two readers, one of whom may take what the other waited for.

`SerialProofs` has no argument of its own about the copied methods: it takes an
instance of `StreamProofs` with `EmptyRead <- "Zero"`. `SameValues` and
`SameParts` say that the operators of that instance and of `Serial` are the
same, and `PortNext` that a step of `Serial` is one of that instance or a
`Flush`. Every lemma about a step of `CharacterDevice` then holds of a port, and
what is left is that `Flush` keeps each part of the invariant (`FlushSound`,
`FlushBudget`, `FlushWritten`, and `FlushKinds`, by which it starts a call or
leaves the stream still). `PortInv` is the four invariants above and `Drains`.

- `PortTypes`, `PortBytes`, `PortOrder`, `PortCounts`, `PortTimeouts`,
  `PortWrites`, `PortStream`: `TypeOK`, `BytesConserved`, `PrefixInOrder`,
  `ReadAccounted`, `TimeoutRespected`,
  `WriteExact` and `ImplementsStream` of a port. `ShortTheorem` and
  `RunDownTheorem` assume that empty reads fail, and have no counterpart.
- `PortFlushes`: `FlushDrains`. The invariant `Drains` says that a thread whose
  last call was a `flush` that returned has no byte in the output queue; others
  only take bytes out of the queue or put in their own.

`GpioProofs`, on `Sound`: the types, where a pin is in its life (`Staged`: one
that is between the halves of `reopen()` has no handle), that the kernel gives a
line to one consumer (`Exclusive`), and the three properties that depend on each
other:

- `GpioTypeTheorem`, `HandleTheorem`, `LeakTheorem`, `RecordedTheorem`: they
  follow from `Sound`. What a new handle does not have to fear is that its
  number is still some pin's: `NoHandleLeaked` and `HandleOwned` say
  together that numbers in use and numbers in pins are the same.
- `LevelTheorem`: `LevelAsAsked`, with `Sound` by its side. It is about the lines
  that are driven, and says which outputs drive theirs.
- `LossTheorem`: `LostOnlyByThrowing`. `LeasesTheorem`: `ImplementsLeases`,
  where giving up a line is `GiveUp`, a granted request `Acquire`.

`SpiProofs`: `ExactTheorem`, `DescriptorTheorem`, `PrintTheorem`, `LostTheorem`,
for `CallsExact`, `NoDescriptorLeaked`, `PrintedInForce`, `LostUpdatesBounded`.
The invariant says how far each call is (`Located`), that the byte `mode(m)` is
about to write was made from flags that it read (`Prepared`), and that a call
nobody disturbed knows the device's settings (`Tracks`). Of a call that prints it
says that what it has read is among what was in force since it began (`during`).
Getters of the bit order are excepted by name: they always give MSB first.

`MmioProofs`:

- `RegionTheorem`: `RegionExact`. The arithmetic is `CheckExact`: for
  sums that do not wrap, the check made from the start of the page passes
  exactly what lies in the region, and the pages that were mapped cover it. The
  theorem says the same of every offset: no access inside the region throws, and
  one outside throws or is one of those whose sums wrap, of which it says nothing
  more, as the code lets some of them through (`OffsetsWrap`). The
  invariant `Checked` adds the types of the calls, so that the second half of
  `set` or of a block, which makes no check of its own, keeps what the first
  half established.
- `AtomicTheorem`: `CallsExact`. The strengthening `Atomic` says of a call on
  its way that what it will write is what it should, and of a block that the
  bytes copied so far agree on both sides.
- `LeakTheorem`: `NothingLeaked`. The invariant says what is open and mapped
  between the three calls of the constructor; `RoundedUp` that what `munmap` gives
  back is what `mmap` took, and that it covers the region.

`DevicesProofs`:

- `OwnedTheorem`: `DescriptorsOwned`. The strengthening `Owned` adds that an
  object in no stage has no number and one in any stage a class.
- `SettingsTheorem`, `BytesTheorem`: `SettingsAsAsked` and `BytesUnchanged`, for
  every byte and all valid arguments. `PortInv` says that constructors go on
  with valid arguments only and that the port has the flags of `Termios`
  but for those the driver cannot change, of which RTS/CTS is assumed to be the
  only one (`SerialPortAssumption`). Of XON/XOFF the theorems state what the code
  leaves: no character is set that would stop a line, so every byte passes.
- `NarrowedTheorem`, `RegisterTheorem`: `NarrowedFront` and `RegisterAccess`, for
  messages and devices of any size. `BusInv` says that the device is a memory
  with a pointer into it and that the last transfer kept its vectors. What a
  transfer does is the recursive function `Served` over its messages, so facts
  about it need induction: `NatSetInduction` is induction over a set of numbers
  (from `WFMin`, and so without an operator for a parameter), and with it
  `StagesExist` shows that the recursion defines a function and `ServedAll` that
  each stage leaves a memory, a pointer, and for every message what it sends
  (`ServedTo`; `ServeOne` is the step). `ServeWritten` and `ServeReadSends` say
  where one message's bytes go and come from; `CellsApart` that two bytes of a
  message that fits the device never meet in one cell.
- `DevicesTypeTheorem`: `TypeOK`, from `Owned`, `PortInv` and `BusInv`.

Model-checked only: `CallsEndOrSpin`, which needs fairness and `ENABLED`; and
the properties of the runs that expect a violation. Every other property of a
run is the statement of a theorem. The other way round, some theorems are about
more than a run checks: `BytesConserved`, `PrefixInOrder` and `ImplementsStream`
are run for a port only, where an empty read gives 0, and `TypeOK` and
`TimeoutRespected` for the other devices only; `CallsRunDown`, `BufferInside`
and `ShortMeansTimedOut` are run with one caller and proved for any number.

## Not modelled, and the plan

- The kernel's side of a transfer over SPI (what is shifted in and out), and
  what a program does with `Mmio::ptr()`, past every check.
- What happens to output still queued when a port is set: `TCSANOW` changes the
  settings under it. The code makes no attempt to wait, and promises nothing.
- The compiler's copies of a `GpioChip` (`gpio.hpp:21`): as for pins, the
  declarations that forbid them are commented out, and two copies would close
  one number. `CopiedPins` shows what follows from that where it matters more.
- How objects are worded when printed, numbers of lines, labels, the wording of
  errors.
- `periphery.hpp`, the demonstration programs and the build have no logic of the
  library in them.

Left to do: the safety half of the spinning loops (what a hung-up loop may still
change); and what `RegisterAccess` leaves to transfers of more than two messages,
now that `ServedAll` holds of any number.
