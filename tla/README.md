# TLA+ specification of the XDP experiment

The repository captures packets on a network interface with an XDP program in
the kernel (`xdp_prog.c`), ships a record of each through a BPF ring buffer, and
hands it, wrapped in an `XdpData`, to a C++ callback (`PacketHandler`).
`XdpMonitor` loads, attaches, polls, detaches and cleans up. The specification
covers the lifecycle of the monitor, the ring between kernel and application,
the header walk of the XDP program, the way of a packet's content from the wire
to the application's counters, the command line of the two example programs, and
how the parts work together.

## 1. Inventory

| Component | State | Operations | Interacts with |
|---|---|---|---|
| XDP capture program, `xdp_prog.c` | none of its own; one invocation per frame and CPU | `xdp_capture_packet`: bounds checks, ports, reserve, fill, copy payload, submit | the ring (reserve/submit); runs when it is attached to the interface |
| Ring buffer `captured_packets_ringbuf` (1 MiB), kernel and libbpf | slots, busy bits, producer and consumer position | reserve, submit, poll, release | written by several CPUs, read by one consumer |
| `struct xdp_packet`, `packet.h` | 159 packed bytes, network byte order | — | the only data both sides share |
| `XdpData` | owned, host-order copy of a record | constructor, `ip_protocol_name`, `payload_hex_dump` | built in the ring callback |
| `XdpMonitor` | interface index, BPF object, program, map, consumer, program descriptor; one stop flag per process | `install_signal_handlers`, `run` (resolve, load, find, attach, open, poll), `poll_ring_buffer_once`, destructor (detach, free, close) | kernel objects, the interface's single XDP slot, which it shares with other processes, signals, the handler |
| `PacketHandler` | the user's | `on_packet_arrived` | called from inside `ring_buffer__poll` |
| Example programs, `main.cpp`, `AppIntegrationExample.cpp` | command line; counters per protocol | `main`, `ingest_packet`, `print_summary` | own handler and monitor |
| Build, `CMakeLists.txt` | — | — | not modelled |

What makes each correct:

- *XDP program*: no read behind `data_end` for any frame, whatever its length
  fields say; the payload of a record is the data behind the headers, complete
  or truncated at 128 bytes.
- *Ring and callback*: the callback gets the captured packets in order, each
  once and whole, without bytes of an earlier user of the slot.
- *Record and XdpData*: the handler sees the numbers that were on the wire, on
  machines of either byte order, and payload bytes of this packet only.
- *Example programs*: each record is counted once under its own protocol; the
  two parsers understand the same documented command line.
- *XdpMonitor*: whatever fails and whenever a signal comes, everything acquired
  is given back, nothing is used after it was closed, no failed set-up step
  ends in a result of 0, and a stop request leads to the exit. On a shared interface a monitor touches only its own program.
- *Together*: what is captured reaches the handler.

Hard to test: interleavings of CPUs and the consumer in the ring; slot reuse; a
signal at each point of `run()`, in particular around the wait; every set-up
step failing; retries on the same object; two processes on one interface; a
killed process, whose program stays attached; the end of polling with records
still in the ring. `PROJECT.json` lists these hazards with their lines and the
properties that cover them.

## 2. Modules

| Module | Models | Extends / instantiates |
|---|---|---|
| `CaptureSessions` | what class `XdpMonitor` promises to those who share an interface | — |
| `XdpMonitor` | class `XdpMonitor`, signal handler, several processes on one interface, kill and restart | `CaptureSessions` (refinement) |
| `PacketChannel` | what the ring promises: a bounded FIFO of whole records | — |
| `CaptureRing` | several CPUs running the XDP program, ring slots, callback | `PacketChannel` (refinement) |
| `XdpSystem` | one monitor process with traffic | extends `XdpMonitor`, instantiates `PacketChannel` |
| `FrameCapture` | `xdp_capture_packet` from frame to record, one frame after the other through a slot that is reused | — |
| `PacketPath` | record to `XdpData`, hex dump, `AppPacketView`, the application's counters | extends `FrameCapture` |
| `CommandLine` | `args::parse` and the argument loop of the integration example | — |
| `XdpMonitor_proofs`, `XdpSessions_proofs`, `CaptureRing_proofs`, `FrameCapture_proofs`, `PacketPath_proofs`, `XdpSystem_proofs`, `CommandLine_proofs` | theorems | extend their module; `XdpSessions_proofs` extends `XdpMonitor_proofs`, `PacketPath_proofs` and `XdpSystem_proofs` also the proofs of the module theirs extends |
| `MCXdpMonitor`, `MCCaptureRing`, `MCXdpSystem`, `MCFrameCapture`, `MCPacketPath` | constants of the instances | extend their module |

`XdpSystem` uses the channel instead of the ring because the ring implements
the channel (run `ring`, theorem `RingImplementsChannel`).

### XdpMonitor

| Specification | Code |
|---|---|
| `pc[p]` | position in `main`, `run()`, `poll_ring_buffer`, the destructor |
| `ifindex`, `obj`, `fd`, `ring` | `interface_index_`, `bpf_object_`, `xdp_program_fd_`, `ring_buffer_`; an object, a program and a consumer are named by the `run()` that opened them |
| `objects`, `rings` | what the process really has open, so that leaks and uses after close are visible |
| `stop` | `stop_monitoring_requested`, never reset |
| `code` | the result of `run()` |
| `slot` | the XDP program attached to the interface; outlives processes |
| `env` | chosen once: who drives the monitor and which calls may fail |

Each action is one method or, for `ring_buffer__poll`, one part of it:
`"call"` is the window before `epoll_wait` sleeps, `"wait"` the sleep, `"drain"`
the callbacks. `env.client = "main"` calls `run()` once and leaves the scope, as
both example programs do; `"library"` may call `run()` again, call
`poll_ring_buffer_once()` and destroy the monitor at any time, and may give the
monitor a thread of its own, as the repository's README suggests for a GUI: a
signal then sets the flag without interrupting the wait. A process can die at any
point (`Kill`): by SIGKILL, or by the abort that an exception leaving
`on_packet_arrived` ends in.

From the kernel and libbpf the model takes: with
`XDP_FLAGS_UPDATE_IF_NOEXIST` an attach is refused when any program is attached;
a detach in generic mode removes whatever generic-mode program is attached and
leaves a driver-mode one alone; interface index 0 does not exist; the death of a
process closes descriptors and leaves the program attached; `epoll_wait` returns
`-EINTR` after a handler has run; descriptors of an object stay valid until it
is closed. Other tools ask for a free slot, as `ip link` does without `-force`, and are
assumed to remove no program but their own. The kernel would let a tool that
detaches as monitors do take a monitor's program off, and what is said about a
program that stays on the interface (`ListensToOwnProgram`, the guard of `Open` in
`CaptureSessions`, delivery in `XdpSystem`) holds only without such a tool.
A program that is still on the interface when the object is closed is
kept alive by the kernel and is what `NoStrayProgram` is about.

Finding 0 as an interface index sets `interface_index_` to 0, and a refused
attach leaves the descriptor set: the model keeps both, because the guard of
`detach_xdp_program` depends on them.

### CaptureSessions

The same lifecycle as the others on the interface see it: the phase of each
session, who has a consumer, whose program is on the interface, and whether the
interface is free. Its guards are the promises. A session takes the interface
only when it is free (`Attach`); it begins to poll only behind a program of its
own, or after another process may have detached something (`Open`); it never
polls behind a set-up that failed (`Fail`); the end of polling may be called a
success or a failure (`Stop`: the documentation asks for a failure after a failed
poll, the code reports none); it leaves without a consumer and
without its program on the interface, unless `run()` was called again or the
kernel refused the detach (`Leave`). A killed process may leave its program behind
(`Die`), which is foreign to its next session (`Restart`).

The mapping is in `XdpMonitor`: `Phase(p)` from the place of the process and the
result of its `run()`, the other variables from members and slot. The set-up steps
are one phase, the loop another, and `poll_ring_buffer_once()` and the object with
its descriptors are not visible.

### CaptureRing and PacketChannel

A record is its metadata, abstracted to the frame they were read from, a count
and an array of bytes, each abstracted to the frame it was copied from; that is
enough to tell whether anything of an earlier record or a half-written record is
handed out. `Reserve`, `FillRecord`, `LoadBytes` and `SubmitRecord` are steps of
their own, so that CPUs interleave with each other and with the consumer.
`HandleRingbufSample` includes the test of the record's size, which is that of
`struct xdp_packet` because both sides are built with one `packet.h`, and the
constructor of `XdpData` with its own bound on the payload. The test of the handler
against null is left out: the context is the address of `packet_handler_`, a
reference. `ReleaseSlot` is
libbpf moving the consumer position after the callback has returned. Slots are
whole records: the real ring is laid out in bytes, so that a record may straddle
two earlier ones; the exclusion argument is the same.

The refinement maps the channel's queue to the records not yet handed out
(`pending`) and its output to the last element of `handed`; a slot that was
handed out and is not released only makes the ring refuse earlier, which is a
frame that is not captured.

### XdpSystem

Actions of `XdpMonitor` conjoined with the queue: a frame is captured while a
program of a monitor is on the interface and there is room; `epoll_wait` may
return as soon as a record is reserved and does not sleep over one that is
submitted; the drain ends only when the next record is missing or not submitted.
`Sample` is the callback as `HandleRingbufSample` has it, on the channel's view of
a record. The process is a `"main"` or a `"library"` client. Kills, restarts and other
processes are left to `XdpMonitor` (`OneProcessAssumption`), and that is also why
one channel is enough although each `run()` loads a map of its own: nobody
empties the slot behind the back of the one process, so that it attaches once at
most. `Endless` selects traffic that never stops.

### FrameCapture and PacketPath

`FrameCapture` has one action per numbered part of `xdp_capture_packet`, with
positions as offsets from `data`. `touched` is the end of the furthest byte that
was read. `record` is the memory of the slot: 16-bit fields are two bytes in
memory order, which `Load` and `SwapOnLittle` (`bpf_htons`, `ntohs`) turn into
numbers on a `host` of either byte order, and `bytes` says what `payload_bytes`
begins with; everything behind is left over from earlier records, because
`NextFrame` reuses the slot as it is. The real ring has many slots; one that is
used by every frame is the case in which most can be left behind.

`PacketPath` adds the user's side. A record is handled before the next frame
arrives: the ring in between is `CaptureRing`'s, which hands records over
unchanged, in order and once. `data` is what `on_packet_arrived` of either
example gets, `view` and `protocol_packet_counters` belong to the integration
example. A payload byte is named by its position in the frame (`Old` when it is
not one of this frame), a protocol's name by its parts (`<<"Other", n>>`). The
history variables `arrived` and `captured` count frames and submitted records.

### CommandLine

Both programs read the same `argv`, one argument per step. The string constants
are kept apart as far as the parsers do: the default name, the empty string,
`--bpf`, and other names. `Null` is what a read of `argv[argc]` would give.

## 3. Runs

| Run | Checks | Bounds |
|---|---|---|
| `monitor` | `TypeOK`, `NoStrayProgram`, `OnlyOverwrittenLeaks`, `HandlesStayValid`, `NoFailureBehindZero`, `ListensToOwnProgram`, `CapturedForReader`, `StopBringsExitNearer`, `ImplementsSessions` | 2 processes (symmetric), 2 runs per monitor, 2 starts per process |
| `monitor_live` | `OrphanIsCleared` | 2 processes, 1 run, 2 starts, nothing fails |
| `ring` | `TypeOK`, `HandedIsCaptured`, `SlotsAreExclusive`, `ImplementsChannel` | 2 CPUs, 2 slots, 4 records, payloads of 0, 1 and 3 bytes against 2 |
| `system` | `FailedRunDeliveredNothing`, `CapturedReachesHandler`, `StopLeadsToExit`, `RunHonoursStop` | 1 process, 2 runs, 3 frames, 2 slots |
| `frame` | `TypeOK`, `ReadsInBounds`, `RecordIsComplete`, `HandlerSeesTheFrame`, `EachRecordCountedOnce`, `DumpShowsPayload` | 3 frames out of 144; lengths on both sides of every check, of the truncation and of a full dump line (15, 16 and 17 bytes); 5 protocol numbers; both byte orders |
| `cli` | `TypeOK`, `UsageIsUnderstood`, `SameCommandLine` | all lists of up to 5 arguments over 5 strings |
| `detach`, `zero_exit`, `flood`, `pending`, `padding`, `fragment` | one statement of the documentation each, which the code does not keep | the smallest instances that show it |

Why the bounds are enough. Two processes show every conflict over the slot: a
third can only repeat the role of one of the two or of the other tools. Two
starts are what an orphan needs, and two runs what an overwritten member needs;
the theorems cover all other numbers. In the ring four records over two slots
use each slot twice, so that what was left behind can be seen, and two CPUs are
enough to submit out of order. Three frames over two places fill the queue and
drop a frame; two runs let a retry follow a failure. Frame lengths beyond the
tested borders only repeat a case, and of three frames the second and third find
what an earlier one left in the slot. Five arguments hold the documented form
(three) and everything that can go wrong behind it.

The processes of `monitor` are interchangeable: they occur in the
specifications only through quantifiers and as arguments, and the run checks
safety only: invariants, a quantified action property, and an abstract
specification without fairness. The liveness runs use no symmetry.

The bounds are `MaxRuns` (`CallRun`), `MaxLives` (`Kill`, `Start`: a process may
be killed only if it can be started again), `MaxRecords` (`Reserve`), and in
`XdpSystem` without `Endless` each frame arrives once; `MaxFrames`
(`NextFrameArrives`) and `MaxArgs` (`Init` of `CommandLine`). Deadlock is not checked:
after the last start a process that has exited stays so, a ring that
reached `MaxRecords`, the last frame and a parser that has finished are at their
end. The runs of `FrameCapture` alone check it: there is always a next frame.

### Fairness

- `XdpMonitor`: a process that is running is scheduled (`RunStep`,
  `DestructorStep`), both `main` call `run()` and leave the scope of the monitor
  (`CallRun`, `Destroy`), and an operator starts a program that has gone
  (`Start`). Signals, kills, failures and other tools get none.
- `FrameCapture`, `PacketPath`, `CommandLine` and `CaptureSessions` state no
  liveness property and assume no fairness.
- `CaptureRing`: an XDP program runs to its end, which the verifier guarantees,
  and the consumer is polled. Frames get none.
- `XdpSystem`: the process is scheduled and the XDP program runs to its end.
  The wait ends because of `POLL_TIMEOUT_MS`, on which `RunHonoursStop` depends
  where signals arrive on another thread. Frames and signals get none.

Weak fairness is enough everywhere: the steps named stay enabled until they are
taken, or another step of the same process takes their place.

### What the code does not do as documented

- `detach`: a monitor whose attach was refused because another program is there
  removes that program in its destructor. The same behaviour is what removes
  the program of a killed process (`OrphanIsCleared`); to detach only one's own
  program would need another way to recover from a crash.
- `zero_exit`: `run()` returns 0 after a failed poll. What 0 does tell is
  `NoFailureBehindZero`: every set-up step had succeeded. Were the result made 1, as
  documented, that property would still hold; `FailedRunDeliveredNothing`, on
  which `AppIntegrationExample.cpp:176-178` relies, would not.
- `flood`: under traffic without a pause the stop flag is not looked at, because
  one `ring_buffer__poll` goes on while there are records. Without endless
  traffic `StopLeadsToExit` holds (run `system`).
- `pending`: records captured around the stop are lost on a clean exit.
- `padding`: link-layer padding counts as payload.
- `fragment`: data of a later fragment counts as ports.

Also noticed, without a violation run:

- A second `run()` on the same monitor overwrites the object and, when another
  monitor's destructor had emptied the slot, the consumer of the first, so that
  the destructor does not "clean up all kernel resources"
  (`XdpMonitor.cpp:105`, `XdpMonitor.h:73`). `OnlyOverwrittenLeaks` states exactly
  what stays open.
- A second `run()` whose interface lookup fails, after a first one that attached,
  sets `interface_index_` to 0, so that the guard of `detach_xdp_program` is false and
  the monitor's own program stays attached when it is destroyed. `NoStrayProgram` is
  about monitors that were run once.
- A retry after `open_ring_buffer` failed cannot succeed until somebody else
  removes the monitor's own program from the interface, because until then
  `attach_xdp_program` is refused.
- The stop flag is never cleared, so that a `run()` after a stop returns 0 at once
  after its set-up (`RunHonoursStop` includes it).
- `poll_ring_buffer_once()` is documented as an alternative to `run()`, but the
  set-up steps are private, so that it returns `-EINVAL` until a `run()` has
  returned; `ring_buffer__poll` returns a number of records and not of bytes
  (`XdpMonitor.h:89`).
- `AppIntegrationExample.cpp:142` says "Same command-line interface as the
  demo". `SameCommandLine` says how far that is so. Three kinds of lists are left
  out: those with an empty argument (no interface for the demo, a name for the
  example); those whose last `--bpf` has no path (refused by the demo, an
  interface name for the example); and, only for lists that the demo refuses,
  those that give the default name, behind which the example accepts another.

## 4. Proofs

All safety properties of the passing runs are proved for every value of the
constants, from the assumptions
on the constants that the modules state (`BoundsAssumption`, `SlotAssumption`,
`EnvironmentsAssumption`, `OneProcessAssumption`, `TrafficAssumption`,
`RingAssumption`, `FrameAssumption`, `StringsAssumption`, `MaxArgsAssumption`).

**XdpMonitor.** The properties are about the end of a lifecycle, so none is
inductive. `IInv` adds, per process (`Local`), how far a `run()` has come and
what its members show (`Progress`), what holds between calls (`Settled`), how far
the destructor has come (`Teardown`), and what is open beyond what the members
know (`Owned`: only what an earlier `run()` opened). `OneConsumer` says that a
monitor has opened a second consumer only after a foreign destructor may have
emptied the slot, and `ListensToOwnProgram` is inductive together with these.
Two conjuncts relate processes
to the slot: `WillDetach` (a program of the first run of a living process will
be met by a destructor whose guard is true) and `SlotIsPast` (no program in the
slot belongs to a life to come, so that a restarted process has not attached
anything yet). Every action except attach, detach, start and those of other
tools is shown to be a `QuietStep`: it preserves what concerns its process and
touches neither the slot nor what others rely on; `QuietStepKeepsIInv` then does
the argument about the other processes once. Attach, detach, start and foreign
steps have lemmas of their own.

`ZeroIsEarned` reads off `Progress` and `Settled` that behind a consumer that is polled,
or a result of 0, stand an object, a program and a consumer of one `run()`.

`CapturedForReader` needs one more fact, `RunOfProgram`, proved inductive on top of
`IInv`: what is attached was loaded by the `run()` whose consumer is being opened
or was opened last. A retry does not break it, because it gets a consumer only
through an attach of its own, which a program left on the interface refuses.

`ExitComesNearer` is the part of `StopLeadsToExit` that can be proved: after a stop
request each step of the process lowers `StepsLeft`, a number of at most eleven,
so that only scheduling (and the end of a drain) is left for fairness. It needs
`IInv` to know that a process inside the loop has a `run()` behind it, so that
`"idle"` is the place before the destructor.

**CaptureSessions.** `MonitorsAreSessions`: each step of a process changes the view
of its own session only (`StepIsOwn`). The steps of set-up and of the loop are
handled together, as steps that are invisible or end the phase (`SetUpStep`,
`PollStep`); the others have a lemma each. The guards of `Open` and `Leave` are
where `ListensToOwnProgram` and `WillDetach` are needed, that of `Attach` is the
kernel's, and the result of `run()` (`Settled`) tells the phases apart.

**CaptureRing.** The invariant gives each claimed and not submitted position to
exactly one CPU, ties the slot of every position in the window between consumer
and producer to the frame that was captured there, step by step of the filling,
and bounds the window by the capacity, from which the slots of the window are
distinct. `RingImplementsChannel` shows that every step is one of the channel or
leaves its variables unchanged.

**XdpSystem.** `SystemImplementsMonitor` shows that with traffic the process takes
no step that `XdpMonitor` does not allow, so that the lifecycle's invariant is
available. `NothingFromFailedRun` adds `DeliveredByPolling`:
a record reaches the application only through a consumer, and a consumer of a
first `run()` is there only while it is polling or after it has returned 0.

**FrameCapture.** The lemma `CopyRegion` bounds the region that is copied, for
every length and header field. `HeadersKnown` says what the local variables hold
behind each part, and `RecordFilled` that nothing in the slot counts as this
frame's until it is copied and that the count then says how much; from them
follows `RecordIsComplete`.

**PacketPath.** The path implements `FrameCapture` (`PathImplementsCapture`) and
so has its invariant. `HostOrder` shows that `ntohs` of two bytes in memory is
their number on the wire for both byte orders; `Handed` ties what was delivered
to the record in the slot. `SummaryIsExact` rests on `NamesDiffer` (no two
protocol numbers share a name) and `OneCounterGrows`.
`DumpIsExact` rests on `DumpIsRead`: the dump of consecutive bytes, of whatever
number, is read back line after line as these bytes.

**CommandLine.** `TypeOK` is inductive: an argument is read only at an index that
was compared with `argc`. The other two properties are about lists that have been
read to the end, by two programs that are at different arguments. Both are related
to the list itself instead of to each other: `LookedAt(i)` says, without a parser,
whether argument `i` is looked at or taken as a path, namely if the options in an
unbroken row before it are even in number. For every list whose last option has
its path, `ReadsTheList` then says of each parser that it is at an argument that is
looked at, that its strings are those of the last name and the last path before
it, that one which refused saw a name behind one it had to keep, and that one
which runs has read the whole list.
`ParsersAgree` compares the two readings at the end of the list, `UsageUnderstood`
evaluates them on the five shapes of the documented form.

Model-checked only: the liveness properties (`OrphanIsCleared`,
`CapturedReachesHandler`, `StopLeadsToExit`, `RunHonoursStop`) and the fairness in
`ImplementsChannel`, because liveness under fairness is outside what the prover
handles.

## 5. Plan

Done: all modules and theorems above.

Left:

1. Several processes with traffic, one channel per map, so that what a monitor
   loses when another one detaches it is stated about packets. `XdpMonitor` states
   it about programs and consumers (`ListensToOwnProgram`).
2. Safety halves of the other liveness properties, as `StopBringsExitNearer` is of
   `StopLeadsToExit`.

## 6. Not modelled

- MAC and IPv4 addresses, which are copied and formatted; log output; what the
  hex dump prints besides the layout of its lines; the preview of 16 bytes.
- An application that catches an exception of its handler around `run()`, after it
  has passed through libbpf's C frames, and a handler that never returns.
- Two monitors in one process, which share the stop flag: each is covered as a
  process of its own whose flag may be set at any time.
- The verifier and the build. That the verifier accepts the program is assumed
  where the code relies on it: an XDP program terminates.
- The byte layout of the ring and of `struct xdp_packet`, and an object file given
  with `--bpf` that was built from another `packet.h`: its records would have another
  size, which is what the size test of the callback is there for.
- Links (`bpf_link`), driver-mode XDP of the monitor itself, network namespaces:
  the code does not use them.
