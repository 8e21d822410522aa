# Verification of VirtualUSB

VirtualUSB is a user-space USB device for Linux.  `VirtualUSBDevice` attaches
one end of a socket pair to the kernel's vhci driver and answers the USB/IP
commands the driver sends over it; `main.cpp` builds a CDC serial port on top.
The repository has no tests and next to no documentation, so the models are
translated from the code and from what its comments and assertions say.

## Inventory

| component | state | operations | hard part |
|---|---|---|---|
| `VirtualUSBDevice`: commands (VirtualUSBDevice.cpp 175-233, 469-836) | the queues of `_s`: `cmds`, `reps`, `inCmds[ep]`, `inData[ep]`, `configDesc` | `_handleCmd` and its handlers, `_sendDataForInEndpoint`, `write`, `_reply` | requests, data and unlinks meet in any order; partial consumption of data |
| `VirtualUSBDevice`: threads (61-173, 240-467, 838-882) | `_s.lock`, `_s.signal`, `_s.state`, `_s.err`, `_s.socket`, two threads | `start`, `read`, `write`, `stop`, `_reset`, `_readThread`, `_writeThread` | one condition variable for three conditions; shutdown run by any thread; the socket used without the lock |
| `USBIPLib` and the loop of `start` (80-95) | the vhci driver handle with its port table (`idev`); the kernel's ports | open, find a free port, attach, close | the table is a copy of something other processes change |
| CDC application (`main.cpp`) | `_State.dtePresent`, the line coding, two threads, the process | class requests, OUT data, the periodic write, `_exit` | a flag used after unlock; a notification before a wait; the process ends with a thread running |
| Descriptors (`Descriptor.h`, `USB.h`) | constants | none | lengths and references between descriptors |
| Toastbox `Task` | per task `_state` and `_jmp`; `_CurrentTask` | `Run`, `run`, `start`, `pause`, `resume`, `TaskYield`, `TaskWait` | tasks that order and run each other; when to sleep |
| Toastbox `RingBuffer` | `_roff`, `_woff`, `_full`, `_buf` | `read`, `write`, `writeOver` | full against empty, two segments, displaced elements |
| Toastbox `USBDevice`, `RefCounted`, `Uniqued`, `Defer` | `_interfaces`, `_epInfos`, `_handle`, shared by all objects; references to libusb devices | list, construct, destroy, open, claim, transfer | failure in the middle; globals that belong to one device |
| Toastbox conversions, errors; build files | none | none | none |

`Task`, `RingBuffer` and `USBDevice` come with the repository and are not used
by the program.

How they interact.  The kernel writes commands to the socket.  The *read
thread* receives a command without the lock and queues it in `cmds` under the
lock.  A *client* in `read()` takes the oldest command under the lock and
either answers it (the reply goes to `reps`), queues it for data that is not
there yet (`inCmds`), or hands it to its caller.  `write()` queues data
(`inData`) and, like a new IN request, matches requests with data.  The *write
thread* takes replies from `reps` under the lock and sends them without it.
Any of them may fail: then `_reset` records the cause, wakes everybody, shuts
the socket down, waits for the two threads to exit and closes the socket.
There is one lock and one condition variable.

What makes it correct:

- commands: each is in one place until it is answered once or cancelled once;
  the bytes of an IN endpoint form one stream; replies to an endpoint keep the
  order of its requests; requests and data never wait for each other; a reply
  fits the host's buffer; an unlink's status is the truth.
- threads: no wake-up is lost; the first failure is the one reported and the
  last thing that happens; the socket is not closed under its users; every
  blocked call returns after a failure; shutdown ends.
- attach: a port belongs to one device; "no free port" is true; the retry loop
  ends if others leave; the driver handle is there while it is used; the device
  gets the speed it declares.
- application: a terminal that is there is served, one that has left gets at
  most one more line; the host is answered; any failure ends the process; the
  two threads use the device as its interface allows.
- scheduler: the last order for a task holds; a pass without work means there
  is none; nobody starves; only a task that ended is taken for terminated.
- ring buffer: a bounded queue whose offsets stay inside the array.
- host side: no reference is lost; a failed claim is not taken for a claim;
  with one device, transfers reach it.

`PROJECT.json` lists the hazards behind these, each at its line, including
those that only have a note.

## Modules

| module | models | built on |
|---|---|---|
| `UsbipCommands` | commands and replies as records; every computation of a handler that touches no shared state: which commands are rejected, the descriptor and length answered, unlink status | |
| `UrbService` | abstract specification: what the driver may rely on for each URB (decided once; "too late" is said only of a URB that was returned) | |
| `CommandQueues` | the queues and handlers, one action per critical section of `_s.lock`; any order of host, clients and device | `UsbipCommands`; implements `UrbService` |
| `DeviceThreads` | the threads: program counters, waiting set, flags, socket, hand-overs in local variables, failures | `CommandQueues`, whose actions it runs; implements `CommandQueues` |
| `Descriptors` | the repository's descriptors: lengths, numbers, references, and that they fit together | |
| `CdcApp` | `main.cpp`: the main thread and the response thread on top of a device | `CommandQueues`, whose actions it runs; implements it |
| `BoundedFifo` | abstract specification of a ring buffer | |
| `RingBuffer` | `RingBuffer.h` | implements `BoundedFifo` |
| `Task` | the cooperative scheduler, with any functions as tasks | |
| `UsbHostDevice` | `USBDevice.cpp` and the ownership helpers as it uses them | |
| `VhciAttach` | how `start()` finds a port and attaches, in several processes that share the kernel's ports with other programs | |
| `CommandQueuesProofs`, `ReplyOrderProofs`, `DeviceThreadsProofs`, `VhciAttachProofs`, `CdcAppProofs`, `RingBufferProofs`, `TaskProofs`, `UsbHostDeviceProofs` | theorems and proofs | |
| `MCStreams`, `MCThreads`, `MCCdc`, `MCVhci`, `MCRingBuffer`, `MCTask`, `MCHost` | instances for TLC; `MCCdc` and `MCVhci` take their constants from `Descriptors` | |

`VhciAttach` opens up a step that `DeviceThreads` takes as a whole
(`StartSucceeds`, `StartFails`).  There is no refinement between the two: one has
many processes and one thread in each, the other one process and its threads;
they share the outcome of `start()` and the end of a device (`End`).

`CdcApp` is composed with `CommandQueues` and not with `DeviceThreads`: what the
application can see of the device's threads is what `CommandQueues` says, and
`DeviceThreads` is shown to implement that.

### Correspondence

`CommandQueues` has a variable for each queue of `_s`, and four that only
record history for the properties or bound the model: `issued` (commands the
host made; its index is the seqnum), `sent`, `written`, `writes`.  A `_Data` is
`[pos, len, off]`: the bytes from `pos` on of everything written to the
endpoint, so that "the same bytes" is a statement about positions.
`_sendDataForInEndpoint` loops under the lock; one iteration is `SendOne`, and
while `serving` names an endpoint no other critical section can start.
`rcmd` and `wrep` are the local variables in which the read and the write thread
carry a command or reply between a blocking call and the lock: `Receive` and
`Push` are the two halves of a pass of `_readThread`, `Take` and `Transmit` those of
`_writeThread`.  `Replies` is all of them in order, sent, in hand and queued.
The code's `try`/`catch` around a handler becomes a disjunct of
`Handle`: `Rejected` lists, in one place, the commands whose handler throws
before it changes anything.

`DeviceThreads` gives every thread a program counter.  Its labels are the
places where the code does not hold the lock (`recv`, `send`), is about to
take it (`reading`, `push`, `take`, `failed`, `exiting`), waits
(`sleeping`, `resetting`, and `take` of a thread in `waiting`) or holds it over several steps (`serving`,
`throwing`).  `waiting` is the set of threads blocked on `_s.signal`;
`notify_all` empties it, and a thread that left it looks at its condition
again.  The queues, the wire and the two hand-overs are the variables of
`CommandQueues`; a thread's step runs one of its actions or leaves them
alone, so the refinement (`ImplementsCommandQueues`) needs no mapping.  What
`DeviceThreads` adds is what a thread waits for, who holds the lock and what fails.

`VhciAttach` has the kernel's ports (`vhci`) and for each process what
`usbip_vhci_driver_open` copies of them (`table`), filled by one `ReadStatus` per
status file and one `LookUp` per used port; either may fail (`ReadStatusFails`).  The loop of `start()` alternates
`Choose` and the attach; as in the code, `Choose` after `AttachBusy` looks at the
same table.  A port in use passes through a moment (`used`) in which its status
says so and udev does not know the device yet, as when the USB core has given
it its address and not registered it.

`CdcApp` has the two threads of the program.  `mainAt` and `respAt` are the
places between which a thread takes no lock, blocks on nothing and shares
nothing.  `Start` is `dev.start()`, which returns, throws, or, when a thread of the
device cannot be created, stays in `_reset` (`mainAt = "resetting"`); `Spawn` is the
`std::thread` of the response thread, which may throw when the device already
runs.  `ReadXfer` is one pass of `dev.read()`: it runs `Handle` of the device
and keeps what comes back; `ReadBeyondTable` is the same pass when it reads past the
descriptor table and is killed for it.  `RespCheck` is the critical section of
`_State.lock`, `RespWrite` the one of the device's lock in `write()`; between
them (`respAt = "write"`) the thread holds no lock, which is where `dtePresent`
gets stale.  `late` counts lines written since the terminal left.  When the
process has ended, nothing happens any more.

`RingBuffer` keeps the two segments of each copy.  `Behind` is the offset after
a copy, where the second segment is bounded by the other offset, as in the
code, although the checks before it make that bound superfluous (which is part
of what the refinement shows).  The refinement mapping is `Contents`, the
elements from the read offset on.

`Task` has no tasks of its own: between two macros a function may make any calls
of the interface, for itself or another task, and come to a `TaskYield()`, a
`TaskWait()` or its end.  `jmp` says at which kind of macro a task left, `cond`
whether the condition it will look at holds, and conditions change at any time.
`running` is the stack of `run()` calls.  A condition that changes while nothing is
in `running` was changed by an interrupt: the masking of interrupts is commented
out in `Run()`, so this may happen in the middle of a pass.  `_didWork` is not a variable of its
own: a task's function sets it if and only if it gets past its `TaskBegin()` or
its wait, and so `Returned` sets the flag of `Run()`.  `orders`, `lost` and
`missed` record history; the last one is the set of tasks whose condition an
interrupt changed after the pass had come to them.

`UsbHostDevice` has the globals of `USBDevice.cpp`, the references libusb counts
for this code, and `get_free_devs()` one constructor at a time, because each
may throw in the middle of its loop.  `epInfos` holds the interface index of
each endpoint.  The kernel's view of claims is `kernel`.

Choices worth knowing:

- The host issues each UNLINK for an earlier SUBMIT, once per URB, at any time,
  also after the reply is on its way.
- "Bad" stands for every undefined value of a command, and of a direction.
- The index of a GetDescriptor(Device) is not checked by the code.  Hosts send
  0; for an index past the table the code follows whatever pointer it finds
  there.  The outcomes are a length that means nothing (`StrayLens`), which is
  then cut to `wLength` like any other, or the end of the process, an action
  of `CdcApp`.  In `CommandQueues` and `DeviceThreads` the second is a behaviour
  that ends.
- A `std::condition_variable` may wake for no reason, and does here.
- `wait_for` may report a timeout although a notification came first
  (`ReadTimeout`).
- `recv` first returns what is in the socket after a shutdown, then 0.
- The direction bit of a setup packet is that of the command's header, as the
  vhci driver sends it.  A transfer that `read()` returns is an OUT transfer, so
  the `DirectionIn` half of `_handleXferEP0` cannot be reached and is left out.
- A function that calls `run()` of a task that is executing is left out of
  `Task`: it would enter the task's function a second time.
- In `UsbHostDevice` endpoint addresses have their reserved bits zero (with
  them set `OffsetForEndpointAddr` drops them as well), and the reference that an
  open libusb handle holds by itself is libusb's and not counted.

## Runs

| run | instance | shows |
|---|---|---|
| `data_path` | `MCStreams`: 2 IN endpoints, requests of 1 and 2 bytes, writes of 0, 1 and 3 | `TypeOK`, `NoCommandLost`, `InStreamIntact`, `InOrder`, `NoStalledIn`, `ImplementsUrbService` |
| `application` | `MCCdc`: 29 kinds of commands with the repository's descriptors, all pairs, three lines written | `AppTypeOK`, `ReplyFits`, `LateWrites`, `UsesDevice`, `TerminalServed`, `FailureEndsProcess`, `HostIsAnswered` |
| `threads` | `MCThreads`: two readers, a writer, a stopper, all faults | `ThreadTypeOK`, `SocketOutlivesThreads`, `NoLostWakeup`, `AsleepMeansServed`, `ShutdownGoesOn`, `FirstCauseWins`, `QuietAfterFailure`, `ImplementsCommandQueues` |
| `progress` | a reader that keeps calling `read()` without a timeout, as `main.cpp` does, a writer, a stopper, all faults | `CommandsAnswered` through both device threads, `CallsReturn`, `ClientShutdownCompletes` |
| `attach` | `MCVhci`: two processes and other programs, two ports of one hub on two controllers | `TypeOK`, `PortsMatch`, `FullWasFull`, `DriverHandle`, `RetryNeedsContention` |
| `ring_buffer` | `MCRingBuffer`: capacity 4, chunks of 0 to 6 elements of two values, reads of 0 to 5 | `BufferOK`, `ImplementsFifo` |
| `task` | `MCTask`: three tasks, three calls | `TypeOK`, `IdleIsIdle`, `OrdersHold`, `OnlyResumeLoses`, `NoTaskStarves` |
| `host_usb` | `MCHost`: three devices, three lists, any failure | `TypeOK`, `RefsBalanced`, `ClaimsKept`, `SoleDeviceServed` |
| `device_descriptor`, `get_line_coding`, `peer_closes`, `speed_declared` | counterexamples | see Findings |

Bounds, and why they are enough.  `MaxCommands` and `MaxWrites` bound what the
environment does, never the device.  `StrayLens` bounds what a read past the
descriptor table finds: the smallest and the largest 16-bit length in
`application`, where a request makes that read, and 0 elsewhere.  A request longer than the data, shorter
than it, and equal to it all occur, also across two writes and two requests,
which is every branch of the matching loop and every way one iteration can
leave work to the next; an unlink finds its URB first in the queue, behind
another, gone, and never queued.  For control requests the state carried from
one to the next is `configDesc`, and in the application `dtePresent`, so pairs
suffice: a terminal that comes and leaves, a transfer before or after a
failure.  Of three lines one can be late and two more show that no other is.  For the threads, two
readers are needed so that a wake-up can reach the wrong one and so that one
fails while the other handles, sleeps or serves; one command in flight each
way occupies every hand-over.  For the ports, two processes are enough to race
for one port, two ports for the choice between a first and a later one,
two controllers for a table read in pieces, and other programs may attach
and release without end, so that each port can change between any two steps.
The second hub is left to the proofs, which hold for any `HubOf`.  In the ring
buffer every pair of offsets is reached with every length up to two beyond the
capacity, so each branch is taken on both sides of its boundary.  Three tasks
give the scheduler a first, a middle and a last one; with three calls a task can
be paused, resumed and run by another.  On the host side one device has an IN
and an OUT endpoint with the same index, a second one shares the tables with
it, a third one makes its constructor throw at its second interface.  `CHECK_DEADLOCK FALSE` stands where the system
may stop: a device that has failed does nothing more, and hosts need not
submit anything.

Fairness.  The fair specifications give weak fairness to the steps of a
thread that can run, and to nothing else: the host, callers, faults, timeouts,
spurious wake-ups and other programs are never forced.  This is what the operating
system's scheduler provides, with one addition: the lock. Weak fairness of a
critical section needs it to be enabled continuously, and it is disabled
while another thread holds the lock (`Free`).  A thread holds the lock through
a bounded loop or up to its `catch` clause, the bounds on commands and writes
make the contention finite, and so weak fairness is enough; strong fairness is
not assumed.  `FairAppSpec` adds that the application calls `read()` again, as
the loop of `main.cpp` does.  `AppFairSpec` gives weak fairness to the main
thread, to the response thread except its unprovoked wake-ups, and to the steps
of the device.  That `usleep()` returns is part of it, and that `start()` returns,
throws or gets into `_reset`; nothing is promised of one that is in there for
want of a thread.  In `Task`,
`FairSpec` says that `Run()` goes on and that a function comes to a macro or its
end, which is what cooperative means; no call and no change of a condition is
promised.

## Findings

Each with a run that shows it:

- **Descriptors** (`device_descriptor`): line 727 takes the length
  of the device descriptor from the configuration descriptor;
  `_DescLen(const DeviceDescriptor&)` exists and is not called.  And lines
  763-766 compute status 1 for a missing descriptor and pass it to `_reply`,
  which writes 0 (line 503).  `DescriptorsAnswered` has a part for each, and TLC
  violates either part alone.
- **GET_LINE_CODING** (`get_line_coding`): `main.cpp` 82-88 handles the request,
  but the device queues a class IN request for data (568-577, 589-591) instead of
  returning it from `read()`.  The host waits until it gives up.
- **A device thread waits for itself** (`peer_closes`): if the read or write
  thread is the first to fail, it runs `_reset` and waits there for its own
  flag, which it clears after `_reset`.  The socket stays open; clients do
  return (`progress` covers this case).
- **Wrong speed** (`speed_declared`): line 69 passes `bcdDevice` to
  `_SpeedFromBCDUSB`; the repository's own device declares USB 2.0 and is
  attached as a full-speed device.

And what a passing property says by its exceptions:

- **Thread creation fails** (`FailureEndsProcess`, `HostIsAnswered`, `ShutdownGoesOn`):
  `start()` sets the flags of both threads (line 102) before it creates them.  When
  a creation throws, the `catch` clause calls `_reset`, which waits for both flags to be
  cleared, so `start()` neither returns nor throws the error that it recorded
  (line 112).  The step is `SpawnFails` in `DeviceThreads`, and `mainAt = "resetting"` in
  `CdcApp`, where the program then neither ends nor serves anybody.  The constants of
  `MCPeerCloses.cfg` exclude it, so that the run shows the other way to wait for
  ever; with `SpawnMayFail = TRUE` and `PeerMayClose = FALSE` instead, TLC violates
  `ShutdownCompletes` by this one.
- **Driver not closed** (`DriverHandle`): a `start()` that finds no free port or
  fails to attach throws past line 97, although `USBIPLib.cpp` 335 counts on the
  close.
- **Resume of a waiting task** (`OnlyResumeLoses`): `resume()` sets the state to
  Run; if the task's condition does not hold, its function returns in that
  state and `run()` takes it for terminated and forgets its position.
- **Shared USB handle** (`SoleDeviceServed`): the tables and the handle of
  `USBDevice.cpp` are global, so with objects of two devices the second one's
  transfers go to the first.

`ClientShutdownCompletes` is the complement of `peer_closes` and of a failed
thread creation: when the failure comes from a client, shutdown does end.

## Proofs

All for every value of the constants: any number of endpoints, client threads,
commands and writes, any device description.  They rest on the
named assumptions of the modules (`DescriptorAssumption`, `StrayAssumption`, `ShapesAssumption`,
`HostAssumption`, `ThreadsAssumption`, `VhciAssumption`, `AppAssumption`,
`BufferAssumption`, `TaskAssumption`), which TLC evaluates in every run.

- `TypeCorrect`: `Spec => []TypeOK`.  The argument is per handler.  The facts
  that carry it: the index of a configuration or string descriptor is checked
  before it is used (`StandardSupported`), that of a device descriptor is not and
  any stray length may come of it (`DescriptorReplyType`), a reply's length is natural because the
  offset of a `_Data` never passes its length (a part of `Data`), and the
  endpoint of an accepted transfer is in the tables.
- `NothingStalls`: `Spec => []NoStalledIn`, from `TypeOK`. Only two steps can put a
  request and data side by side, and both set `serving`; `SendDone` clears
  it only when one of the queues is empty.
- `EveryUrbDecidedOnce`: `Spec => ImplementsUrbService`.  `UrbInv` carries it:
  the commands in `cmds` and `wire` are the last ones issued, in order
  (`InLine`), so the target of an unlink in hand is a command handled before;
  a command handled waits in one place or has been decided, never both
  (`WaitingUndecided`, `NoneForgotten`), as long as no handler has thrown.  A
  target that does not wait has been decided, and not by another unlink, since
  the host unlinks a URB once (`LogOK`): hence "too late" is the truth.
- `NothingIsLost`: `Spec => []NoCommandLost`.  `LinePlaces` and `HandledPlaces` read a
  command's places off `UrbInv` and `OnceInv`.  The second one adds what is
  not about URBs: a step answers the command it takes from the line or one that
  waits, so none twice (`AnsweredOnce`); a URB once decided is no longer
  open (`DecidedOnce`, from the refinement); and whatever is not a URB is
  answered when it is handled (`RestAnswered`).
- `SocketSafe`: `ThreadSpec => []SocketOutlivesThreads`.  Not inductive alone:
  `SocketInv` adds that a device thread that is not gone has its flag in
  `_s.state` (`FlagsCover`) and that the socket is there while a flag is set
  (`SocketHeld`).  `_reset` closes the socket only when no flag is set.
- `FirstCause` and `Quiet`: the two action properties, from `FailureInv`: an
  error is recorded exactly when the Reset flag is set (`ErrIsReset`), and then
  the socket is not open and nobody is inside `_sendDataForInEndpoint`
  (`ResetIsShut`; `LockedStart` covers a failing start).  So the second caller of
  `_reset` changes nothing, and no reply in hand gets past the socket.
- `NoWakeupIsLost`: `ThreadSpec => []NoLostWakeup`.  `WaitInv` says of each
  blocked thread what it waits for and that it is not there; whoever
  makes it true notifies everybody, and a step that notifies nobody moves a
  thread that is not blocked and leaves the conditions of the others alone.
- `ThreadTypeCorrect`: `ThreadSpec => []ThreadTypeOK`.  `HandInv` says what the
  read and the write thread hold at each program counter, and `StartedFirst`
  that the write thread exists after the start only.
- `ThreadsImplementQueues`: `ThreadSpec => ImplementsCommandQueues`.  By cases of
  `Step`: each step of a thread is one step of `CommandQueues` or leaves its variables
  alone (`StepOfQueues`).  `HandInv` gives `Push` and `Transmit` the command and the
  reply in hand.  With it the theorems about the queues hold of the threads:
  `NothingStallsInThreads`, `NothingIsLostInThreads`, `ThreadsDecideOnce`,
  `ThreadsKeepOrder`, `StreamsIntactInThreads`.
- `TransfersInOrder`: `Spec => []InOrder`.  `OrderInv` adds to it that only
  IN transfers wait for data (`WaitingShape`) and that an UNLINK's header says OUT
  (`UnlinksOut`), so that no other reply is taken for one of a transfer.  A
  request queued is younger than those answered and those that wait because
  the commands in line are (`InLine`); an unlink thins the queue out and keeps
  its order (`Thinned`).
- `StreamsIntact`: `Spec => []InStreamIntact`.  The property says it with
  positions: the last data reply before the i-th ended where the i-th
  begins (`Reached`), and the last of all where the waiting data begin.  `StreamInv`
  adds that the waiting data are consecutive pieces that end with the last byte
  written (`DataJoined`); each kind of step (`AnswerStep`, `QueueStep`,
  `SendStep`, `WriteStep`) then moves at most one end of the chain.
- `RepliesFit`: `HostMakesRoom` gives `Spec => []ReplyFits`.  The hypothesis is about
  the host: its IN control requests have room for `wLength`, and GET_STATUS asks
  for two bytes.  The code relies on that, since a status reply is two bytes
  whatever was asked for (711) and a descriptor is cut to `wLength`, not to the
  length of the transfer (765).  TLC evaluates it for the host of `MCCdc`
  (`HostAsksForRoom`).
- `AsleepIsServed`: `ThreadSpec => []AsleepMeansServed`, the safety half of
  `CommandsAnswered`.  When a reader and the write thread sleep and the read
  thread waits in `recv()`, then `NoLostWakeup` empties `cmds` and `reps`, `HandInv` the
  hand-overs, and `NoCommandLost` leaves a command nowhere to be but with the host or
  in `inCmds`, and there `NoStalledIn` says that its data are missing.
- `CleanedUpOnce` and `ShutdownIsNotStuck`: `OneCleansUp` and `ShutdownGoesOn`, the
  safety half of `ClientShutdownCompletes`.  With respect to the cleaning up a step
  is of one of four kinds: it enters `_reset`, leaves it, starts the device, or is
  not involved (`Enters`, `Cleans`, `StartsUp`, `Uninvolved`).  `CleanInv` adds that a
  device that failed has been closed or has somebody at it, and that after a
  client's failure it is not one of the two threads that have to exit.
  `FlagsExact` is the converse of `FlagsCover`: a flag without its thread
  exists only if `start()` could not create the thread, so the one in `_reset` waits for
  nobody who is not there.
- `PortsSafe`: `Spec => []PortsMatch` of `VhciAttach`.  `PortInv` adds the
  kernel's half, that exactly the ports without an owner are vacant.
- `FullIsTrue`: `Spec => []FullWasFull`.  The history variable `busy` makes a
  statement about the past of `start()` an invariant; `ReadInv` says that a port
  not read yet belongs to a controller not read yet (`Unlisted`), and that
  whatever was read as taken, or is taken now, is in `busy` (`Noticed`).

- `HandleSafe` and `TypeCorrect` of `VhciAttach`.  `DriverHandle` is inductive with
  the types: each step that leaves `Opening` says what it does to the handle.
- `UsesDeviceRightly`: `AppSpec => UsesDevice`, that is `CommandQueues!Spec`, by
  cases of `AppNext`: each action either is one of `CommandQueues` or leaves
  `queues` alone; `write()` of the response thread is `Write`.  With it
  `NothingStallsInApp` and `NothingIsLostInApp` follow from the device's theorems
  without looking at the application again, and so do `AppDecidesOnce`, `LinesArriveIntact`
  and, with `HostMakesRoom`, `RepliesFitInApp`.
- `AppTypeCorrect`: `AppSpec => []AppTypeOK`, with the types of the queues from
  `UsesDeviceRightly`.  Only `Start` leaves the cause "start", and main() then
  exits or stays in `start()`; only `Spawn` creates the response thread and only
  it leads to `read()`, so main() does not read without a response thread, and there
  is none after a start that failed.
- `AtMostOneLate`: `AppSpec => []LateWrites`.  `LateInv` adds that no
  line is late while the terminal is there, nor when the response thread is about
  to write (`respAt = "write" => late = 0`): it then saw the terminal after any
  line it wrote late.
- `TerminalIsNoticed`: `AppSpec => []NoTerminalMissed`, the safety half of
  `TerminalServed`.  The invariant is inductive by itself, because the look at the flag and the
  wait are one critical section and the handler that sets the flag notifies in another.
- `OffsetsSafe` and `IsAFifo` of `RingBuffer`, for every capacity.  The lemmas
  say what a copy does in terms of the position behind the read offset: the
  elements read are the first of `Contents`, those written follow its last,
  and an overwrite drops as many as do not fit.
- `TypeCorrect`, `OrdersAreHeld`, `OnlyAResumeLoses` and `IdleMeansIdle` of `Task`.  The types add
  that a function runs only for a task whose turn it is.  `OrdersInv` says what an
  order means for the state and the position of a task that is not
  executing.  `ResumedInv` says that a task inside a TaskWait() is in state Run only
  after a resume(), since the wait itself left it in state Wait.  `IdleInv` is an
  invariant of a pass: without work so far, no task before `pos` can run but those
  in `missed`.  A task that worked, and with it everything a function did to others,
  sets the flag of the pass; a task looked at without work is stopped or waits for a
  condition that does not hold.
- `TypeCorrect`, `NoReferenceLost`, `ClaimsAreReal` and `OneDeviceServed` of
  `UsbHostDevice`.  For the last one, `SoleInv` says that while one
  device only was seen, the handle is its own (`handle \in seen`) and the tables
  describe it (`Described`): the list begins with its interfaces, and each endpoint's
  entry points to the one that owns it, however often the device was listed.

Only model-checked: liveness (`CommandsAnswered`, `CallsReturn`,
`ClientShutdownCompletes`, `RetryNeedsContention`, `TerminalServed`,
`FailureEndsProcess`, `HostIsAnswered`, `NoTaskStarves`), since the prover does not
treat fairness and ENABLED.  Every invariant, action property and refinement that
a passing run checks is also a theorem.  The other way round, `OneCleansUp` and
`NoTerminalMissed` are stated beside their proofs and in no run.

## Not modelled

Payload bytes beyond their position and length; a socket whose buffer is full,
and a send that delivers a part of a reply before it fails; the length of
timeouts; the attributes of other programs' devices that `read_usb_device`
reads and nothing uses, and `usbip_net_set_keepalive`, which nothing calls; exceptions from memory allocation; more than one call of
`start()`, which an assertion forbids; `err()`, which only reads; the values of
the line coding, which can reach nobody; `TaskSleepMs`, whose functions are
commented out; a `RingBuffer` with capacity 0; the copy and move operators of
`RefCounted` and `Uniqued` apart from their use in `USBDevice.cpp`; the conversions
(`Endian.h`, `Enum.h`, `HashInts.h`), which have no state; the text of errors
(`RuntimeError.cpp` formats into a buffer that all threads share); the build.

## What is left

- The safety halves of the other liveness properties, as `AsleepMeansServed`,
  `ShutdownGoesOn` and `NoTerminalMissed` are of theirs: a state in which a call, the
  process or a task waits has a step that can end the wait.
- A run of `VhciAttach` with ports on both hubs; the proofs cover it.
