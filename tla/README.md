# Formal model of the N32G43x CMSIS-DAP JTAG probe

The repository is the firmware of a USB debug probe: a host sends CMSIS-DAP
commands as 64-byte HID reports, the probe wiggles a JTAG port and answers. It
runs on the RT-Thread kernel. This directory holds TLA+ models of the program,
TLC configurations that check them, and TLAPS proofs. Everything is translated
from the C source; paths below are relative to `src/`, `DAP/` stands for
`project/CMSIS_DAPv2/`, `USB/` for `middlewares/rt-thread/components/drivers/cherryusb/`
and `RTT/` for `middlewares/rt-thread/src/`.

## 1. The system

| part | state | operations | talks to |
|---|---|---|---|
| JTAG pin driver `DAP/src/jtag_driver.c` | output register of GPIOB, `jtag_clk_div`, `current_tap_state` | init, tap reset, goto state, shift data, SRST | target (TCK/TMS/TDI/TDO wires) |
| command processor `DAP/src/dap_main.c` | `dap_state`, `resp_buffer` | 13 handlers behind one dispatch table | pin driver calls; two handlers write the port themselves |
| report exchange `DAP/src/main.c` | buffers on the interrupt stack | OUT callback, IN callback | `usbd_ep_read`/`usbd_ep_write`, `dap_process_command` |
| controller driver `USB/port/fsdev` | endpoint registers, ISTR, packet memory, `usb_dc_cfg` | the interrupt handler, open/close/stall/read/write | USB controller, device core |
| device core `USB/core/usbd_core.c` | setup packet, `ep0_data_buf`, residue, configuration | setup, EP0 in/out, reset, set-configuration | class handlers, controller driver |
| HID class `USB/class/hid` | report descriptor, idle, protocol and report values | class requests | device core |
| timers `RTT/timer.c`, `clock.c` | `rt_tick`, `rt_timer_list` | start, stop, control, check, tick | threads (sleep, timed waits), callbacks |
| scheduler, threads, IPC `RTT/scheduler.c`, `thread.c`, `ipc.c` | ready lists, current thread, semaphores, mutexes | schedule, yield, sleep, take, release | timers, interrupts |
| thread life `RTT/thread.c`, `idle.c` | control blocks, the defunct list | create, startup, suspend, resume, delete, exit; the idle thread frees | scheduler, timers, heap |
| heap `RTT/mem.c` | block headers, `lfree`, `used_mem` | malloc, free, realloc, calloc | `heap_sem` |
| start-up, descriptors, threads, vendor libraries | – | run once, constant, or beside the command path | – |

There are two points of concurrency. **All commands are processed inside the USB
interrupt**, from `USBD_IRQHandler` through `usbd_ep_out_handler` to
`usbd_hid_out_handler`, so commands never interleave with each other and no
thread touches the pins or buffers. What does run beside the handler is the *USB
controller*, which changes endpoint registers and packet memory under it, the
*host*, which may be ahead of the handler or reset the bus at any moment, and the
*target*, which moves at TCK edges and may be in any TAP state. Under the
threads, **the kernel's calls are sequences of sections with interrupts
disabled**, and between two of them the tick interrupt may expire a timer, wake a
thread or switch to another.

Behaviours that are hard to test, each with its line in `PROJECT.json` under
`hazards`: a bus reset between any two steps of a command or of the reset
handling itself; toggle-bit status updates racing the controller; transfers
abandoned half-way and completions served late; packet memory handed out again
after a reset; static response memory and two index bases in one handler;
truncated requests; a TAP whose state depends on everything shifted before;
tick values that wrap; a timeout and a release for the same waiter; a mutex
passed on while priorities are lent; a thread woken while it is being deleted; long sequences of heap calls.

What makes each part correct: the pin driver - line discipline, the TAP lands
where the driver says, a call is atomic for its caller; the command processor -
stores in bounds, an answer made of its own bytes in order, an answer for every
command; the exchange - every command run once and in order, each answer
collected by the command it answers, recovery from any reset; control transfers -
the host reads what it asked for, the device keeps what it was sent, addresses
and toggles agree, every transfer ends; endpoints - a buffer inside packet memory
whenever one may be used; timers - each expires on its tick, in order; threads -
in one list each, told the truth about what they were given, run by priority,
never after they ended, and freed when nothing uses them any more;
the heap - blocks that tile it and holders that stay apart.

## 2. Modules

| module | models |
|---|---|
| `TapController` | the sixteen TAP states and their two successor maps (the target's side, external) |
| `JtagTarget` | external: TAP plus scan register, TDO level, power-up states |
| `JtagCalls` | the calls made on the pins, as records |
| `JtagDriver` | the bit-banging driver, one action per GPIO access or group of accesses under one TCK level |
| `JtagService` | abstract: each call happens to the target at once |
| `DapCommands` | `dap_process_command` and its handlers; loops one iteration per step |
| `ReportExchange` | abstract: a command is asked, run, answered, or given up |
| `DapProbe` | `DapCommands` with each handler's driver calls made on a target, as `JtagService` has them |
| `HidLink` | interrupt handler, HID endpoint registers, packet memory, host |
| `FsdevEndpoints` | what each `usbd_ep_*` call does to registers and packet memory, as operators |
| `ControlPipe` | control transfers, standard and HID requests, on `FsdevEndpoints`, with reports beside them |
| `Countdowns` | abstract: what timers promise, without ticks or a list |
| `KernelTimer` | the timer list, wrapping ticks, the tick interrupt and callbacks |
| `KernelThreads` | ready lists, `rt_schedule`, sleep, timeouts, semaphore, mutex |
| `ThreadLife` | threads from creation to the idle thread that frees them, on linked nodes |
| `SmallMem` | the heap's headers, `plug_holes`, first fit, `rt_realloc` in its sections |
| `MC...` | the constants of the small instances (`HidLink`'s are plain numbers in the cfg) |
| `...Proofs` | theorems and proofs of `JtagDriver`, `DapCommands`, `HidLink`, `ControlPipe`, `SmallMem`, `KernelTimer`, `KernelThreads`, `ThreadLife` |

**JtagDriver.** `odr` is the output register; `driven` says that the pins are
outputs; `call`, `at`, `stage` are the program counter in the cycle loop. A cycle is
`Setup` (TMS and TDI stored), `Rise`, `Sample` (only when TDO is captured), `Fall`.
The same four actions serve `jtag_clock_cycles`, `jtag_shift_data` and the two
loops in `dap_main.c`, which are the same loop with different TMS and TDI
strings; `JtagCalls` builds those strings as the code does. `jtag_goto_state` is
the walk `WalkTms` cut off at the cycle where the code returns. The delay loops
are not modelled: they take time and change nothing. Before the first
`jtag_gpio_init` the pins are inputs, edges do not reach the target, and TDO reads
as anything.

**DapCommands.** A byte of `resp_buffer` is modelled by who stored it, which is
what every question about the buffer is about: an earlier command, or this one
and which part of the answer. `Copy` therefore turns all bytes into `Old`. A
request is read as it is parsed: each loop step chooses the bytes it meets, so
all requests of a length are covered without enumerating them. `left` counts the
iterations of the loop, `req_pos` the bytes parsed, `resp_idx` is the handler's own
index. Handlers with nothing but a header in their answer share `Simple`; their
effect on the pins is `JtagDriver`'s.

**DapProbe.** Extends `DapCommands` by the target: a step that clocks the port makes
the calls of `JtagService` it consists of, in one step, since nothing comes between
them. A word of a transfer is `Word`: to Shift-IR, four bits, to Shift-DR, 35 bits, to
Run-Test/Idle, each way as long as `WalkLength` says; `scans` is a history of where the
data scans began. One register stands for the target's instruction and data registers,
so which instruction is in force is not seen. Before the first connect the input
register shows anything.

**HidLink.** `isr` is where the handler is; each action is one access to a register
the controller also changes, or to packet memory. Loading the endpoint
register (`LoadStatus`) and storing the bits to toggle are two steps, so the
controller and a bus reset can come in between. `w_reset` is the RESET bit of
`wIstr` as loaded last, at entry or in the loop. Simplifications: the load of ISTR
and the clearing of CTR in one turn of the loop are one step; endpoint 0 is just
the SET_CONFIGURATION that opens the endpoints; the frame, error, suspend and
wake-up flags are left out; the host gives a command up only by a bus reset.
To a host that waits for each answer all of it is `ReportExchange`, in which `Todo`
is the command in packet memory or in `req_buffer` that has not run.
The two HID buffers are taken to be apart from endpoint 0's, which `usb_overlap`
below shows they are not.

**FsdevEndpoints, ControlPipe.** The registers and `usb_dc_cfg` are one record, so
that a request which makes several calls is a composition of operators. A byte
is `<<object, index>>`: what it is a copy of. `dev` is everything the device keeps;
`pending` holds the CTR bits, served lowest endpoint first, and on endpoint 0 what
was received before what was sent (`USBD_IRQHandler`'s loop). One event is one step: what
the controller can do inside it is `HidLink`'s subject. `host` is external: it
runs a transfer stage by stage, may be ahead of the handler, abandons a transfer
by the next SETUP, resets the bus. `Profiles` are the sets of requests one
behaviour is about. Descriptors are their lengths. A request for the HID
descriptor finds a NULL pointer and the byte at address 0 as its length (`Byte0`).
SET_IDLE and SET_PROTOCOL store a byte like SET_REPORT. `usbd_ep_is_stalled` writes
nothing and is left out of GET_STATUS. A request to halt an endpoint, or to end a
halt, is refused before the device is configured, except for endpoint 0, where the
handler serves it at any time. The data toggles of endpoint 0 are not kept - each
SETUP sets them in the controller - so no profile ends a halt of endpoint 0's OUT
side, which would write its IN toggle.

**KernelTimer, Countdowns.** A thread's call is `StartRemove`, `StartStamp`,
`StartInsert` (and `Stop...`, `Detach`, `InitTimer`): the sections of
`rt_timer_start` between which interrupts are enabled, and the tick is read
outside both. `Expire` is one pass of `rt_timer_check`'s loop with what the
callback does to its own timer; `left` is a history that counts real ticks
to the due time, against which wrapped comparisons are judged. `Countdowns`
knows only `left`.

**KernelThreads.** What a call does with interrupts disabled is one step and
the `rt_schedule` after it another (`CallSchedule`). A thread's timer is a
count of ticks, the promise of `Countdowns`. `Unlisted` takes a thread's node
out of whatever list it is in, as `rt_list_remove` does. `has` records what
each thread was told and given. One semaphore and one mutex; a thread does
not wait inside `rt_enter_critical` (it would never be switched away from). A take
that waits for no time returns with the thread's error set to a timeout.
`kernel.lowered` is a history: `rt_mutex_release` restored a lower priority and
returned without scheduling.

**ThreadLife.** Where `KernelThreads` has lists, this module has what is in memory:
nodes with `next` and `prev`, so that a node inserted twice does to the lists what it
does in C. Each section of a call with interrupts disabled is a step, and so is each
look at a state, or store of one, outside them (`ResumeCheck`, `Suspend`,
`DetachStore`: `rt_thread_detach` stores that the thread is closed before the section
that files it, where `rt_thread_delete` does both in one; until then a closed thread
need not be in the defunct list). The manager is a thread that
makes calls on others - the firmware's main thread, which also ends by returning -
and the others sleep, wait, suspend themselves or end. `mem` says what exists of a
thread; `call[t].at = "gone"` is a history, that t ended. The priority of a
thread does not change. Three things the code lets a caller do, the manager
does not, because the kernel does not survive them; each is the mutant of a property:
deleting a thread whose timer runs (`DeleteTimed`), suspending a thread that may run
between the look and the section (`SuspendAny`), and resuming one that an
interrupt may wake between them (`ResumeAny`). After the first a closed thread is in the ready
list; after the others a thread that ended runs again. Nor does it delete itself,
or a thread that ended.

**SmallMem.** `mem.heap` maps the address of each header to the header; a
section under `heap_sem` is a step; `rt_realloc` that moves a block is
`Realloc`, `Expand` (its `rt_malloc`), `Moved` (copied, then freed). Addresses
count words of `RT_ALIGN_SIZE`. `rt_malloc`'s walk stops before the last `size`
words of the heap (`<` in its loop), so a block that would fit exactly at the
end is refused; the model does the same.

Interaction: `JtagDriver` composes `JtagTarget` and implements `JtagService`, on which
`DapProbe` puts the command processor;
`HidLink` runs a command as one step `Process`, which is what `DapCommands`
details (nothing in a handler depends on the link and nothing preempts it but
the controller, which goes on by itself between any two of `HidLink`'s steps);
`ControlPipe` composes device core, HID class and `FsdevEndpoints`, with the
exchange of `HidLink` as two single steps; `KernelThreads` rests on the promise
that `KernelTimer` is shown to keep.

## 3. Runs

| run | states | shows |
|---|---|---|
| `jtag_driver` | 875,528 | all sequences of calls, from all power-up TAP states |
| `dap_commands` | 25,595 | all commands, in any order |
| `dap_stale` | violation | `DAP_TRANSFER` answers with stale bytes |
| `dap_probe` | 154,886 | the command processor and the target in one model |
| `probe_scans` | violation | transfers are clocked in Run-Test/Idle |
| `hid_link` | 37,830 | one command in flight, host resets anywhere |
| `usb_control` | 111,437 | control transfers of every kind, abandoned, repeated, across resets, beside reports |
| `usb_overlap` | violation | a report replaces the bytes endpoint 0 is about to send |
| `kernel_timer` | 620,680 | timers of threads and callbacks beside the tick interrupt, ticks wrapping |
| `kernel_threads` | 2,002,060 | three threads that sleep, wait, nest and lock, beside interrupts |
| `thread_life` | 259,350 | threads started, suspended, resumed, deleted, ended and freed, beside interrupts |
| `heap` | 1,752,259 | all sequences of heap calls by two threads |

*Properties.* `jtag_driver`: `StableWhileHigh` (TMS and TDI move only with TCK low),
`LandsWhereTracked` (after `jtag_goto_state`, `current_tap_state` names the target's
real state, whatever it was before), `QuietLines` (SRST low only in a reset; TCK low
between calls), and `ImplementsService`: the refinement of
`JtagService`, in which a call in progress has not happened yet (`before`).
`dap_commands`: `StoresInBounds`, `NoWordDropped`, `OwedInOrder`,
`ReplyFresh`, `ClockAgrees`, `CommandsAnswered`. `dap_probe`: `NoFalseRead` (a read
is not answered without a fault unless it came through Shift-DR; as the code is,
that means never), `TransferLeavesIdle`. `hid_link`: `RunOnceInOrder`,
`AnswersMatch`, `AnswerNotTorn`, `Answered`, `Recovers`, and `ImplementsExchange`, the
refinement of `ReportExchange`: nothing a bus reset interrupts makes a command
run twice or be answered by another's answer.

`usb_control`: `InDataWhole` (a read ends with the first min(wLength, length) bytes
of the object asked for, in order, across packets and abandoned transfers),
`AddressAfterStatus` (never a new address before the status stage),
`TogglesAgree`, `BuffersInside`, `TransferEnds`. They excuse what the code does otherwise, and say so: a SETUP served
while the completion of the transfer before it was still pending (`late`: the
old completion moves the new transfer's data on); a request for which no handler
names data (`Unset`: the stale `ep0_data_buf` is sent, or nothing); toggles after a
cleared halt (`usbd_ep_clear_stall` works on the other direction, `fsdev:226-243`);
of an OUT stage in several packets the last one is kept (each is stored at the
start of `req_data`, `usbd_core.c:1070`), which no property is about: no report of
this device is longer than a packet. The host repeats an unanswered SET_ADDRESS
or resets: an abandoned one would take effect with another request's status.

`kernel_timer`: `SortedByDue`, `CheckEnds`, and
`ImplementsCountdowns`. Excused: a one-shot timer that its own callback starts
again loses its flag (`timer.c:542`), so `rt_timer_stop` refuses to stop it; a
period of zero ticks, which keeps `rt_timer_check` in its loop, is asked for by
nobody. `kernel_threads`: `ListsAgree`, `SemaphoreHonest` (a waiter is told it
has the semaphore exactly if a token was passed to it, whichever of release and
timeout came first), `MutexHonest`, `PriorityLent`, `HighestRuns` (excused after a
release that lowered the caller's priority, `ipc.c:838`, until the scheduler runs).
`thread_life`: `PicksReady` (whenever `rt_schedule` is called it finds a ready thread
that did not end), `ListsSound` (with the assertion of
`rt_thread_timeout`: a timer runs for a suspended thread only), `FreedUnused` (what is freed is in no list, has no
timer and does not run) and
`Reclaimed` (a closed thread is freed, if the idle thread runs again and again and
no more threads close: the defunct list is a stack, and without the second
condition TLC finds a thread that waits at its end forever).
`heap`: `HeapTiles`, `GivenApart`, `LowestFree`.

*Bounds.* `jtag_driver`: bytes of two bits and strings of three leave a byte
empty, full and partly filled, which are the only cases of the packing code; a
scan register of two bits is shorter than the strings, so shifted-in data comes
out again. Six goto targets cover each return of `jtag_goto_state` and its default. The
number of calls is not bounded. `dap_commands`: a report of 10 bytes and a
response buffer of 40 keep the relations that matter (buffer at least four
reports, a multiple of a word), and 16 words overrun the buffer, so the room
check fires; counts include 0, 1, one more than a request holds. `dap_probe`: one or
two words or sequences, TMS strings that lead from Run-Test/Idle to Shift-DR when
put together, all TAP states at power-up. `hid_link`: three
reports per session (with and without bytes) and two resets made by the host of
its own accord, besides any number of enumeration retries, which are not
numbered because nothing was sent before them. `MaxReports` and `MaxResets` bound
`HostSend` and `HostReset`; two resets are what it takes to hit the handling of a
reset with another, three reports let one be answered, one be in flight and one
be sent. `Window` is 1 because `DAP_INFO` announces a packet count of 1
(`dap_main.c:135-138`); with 2 an answer may overwrite one that was not collected,
which the protocol excludes. The run says `CHECK_DEADLOCK FALSE`: when the reports
are used up the device waits for a host that has nothing left to say.

`usb_control`: packets of two bytes, so that objects of one, three and requested
lengths of one to four are shorter than a packet, a whole number of packets, and
longer; packet memory of eight packets; seven profiles of three to six requests.
`MaxAborts` is 1: transfers the host abandons in a row. `MaxOffset` is how far
`ep0_data_buf` may run past an object before the model stops adding to it, which
takes late completions. `Serial` keeps reports and control transfers from using
the shared buffers at once; `usb_overlap` has them together. `kernel_timer`: eight
ticks, so that they wrap often; delays of 0 and 1, and a start held up by at most
one tick (`MaxPreempt`), which is what `TickMax / 2` = 3 allows: `d + MaxPreempt <
TickMax \div 2` and `MaxPreempt + 1 < TickMax \div 2` are the assumptions the wrapped
comparison needs. `kernel_threads`:
three priorities beside idle, waits of one tick and forever, two tokens
(`MaxTokens`), the mutex nested twice (`MaxHold`); the objects queue by priority.
With FIFO queues the mutex gives priority inversion, which is what that flag
asks for, and `PriorityLent` does not hold. `thread_life`: threads above, at and below
the manager's priority, one of each kind (allocated, static, static with a
cleanup function); nothing is counted, so nothing is bounded. `heap`: up to four blocks, sizes below
the minimum, of one block, and of most of the heap; the two threads are
symmetric and are compared with nothing.

*Fairness.* `WF_vars(Process)`: the processor executes the interrupt
handler it is in. No fairness for `Begin` and `Receive`: nobody need call. `HidLink` has
weak fairness for the handler, and for three host actions that USB hosts
perform as part of the protocol: polling an interrupt endpoint with an answer
outstanding, retrying a device that does not answer after a reset, and
finishing enumeration. There is none for sending commands or resetting. `ControlPipe`:
weak fairness for the interrupt handler and for the three host steps that go on
with a transfer already begun (`HostIn`, `HostOut`, `HostStalled`); none for SETUP,
reports or resets. `KernelTimer`: weak fairness for the tick interrupt, which the
hardware timer raises and nothing below it can hold up; none for threads.
`ThreadLife`: strong fairness for the idle thread's steps, because it runs only
when the others let it; that they do is a condition in `Reclaimed`.
`KernelThreads` and `SmallMem` have no liveness properties: whether a thread
ever runs is up to the others.

*What the three violations say* (`findings` in `PROJECT.json`):

1. `dap_stale`: `DAP_TRANSFER` stores words three bytes further than its answer's
   length counts (`dap_main.c:497-498`). `StoresInBounds` shows that the offset does
   not reach beyond the buffer.
2. `probe_scans`: no transfer reaches the target's data register. `jtag_goto_state`
   ends in Run-Test/Idle for every state it has no case for, Shift-DR among them
   (`DAP/src/jtag_driver.c:209`), and its six cycles of reset undo the
   instruction loaded before. Reads of `DAP_TRANSFER` say FAULT; writes and blocks,
   whose acknowledgement nobody looks at, do not. The raw sequences do not depend on it.
3. `usb_overlap`: a bus reset opens endpoint 0 and then puts `pma_offset` back
   (`usb_dc_fsdev.c:382`): SET_CONFIGURATION places the HID buffers over endpoint
   0's, so a report that arrives during a control transfer replaces bytes about
   to be sent. The theorem `Overlaps` says that this is so in every configured device.

*What the models excuse and the code's comments do not.* The first `DAP_CONNECT`
drives SRST low between the change to output (`jtag_driver.c:80`) and the store of
the levels (line 90), where line 88 says "SRST=1 (inactive)": `QuietLines` begins
after the initialisation. `dr_tdi` holds a word from its ninth bit on and 35 bits are
shifted, so the upper five bits of a word never leave (`dap_main.c:534-547`: "1 start + 2
A[3:2] + 1 RnW + 32 data"): `DrBits` has them so. `rt_realloc` that shrinks a block
does not lower `lfree` (`mem.c:493`), "pointer to the lowest free block"
(`mem.c:131`): the free rest may lie below it, where `rt_malloc` does not look until
something else moves `lfree`; `LowestFree` says that nothing but such rests is
ever missed.

## 4. Proofs

Each proof module proves its component's theorems for all constants that satisfy
the named assumptions. `CaptureAssumption` (the target's capture values are
non-empty bit strings), `CallAssumption` (calls carry bit strings),
`DriverAssumption` (a byte has at least one bit), `DapCommands`'s `SizeAssumption`
(words of four bytes, a response buffer that is a multiple of a word and at least
four reports long, a report of at least 8 bytes; lengths and counts within their
bytes: 64, 512 and 4 satisfy it), `MemoryAssumption` (room for the buffer table and
more than three packets), `ControlAssumption` and `RequestAssumption` (descriptors
have lengths; requests have a recipient and a code some handler knows),
`HostAssumption` (a host's requests are well formed: it reads descriptors, the status
and the report, selects without data, and asks an endpoint that exists),
`SmallMem`'s `SizeAssumption` (a heap of at least the smallest block, sizes from 1 to
the heap's), `ThreadAssumption` (finitely many threads, the idle thread below all
others; `MaxTokens` and `MaxHold`, the model's bounds, are any numbers),
`TickAssumption` (delays and held-up starts below half of the ticks),
`LifeAssumption` (the list heads are different objects, in no control block; the idle
thread below all others).

*Pin driver.* The properties are not inductive: that the TAP lands in
Run-Test/Idle depends on how many edges of the reset it has seen. `IInv` adds
`StageInv` (each step belongs to one kind of call, the cycle number stays in the
call), `ClockInv` (TCK is high exactly between `Rise` and `Fall`), `SrstInv` and `WalkInv`.
The last is the heart: `ToReset` gives each TAP state's distance from
Test-Logic-Reset under TMS = 1, after k edges the TAP is at most 5 - k away
(`OneEdgeCloser`), at 6 it is there, and from then on it is in the one state that
`WalkState` names. `GotoLands` and `LevelsStable` are action properties derived from it.

`Refinement` shows `ImplementsService`. What a scan does is a recursive function of its
strings; `CourseExists` shows that it has a value for strings of every length, by the
least length that has none, and `ScanCourse` that it is where the course ends. `SInv`
says of a call in progress that the target is where the course was after the edges so
far, that TDO still shows what it showed before the last of them until TCK falls, and
that the bits read are the course's, cut into bytes (`Cut`). `CutGrows` is the step that
reads a bit, `CutPacked` the flush at the end: what is handed back is the string packed.
A call before the pins are driven leaves the target alone and packs what it read.

*Command processor.* `IInv` relates, loop by loop, the response index to the
request bytes parsed: a sequence's answer is paid for by the TDI bytes of the
request (`SequenceInv`), each word of a transfer by one request byte
(`TransferInv`), and a block's index is 2 modulo 4 (`BlockInv`), which together with
the size's divisibility by 4 gives `StoresInBounds` at the last byte of the buffer.
`CopyInv` carries what the finished answer satisfies to the moment it is handed on.

With the target (`DapProbe`) the handlers stay those of `DapCommands` (`ProbeIsCommands`), so
all of this still holds. A scan has its course here too, and `AlongCourse` shows what
holds after each cycle of it. From there
`WalkEndsIdle` (from every TAP state, asked for Run-Test/Idle or for Shift-DR, the walk ends
in Run-Test/Idle) and `WordNotAcknowledged` (so the acknowledgement reads as ones) give
`ProbeInv`. `ReadsNotFalse` is therefore, for the code as it is, the statement that no word is
ever answered as read without a fault while the pins are driven.

*Report exchange.* `RunOnce` holds for every `Window`. `ArmInv` says why: from the
arrival of a report until the handler re-arms the endpoint, the endpoint takes
no other, or the bus was reset and a report can come only after the handler has
been left (`HostInv`). `OrderInv` orders what the device holds: the report in
packet memory, the one being processed, and those that ran, by session and
number. The toggle arithmetic enters by `ToggledStatus`: whatever was loaded and
whatever the status is by now, toggling the difference gives a status.
`AnswersAlwaysMatch`, `AnswersNotTorn` and `Refinement` assume `Window = 1`. `AnswerInv` says what that
gives: a command asked and not answered is in exactly one place - in packet
memory, in the handler, or in the answer about to be offered - and the IN endpoint
is valid only when the answer in its packet memory is the one asked for. A command
given up may still be anywhere in the handler, but what it offers goes to an
endpoint the reset has disabled, and `OpenIn` leaves that at NAK. `AnswersNotTorn` rests on
this: until that last answer is offered the IN endpoint is not valid (`GivenUpInv`).

*Endpoints and control transfers.* `Device` holds of the device record through
every composition of handlers: each operator has a lemma that it leads `Onward`
(the invariant kept, buffers kept, the request unchanged), and `SetupLater`,
`OutOnward`, `InOnward` chain them in the order of the code. The layout is exact:
endpoint 0's buffers follow the buffer table, the HID endpoints' lie at the same
addresses, no endpoint is open without a buffer, and HID endpoints have none
before endpoint 0 has. That gives `BuffersGood` and `Overlaps`, whether or not the host
uses both pairs at once (`Serial`).

What the host believes of the device is `Accord`: a SETUP that waits is the host's
request and nothing moves on endpoint 0 meanwhile (`SetupWaits`), the status packet
of a request without data is ready only after the request was handled, with the HID
toggles at zero if it was one that opens the endpoints (`StatusReady`), and from then
on both sides flip together (`Toggles`). It needs lemmas on what each handler leaves
alone: `HandledHid` (only the selecting requests and the halts touch the HID
endpoints), `OutGone` and `InGone` (what a completion served late does to the transfer after
it). `TogglesInStep` and `BuffersOpen` follow, the second because the HID endpoints of a
configured device are open, so `usbd_ep_open` found room. `AddressLast` needs one
fact more, `Overtaken`: while a status is to come, a completion that waits is an old
one, which the property excuses. `ReadsWhole` follows the bytes: `Holding` says
that the packet in the buffer continues what the host has, and `ep0_data_buf` and the
residue what is in the packet, from `usbd_send_to_host` through each completion
(`SendHolds`, `InGone`); its hypothesis `Serial` is what the `Overlaps` theorem shows to be
necessary.

*Heap.* `IInv` says that `next` and `prev` link the headers both ways, that
no two free blocks are neighbours, that `lfree` is a free block or `heap_end`, and that
the used blocks are those given. `Split` and `Absorb` keep the first part
(`Divided`, `Joined`); during `plug_holes` the second fails at exactly one block, which
`HoleAround` and `HoleBefore` follow through its two halves.

*Timers.* That the list is sorted says nothing by itself of the tick values in it,
which is what `rt_timer_start` compares. `Good` ties them: the timeout of a timer that
waits is `rt_tick` plus the ticks left, modulo the ticks, and what is left lies
between `-(MaxPreempt + 1)` and half of the ticks less `MaxPreempt` (`InRange`), so
that two of them never differ by half of the ticks. Then a wrapped comparison is the
comparison of what is left (`ComesAfter`), and the due test is that nothing is left
(`DueWhenOver`). `Stamps` carries the timeout of a start that ticks interrupt,
`Prompt` says how late a timer may be when no check is running, and `Alone` that a
call's timer is out of the list between its sections. Each of the list operations has a
lemma on what it leaves of a good list (`InsertedDoes`, `LeavesGood`, `StartedDoes`, ...),
on top of what taking out and putting in do to a sequence (`Withdrawn`, `PutIn`).
`Refinement` maps the steps: the ticks that passed between the two halves of a
start are `Countdowns`' `late`. The attempt found the old assumption too weak: with
delays of 0 only, `d + MaxPreempt < TickMax \div 2` admits a start held up by half of the
ticks less one, and the tick that ought to find the timer due no longer does (TLC
confirms it with `TickMax` = 7, `MaxPreempt` = 2). Hence `MaxPreempt + 1 < TickMax \div 2`,
far below what any preemption of this firmware reaches.

*Threads.* `IInv` says first that the kernel is `Tidy`: each thread's node is in
exactly the lists its state and priority say. Each of the kernel's operations has a
lemma on what it leaves of a tidy kernel (`ResumedTidy`, `SuspendedTidy`,
`TimedOutTidy`, `PriorityTidy`, `ScheduledTidy`, ...), which stand on what
`RemoveFirst`, `Append` and `InsertAt` do to a list without repetitions. `PcInv` then ties
the lists to the calls: only a thread inside a call that waits is suspended, and
the running one only just before that call's `rt_schedule`. `SemInv` and `MutexInv`
say that a thread inside such a call has the object exactly if it is ready and
its error number is clear, and any other thread exactly if it was told. That is
why a timeout and a release cannot both be answered: each needs the thread
suspended and makes it ready. `PrioInv` adds that a queue by priority is sorted, so
that the first waiter runs at no lower priority than those it leaves waiting.

*Life of a thread.* The lists are links between nodes, so the invariant cannot say
"is in the list" of them: that is what following the links arbitrarily far finds.
`Sound` has local facts that suffice. The links agree both ways. A node's
neighbours have its `Home`, the list named by a thread's state, so no step mixes
two lists. Some numbering of the threads increases along each list
(`Numbered`), so that no thread is in a ring without a head, where the kernel would not
find it. `RemoveWhole` and `InsertWhole` are about bare links,
and each operation of the kernel has a lemma on top of them that says that the kernel
stays `Sound`, and what it leaves of every other thread (`Others`). `Filled` and `NextReady` are
what follows for `rt_schedule`: while the idle thread is ready it finds a thread that is.
The rest of `IInv` is what the manager's call may rely on between its sections
(`ManagerInv`), and there the three restrictions of the manager are used: with any of
them dropped it is not kept. `ListInv` says when a thread that is ready or closed is
linked: always, but in the two places where a call holds it between lists.
Following the links comes last. `ListedMembers` says that `Listed` finds the linked
threads whose state names the list, no more and no fewer: only such nodes are met
(`TrailStays`); one is met twice, as there are more steps than nodes, and so one is
back at the head (`TrailReturns`, where `FiniteAssumption` is used); and the member
with the lowest number that is not met would follow one that is (`TrailMeets`).
`ListsAlwaysSound` is this and `ListInv`.

Every safety and action property of the passing runs, and every refinement, is stated by
a theorem. *Only model-checked*: liveness (`CommandsAnswered`, `Answered`,
`Recovers`, `TransferEnds`, `CheckEnds`, `Reclaimed`), which is out of the prover's reach.

## 5. Not modelled

- Suspend and wake-up handling, frame and error flags: the suspend branch waits
  inside the interrupt for a flag that the controller raises in its own time.
  `usb_dc_deinit` has no caller, nor has `jtag_gpio_deinit`. Vendor requests, for
  which no handler is registered.
- Threads: deleting or resetting an object that has waiters, resuming a
  waiter (its take returns RT_EOK without the object), two threads that manage
  the same one, a thread that deletes itself, idle hooks, events, mailboxes and
  queues (not configured). Timers: soft timers (not configured), `rt_tick_set`.
- Heap: rounding of sizes to `RT_ALIGN_SIZE` near 2^32, `max_mem`, the listing
  functions.
- Descriptors' contents, start-up, register setup (constant data and
  straight-line writes); devices, serial and pin drivers and application
  threads (nothing of them shares state with the command path).
- Vendor libraries and CMSIS, most of the repository by lines: register accesses
  without control flow of their own, largely unused by this firmware.
- Time (delays change no state); electrical matters such as SRST's push-pull
  mode. The target's answer inside a
  data scan, were one to reach it, is that of a plain scan register.

## 6. What is left

1. Suspend and wake-up, once the controller's timing of RESET and WKUP is known.
