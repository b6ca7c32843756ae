# A TLA+ model of libultra

This directory models libultra, the operating system and device library of the
Nintendo 64 in this repository (`src/src`, `src/include`). One processor runs
threads by priority; hardware interrupts become messages; everything above
(timers, the RCP task scheduler, the device managers, the players of the audio
library) waits for messages or is called by a thread that does. Paths below are
relative to the repository.

Contents: 1 inventory, 2 modules and how they correspond to the code, 3 the
runs, 4 fairness, 5 what is proved, 6 divergences, 7 what is left out, 8 plan.

## 1. Inventory

`PROJECT.json` lists every part of the repository under "components", and under
"hazards" the places that are hard to test, each at its line. In short:

| Component (sources) | State it keeps | What must hold | Here |
|---|---|---|---|
| Threads (`os/*thread*.c`, `os/exceptasm.s`, `os/thread.c`) | thread table, run queue, wait queues, `__osRunningThread` | a thread is in one list, the one its `queue` field names; lists are sorted; the most urgent ready thread runs; the sentinel never does | `ThreadQueue`, `OSKernel` |
| Message queues (`os/sendmesg.c`, `jammesg.c`, `recvmesg.c`) | ring buffer, two wait queues | bounded FIFO; no message lost or made up; no wake-up lost | `OSKernel`, `MesgBox` |
| Exceptions and events (`os/exceptasm.s`, `os/seteventmesg.c`) | `__osEventStateTab`, `__osShutdown`, `__osPreNMI` | order of service; redispatch by priority; the reset is announced once | `OSKernel` |
| Interrupt masks, FPU (`os/setintmask.s`, `os/interrupt.s`) | masks of CPU and RCP, `__OSGlobalIntMask`, contexts | a thread goes on with the masks and registers it had | `Contexts` |
| Timers (`os/timerintr.c`, `settimer.c`, `stoptimer.c`) | delta list, `__osTimerCounter`, Count, Compare | never early; always an interrupt to come; every timer fires | `OSTimer` |
| RCP scheduler (`sched/sched.c`) | task lists, current tasks, task states, two queues | no task lost or returned early; no drawing over a frame not shown; no failed assertion | `OSSched` |
| RSP tasks (`io/sp*.c`) | the task's flags, data and microcode | a task that yields does each piece of its work once | `RspTasks`, `OSSched` |
| VI manager, modes (`io/vi*.c`, `vimodes/`) | two VI contexts, retrace counts, 64-bit time, 56 modes | a change is shown as a whole and stays; time is kept; what is shown is the frame | `ViMgr`, `ViModes`, `OSTimer` |
| PI manager, disk (`io/devmgr.c`, `io/pi*.c`, `io/epi*.c`, `io/leointerrupt.c`) | command queue, access token, event queue, timings | one owner of the bus; a transfer is awaited by its own request, at its own speed; every request is answered | `PiMgr` |
| SI, controllers, EEPROM (`io/si*.c`, `io/cont*.c`, `io/motor.c`) | access token, PIF buffer, `__osContLastCmd`, centres and map of the pads | the answer read is the one asked for; nothing is sent to a busy part; every call returns; sticks and buttons are told as they are | `SiController`, `PakAccess`, `PadReader` |
| Controller pak (`io/pfs*.c`, `io/contpfs.c`) | inode tables and copies, directory, id in four places | no page of two files, no file lost by a power cut; the id survives; a block is the file's own | `PakFiles`, `PakAccess` |
| Game Boy pak (`io/gbpak*.c`) | status, bank and power of the handle | what is read is where it should be | `GbPak` |
| Voice unit (`voice/`) | mode, step of a recognition, words | results in order, once | `VoiceUnit`, `SiController` |
| Flash memory (`flash/`) | kind of chip, status, page buffer | a call says what the pages are; a read is split at the right places | `Flash` |
| AI (`io/ai*.c`) | two buffers, the last address | each buffer plays from its place | `AudioOut` |
| Event queues and players (`audio/event.c`, `seqplayer.c`, `csplayer.c`, `sndplayer.c`, `seq.c`, `cseq.c`) | delta list, voices, channels, tracks | the queue holds what the voices and the score will do, and nothing else | `EventQueue`, `SeqPlayer`, `SeqChannels`, `SeqTempo`, `SequenceReader`, `SndPlayer` |
| Synthesizer and filters (`audio/synthesizer.c`, `syn*.c`, `env.c`, `load.c`, `resample.c`, `reverb.c`) | physical voices, updates, decoder state, pitch, delay line | updates reach the voice of their note, in order; the samples are those that are next | `Synthesizer`, `AudioFilters` |
| Regions, audio heap, banks (`rg/`, `audio/heap*.c`, `bnkf.c`) | free list, heap, pointers of a file | no buffer twice; inside the memory that was given; each pointer moved once | `Storage` |
| Logs, debugger link, profilers (`log/`, `os/rdbsend.c`, `host/`, `debug/`) | log, ring of packets, times and bins | the host gets each stream once and in order; each thread is given the time it ran | `DebugLink` |
| Caches, TLB (`os/*cache*.s`, `os/*tlb*.s`) | lines, entries, registers | what was put at an address is found there | `Caches`, `Tlb` |
| Block moves (`libc/bcopy.s`, `bcmp.s`, `bzero.s`) | | bytes are moved exactly | `BlockMoves` |
| Mathematics, display lists, formatted output, boot, error reports | none worth a model | | not modelled |

How they interact. Interrupts meet threads only in `__osException`, which posts
the message of an event (`send_mesg`) and redispatches. Threads meet each other
in message queues. The video manager's thread receives the retrace and the
counter interrupt in one queue of five messages; it walks the timer list and
passes retraces on to the scheduler's queue. The RCP scheduler receives
retraces and the ends of RSP and RDP tasks in one queue of eight messages, and
replies to its clients with a send that may block. The PI and SI calls serialise
on a token kept as a message in a queue of one. The audio library runs in the
thread that calls `alAudioFrame`: the synthesizer calls its players' handlers,
which post events to themselves and updates to the voices.

The hard behaviour is in those meetings: a woken thread that finds its message
taken, an event that arrives inside a call, a task that ends while it is being
asked to yield, a timer that expires while it is being stopped, queues that
are full when an interrupt posts to them, a device that is exchanged or fails
between two transfers of one call.

## 2. Modules

### ThreadQueue, OSKernel: threads, message queues and exceptions

`ThreadQueue` holds the routines on lists (`__osEnqueueThread`,
`__osPopThread`, `__osDequeueThread`, `__osDispatchThread`,
`__osEnqueueAndYield`, the body of `osStartThread`, the `redispatch` code) as
operators from scheduler state to scheduler state. `OSKernel` composes them into
one action per call and per exception. A linked list of threads is a sequence;
the sentinel `__osThreadTail` is its end, and appears as the value `ThreadTail`
where the code could dispatch it.

*Granularity.* A call runs with interrupts disabled, so it is one action up to
the point where it yields. A thread that yields inside a call is resumed with
interrupts still disabled: `call[t]` keeps what is left of the call, and the
first step after a dispatch is that rest (`ResumeMesg`, `ResumeSetEvent`). This
is where the loops of `osSendMesg`, `osJamMesg` and `osRecvMesg` test again. An
exception is a sequence of actions: `Exception` takes any set of causes that are
pending together, `ServeCause` and its siblings serve them in the order of the
code, `ReturnFromException` redispatches. `osSetEventMesg` is cut where its own
`osSendMesg` may yield before `__osPreNMI` is set.

*Choices.* A callback's result (cartridge, PI) is nondeterministic. Calls with
`OS_MESG_NOBLOCK` that fail change nothing and are stuttering steps.
`osStartThread` applies to stopped threads, the only legal argument. The bits of
a saved status register are reduced to one: whether IP5 is masked (`nmiOff`).
`nmiSent` and `nmiLost` are history variables; `nmiSent` stops at `NmiSentMax`.

### MesgBox: what a message queue promises

A sequence per queue and a pending call per thread; no ring, no wait queues, no
scheduler. A call takes effect once and as a whole; a pending call completes
when it can; an event's message is added or dropped. `OSKernel!ImplementsBox`
is the refinement: `box` is the ring read from `first` on (`Contents`), the
pending call is `call[t]`, `alive` is the active list. It says that no
interleaving of calls, wake-ups, stops, destroyed threads and interrupts loses,
doubles or reorders a message, or completes a call twice.

### OSTimer: the interval timers

The list, the relative values, `__osTimerCounter`, Count and Compare with wrap
at `CountMod`, the interrupt flag, the queue of the video manager, and that
manager's walk cut where interrupts are enabled: take the message, expire the
first timer (message sent, list without the timer), put a periodic timer back,
program Compare or finish. `osStopTimer` is two steps, its test and its masked
part. Time is `Tick`; the history variable `left` is the true time each timer
has to wait, against which the list's relative values are compared.

*Choices.* The manager is more urgent than every client, so clients run only
while it waits (`AppRuns`). Several reads of Count within one masked section are
one reading. `CountMod` and `MinDelay` stand for 2^32 and 468. `MaxLag` bounds
the cycles an interrupt and the walk take, below one wrap of Count: the code
itself cannot tell two wraps from one.

### OSSched: the RCP task scheduler

One action per message the thread takes (`HandleRetrace`, `HandleRSP`,
`HandleRDP`, `HandlePreNMI`), but a retrace begins with the loop that fetches new tasks, whose
passes are actions (`AppendList`) between `HandleRetrace` and `Retraced`, since clients
may submit meanwhile; the end of a task is cut at the reply that may
block (`SendDone`), at the buffer swap (`SwapBuffer`) and before the next task
is chosen (`StartNext`). `__scSchedule` is the operator `Schedule`: what it
chooses and the lists it leaves are a record (a plan), its recursion is two
applications of `Pick`, each of which takes at least one of the two processors.
`Exec` starts the plan. RSP and RDP are actions of the environment: `SpFinish`,
`SpYield`, `DpDone`, in any order the hardware allows, among them a task that
ends instead of yielding. `Field` is the video manager: it shows the next frame
and posts the retrace.

*Choices.* A task's kind is `AUDIO`, or graphics: `XBUS` (RSP feeds RDP), `DRAM` (RDP reads
the RSP's output later), `RSP` (`OS_SC_DP_XBUS` and `OS_SC_DP_DRAM`, the RSP only) or `RDP`
(the default branch of `__scSchedule`). The code does not end the last two properly (section 7),
so the runs use the first three; `Mixes` says which tasks a behaviour has. The client list is a set. `Ndebug` compiles assertions
out together with the call inside one of them.

### PiMgr: the parallel interface

Clients (`thr`), the host of a development system, the manager thread and the
handler of the disk drive share the bus through the access queue (`token`), and
one command queue with room for `CmdLen` requests. A DMA request goes through
`MgrRecv`, `MgrAccess`, `MgrStart`, `MgrEvent`, `MgrReply`, `MgrRelease`, the
parts of `__osDevMgrMain` between its waits; a disk request has `MgrLeo...` for
its own branch, and `LeoTransfer` for `__osLeoInterrupt`, an action per call of
the handler. `slip` records what the handler did that the code
does not mean: "C2" after the missing return at `src/src/io/leointerrupt.c:107`,
and "TWICE" where the second block of a track read fails while the first one is
being answered, so that the manager is resumed twice; properties that end there
say so. `Boot` is the
thread that makes the queues; `RaceAtBoot` lets two threads make the access
queue. `MaxCalls` bounds the calls, `MaxC1` and `Spare` what the drive reports.

### SiController: the serial interface

A thread is in a call (its list of exchanges) and at one of the steps access,
pack, send, fetch, parse. `buf` is what a PIF buffer holds: the command, its block,
whether the PIF has answered it and what; `last` is `__osContLastCmd`. A call of the voice unit or of the EEPROM is a program of
exchanges (`Programs`). Faults are lost answers and wrong check sums, `MaxFaults`
of them; `stale` marks the record that `__osContChannelReset` leaves wrong.

`osContStartReadData` and `osContStartQuery` give the access token back while their
second DMA runs (`src/src/io/contreaddata.c:53`), and the code has nothing that keeps
another thread from calling until the answer is read. `MayCall` is therefore a rule for
the program and not a part of the code: unless `Overlapping` is set, no thread begins a
call while another one polls or queries, and none polls while another is in a call
(`Paired`). With `Overlapping` any call begins at any time; what then happens is in
section 6.

### ViMgr and ViModes: the display

`ViMgr` has the two contexts as functions from a setting to a value; each call
is an action and `Retrace` is the body of `viMgrMain` for a retrace, with
`__osViSwapContext`. `ViModes` generates the 56 modes from what distinguishes
them; the table `osViModeTable` and the files of `vimodes/` were compared with
the generated records field by field. `Registers` is what `__osViSwapContext`
computes of a mode and the settings; the video interface is a function from
registers to the places of the frame that it reads (external).

### The audio library

`EventQueue` is the delta list; `SeqPlayer`, `SeqTempo` and `SndPlayer` extend it,
each with the handlers of its events as actions; the state of a voice or a sound
is related to the events that wait for it. `SeqChannels` models what the players
tell the synthesizer of a voice, `SequenceReader` how the next event of a score is
found. `Synthesizer` models a frame: the handlers of players that are due, and
the rendering in parts, each of which applies the updates that fall into it.
`AudioFilters` has the load filter and the delay line on a memory of places, and
treats a sample as its number; its resampler counts the samples that are asked for, and
the fractions of one that are left, next to those that the microcode passes over.

Bad uses that the code does not survive are switched off by a constant each,
named in section 6: `Overlapping`, `VoiceErrors` (SiController), `Hasty`, `LiveMidi`, `EndsEarly` (SeqPlayer), `LiveTempo`
(SeqTempo), `Outside`, `Scarce` (Synthesizer), `TinyLoops`, `Unstopped` (AudioFilters).
`Patient` (SeqChannels) makes a program ask for one thing at a time. In the same
way `Sloppy`, `MainFails`, `HiddenSwaps` (PakFiles), `GbNoticed`, `AnswerLost`,
`Leftover` (GbPak), `Racing` (Contexts), `Alone` (Tlb), `Mixed0`, `ChangesBack`
(Flash), `Serialised` (Storage), `PutsBusy` (DebugLink), `Undisturbed`, `Exits`
and `OddCallers` (the profilers in DebugLink), `SwapsUnseen` and `Glitches` (PadReader) let
in the use that violates a property, or keep it out.

### Paks, flash, voice, memory, debugging

`PakFiles` models a call as the list of the block writes it has still to do, so
that a power cut, a failed write or an exchange of paks comes between any two of
them; `osPfsInit` with the checker is such a call. `PakAccess` does the same for
the pak's id, has the walk of `osPfsReadWriteFile` over pages and banks, and the
three polynomial check sums of the serial interface, which it feeds with bursts
of flipped bits.
`GbPak` keeps a stack of the functions a call is in, and returns to the one below
when a transfer ends. The pak may be replaced, and the cartridge be taken out, put in or
exchanged, between any two transfers; what a status call read before is what
`osGbpakReadId` goes by (`gbstatus`). `__osPfsGetStatus` is an exchange of its own that may
fail (`PakStatus`). `VoiceUnit`, `Flash`, `RspTasks` and `AudioOut` model a device
from how the library drives it (external) next to the calls. `PadReader` is what
`osContGetReadData` makes of the answers of N64 and GameCube pads; how they are
exchanged is `SiController`. `Contexts`, `Caches` and `Tlb` model registers and lines.
`Storage` and `DebugLink` (which has the profilers) have one group of actions each for
the parts their comments name. `BlockMoves` steps
through the loops of `bcopy`, `bcmp` and `bzero`, a pass each, for every overlap
and alignment in a small memory.

### MC modules

`MCOSKernel`, `MCOSTimer`, `MCOSSched`, `MCPiMgr` and `MCSiController` name model
values and give the constants that are functions. `MCMedia` and `MCDevices`
compose modules that do not interact: a variable `part`, chosen at the start,
says which of them takes steps, and the variables of the others keep their
initial values. A behaviour is so one of one part, and the state space is the
sum of the parts', not the product; it is one run instead of many. A property
of such a run is the conjunction of properties of its parts. Application threads
in `OSKernel` and timers in `OSTimer` are interchangeable: no constant and no
CHOOSE tells them apart, and both are symmetry sets in the runs that check
safety properties. Definitions marked "Mutant" are wrong variants of the
definition that follows them; no specification uses them, they document which
mistake each property detects.

## 3. Runs

| Run | Instance | Checks |
|---|---|---|
| `kernel_mesg` | idle thread and 3 threads of 2 priorities, one queue of 2 messages, video interrupt, send / jam / receive / stop | `TypeOK`, `NoLostWakeup`, `ImplementsBox` |
| `kernel_threads` | idle thread and 2 threads, one queue of 1, causes VI, SP, SP break alone or together, every thread call, faults and breakpoints | `Placement`, `ListsSorted`, `UrgentRuns`, `TailNeverRuns`, `Turns` |
| `kernel_live` | the same threads, PRENMI with VI, CART and PI in every combination, one client that registers before or after | `NmiServedOnce`, `TopReceives` |
| `timer_list` | 3 timers, 3 calls of osSetTimer, Count of 4 values, a countdown longer than Count, retraces, a queue of 1 | `ListTrue`, `NeverEarly` |
| `timer_live` | 2 timers, Count of 8 values | `Fires` |
| `timer_stop` | the same, the test at the top of `osStopTimer` | `StopsActiveOnly` is violated |
| `sched` | in each behaviour two XBUS tasks and an audio task of two clients, or two DRAM tasks and an XBUS task that each end a frame | `TasksAccounted`, `NoAssert`, `DrawsAfterSwap` |
| `sched_live` | a graphics task and an audio task of one client, whose queue of one is often full | `TasksReturn` |
| `pi` | two client threads with three calls, the host, two cartridge handles and a disk handle, two sectors a block | `OneOwner`, `AwaitsItsOwn`, `AtItsSpeed`, `Served` |
| `si` | two threads with three calls, two channels, one fault | `NeverRefused`, `AnswersBelong`, `EepromWaits`, `Returns` |
| `media` | twelve parts: sequence players, channels, tempo, scores, sound player, synthesizer, loader, resampler, delay line, video contexts, video modes, pak files | `QueueMatchesPlayer`, `VoicesAsSet`, `SoundsEnd`, `VoicesInStep`, `RetraceKeepsUp`, `HeardAndShown`, `PaksConsistent` |
| `devices` | twenty-one parts: voice unit and words, check sums, block moves, Game Boy pak and its connector, contexts, caches, TLB, flash, RSP tasks, audio output, region, heap, bank file, debugger link, two profilers, pak id and pak data, pads | `DevicesInStep`, `MemoryInStep`, `ContextKept`, `CachesInStep`, `FlashSaysSo`, `WorkDoneOnce`, `AudioAsAsked`, `PadsTrue` |

What the properties say:

- `NoLostWakeup` is `NoLostReceiver` and `NoLostSender`: threads sleep on a queue
  with messages (with room) only while as many woken threads are on their way. A
  weaker statement is false: a woken receiver may be overtaken, and then sleeps
  again. `ImplementsBox` is the refinement of `MesgBox`.
- `Placement`: `OSThread.queue` is never cleared and still is right wherever it
  is used; a thread that waits is in the queue of the call it is in.
- `UrgentRuns`, `ListsSorted`, `Turns`: scheduling by priority, and turns among
  equals (who comes later stays behind in every list; an interrupt takes the
  processor only for a more urgent thread).
- `TailNeverRuns`: the code pops the run queue without a test; the idle thread
  keeps that safe.
- `NmiServedOnce`: the reset is announced exactly once, and the thread that runs
  after its first handler has IP5 masked. `TopReceives`: the most urgent thread
  that waits for an event gets it.
- `ListTrue` is `DueInTime` (the relative values add up to no less than the true
  time) and `Watched` (while a timer is active something will look at the list in
  time). `NeverEarly` and `Fires`: each expiry is at its time or later, and comes.
- `TasksAccounted` is `Tracks` (a processor's task is the scheduler's current task
  until exactly one message of its end is served) and `HandedBack` (a task is held
  by the scheduler or was returned, and never both). `DrawsAfterSwap`: the reason
  `__scTaskReady` gives at `src/src/sched/sched.c:332`. `NoAssert`: no assertion of
  the scheduler fails. `TasksReturn`: every task comes back.
- `OneOwner`: the token is in the queue or has one owner. `AwaitsItsOwn`: what the
  manager waits for is the end of its own transfer (`DmaIsAwaited`,
  `NoStaleEvent`). `AtItsSpeed`: a DMA runs with the timings of its handle.
  `Served`: every request is answered.
- `NeverRefused`: no DMA of the SI is started while another runs. `AnswersBelong`:
  what is parsed is the answer to the command of the call (`AnswersMatch`), and a
  block read is the block written (`ReadsBack`). `EepromWaits`, `Returns`: nothing
  is sent to an EEPROM that stores, and every call returns.
- `QueueMatchesPlayer`, `SoundsEnd`: exactly the events that a voice or a sound
  needs are queued. `VoicesAsSet`: what a voice was told is what player, channel
  and note are set to. `VoicesInStep`: updates in order, and voices and notes agree.
  `RetraceKeepsUp`: no setting is lost by the exchange of the contexts, time and
  messages are on time. `PaksConsistent`: `FilesKept` and `NothingLost`.
- `HeardAndShown`: `InTempo` (SeqTempo), `ScoreFollowed` (SequenceReader),
  `SamplesInOrder`, `DelaysKept` and `ResamplerInStep` (AudioFilters), of the load
  filter, the delay line and the resampler, and `FrameShown` (ViModes: the fields of
  every mode lie inside the frame and weave); and `PlayerHasRoom` (SeqPlayer): the queue of
  the sequence player keeps free items, as its theorem asks.
- `ContextKept`: a thread goes on with its masks and registers. `CachesInStep`: what
  processor and devices write is what each of them reads, if the calls are made.
  `FlashSaysSo`, `WorkDoneOnce`, `AudioAsAsked`, `PadsTrue`: what was said of the
  pages, done of a task, played and told is what the hardware holds.
- `DevicesInStep`: `VoiceInStep`, `ScriptsAlike` (VoiceUnit), `BlocksOfTheBank`,
  `LinesFound` (GbPak), `IdSurvives`, `BlocksOfFile` (PakAccess), `StreamsWhole`,
  `NoneForgotten`, `TimeAsRun`, `SamplesCounted` (DebugLink). `MemoryInStep`:
  `BurstsAreSeen` (PakAccess), `BlocksExact` (BlockMoves), `TranslatesAsMapped` (Tlb),
  `BuffersKept`, `GivenApart`, `MovedOnce` (Storage). The mutants of `PROJECT.json` break
  one conjunct of each; the other conjuncts were each seen to fail for a mistake
  of its own in the code of its part.

Why the bounds are enough. Three application threads are needed for a woken
receiver to be overtaken while another sleeps, two messages of capacity for a
ring that wraps and is neither full nor empty; two priorities give equals and a
more urgent thread, and idle has the third. `kernel_threads` needs only two
threads because its questions are about one thread acting on another, and all
lists (run queue, two wait queues) still reach length two. Two causes pending
in one exception show an order of service; a third shows a redispatch that
skips the rest. A Count of four values makes every countdown longer than two
wrap, and one of five makes it longer than the register. Three timers give a
head, a middle and a tail. Two graphics tasks and an audio task fill both
processors with a third task waiting, and let an audio task take the RSP from a
task whose RDP part goes on. `QueueLen` 4 with `MaxVideo` 1 never overflows
(one message of each processor, one retrace, one PRENMI): the overflow is
described in section 6. In `pi` two clients with three calls keep one request in
service and another in the queue while a third access is programmed, with two
domains whose timings differ; in `si` two threads overlap any two calls,
neither of which polls or queries (`Overlapping` is FALSE), and a third call follows what
the first two left. In `media` two voices (slots,
physical voices) and three notes force one of each to be stolen; two pages of a
block of the inode table, two banks and two files are the least with which a
page can end in two files. In `devices` each part has its boundary twice: a
word or line that is filled to its end and one that is not, a ring that is full
and one that is empty; `GbPak` starts with a cartridge or without one and has one exchange. `MaxPadMoves` is a pad that is read, taken out, missed, put back,
read and held; `MaxResampled` is some pulls with a change of the pitch between them,
at, below and above one sample per sample.

## 4. Fairness

- `OSKernel!LiveSpec`: weak fairness of the exception handler and of the rest of
  a call, since the processor does not stop; strong fairness of the video
  interrupt, since the retrace comes back sixty times a second and interrupts
  are masked only for the length of a call. Nothing is assumed of application
  code: a thread may run for ever without a call.
- `OSTimer!LiveSpec`: strong fairness of `Tick` (time passes, whatever the threads
  do in between), weak fairness of the pending interrupt and of the manager, which
  is the most urgent thread but for the fault handlers.
- `OSSched!LiveSpec`: the scheduler's thread runs; retraces are posted; clients
  read their queues; the RSP reacts to a yield. `SpFinish(t)` is strongly fair:
  a task that is resumed again and again makes progress each time. `DpDone(t)`
  is weakly fair while `t` is not yielded, since the RDP gets no commands of a
  task that waits for the RSP. Submitting tasks is not fair.
- `PiMgr!LiveSpec`: the manager's steps, a DMA, the interrupts and the drive are
  weakly fair, and so are the ends of accesses that were begun; taking the token
  (`MgrAccess`) is strongly fair, since the access queue serves its sleepers in
  order of priority and the manager is the most urgent. No client is made to call.
- `SiController!LiveSpec`: a DMA ends and a thread in a call goes on (weak); it
  gets the token, and an EEPROM ends its write, again and again (strong): the other
  thread gives the token back after each exchange.

## 5. Proofs

For any set of threads, any queues of any capacity, any messages, priorities,
events and system calls:

    THEOREM TypeCorrect       == Spec => []TypeOK          (OSKernelProofs)
    THEOREM ThreadsInPlace    == Spec => []Placement       (OSKernelSafetyProofs)
    THEOREM ListsStaySorted   == Spec => []ListsSorted
    THEOREM MostUrgentRuns    == Spec => []UrgentRuns
    THEOREM SentinelNeverRuns == Spec => []TailNeverRuns
    THEOREM EqualsTakeTurns   == Spec => Turns

Assumptions: `DistinctAssumption` (the special values are no threads and no
queues) and `KernelAssumption` (the idle thread is one of the threads,
capacities are positive, priorities of application threads are 1..255). TLC
checks both in every kernel run.

*Types.* `TypeOK` bounds the rings (`first` and `valid` within the capacity,
every slot a message) and keeps all lists lists of threads. It is not inductive: an
exception puts the interrupted thread back into the run queue, so between
`Exception` and `ReturnFromException` the running thread has to be a thread and
not the sentinel or NULL. The invariant is therefore

    TypeInv == TypeOK /\ InterruptedThread       (exc => sched.running \in Threads)

The proof goes from lists to calls. `OSKernelProofs` first establishes what
inserting and removing at an index do to a sequence, that the index
`__osEnqueueThread` looks for exists (by the least-number principle), and that
each routine maps a scheduler state to a scheduler state; where a routine
dispatches, also when the result has a thread running. Then it has a
lemma per group of actions (message calls, thread calls, event registration,
handlers, exceptions) with a case per action, and combines them in `TypeStep`.

*Scheduling.* The safety theorems follow from one inductive invariant

    KernelInv == TypeInv /\ CallsMatch /\ Scheduled

`Scheduled` says where the processor is: before the boot nothing is linked
(`ToBoot`); while a thread runs the scheduler is `Settled`; in the exception
handler it is `Interrupted`. All three contain `Consistent`: every list is
ordered and holds a thread once, and a linked thread is in the list its `queue`
field names with a state that fits. `Settled` adds that the linked threads are
the existing ones that neither run nor are stopped, that exactly one thread has
the state `RUNNING`, and that nobody in the run queue is more urgent.
`Interrupted` has no `RUNNING` thread and says nothing of urgency: the handler
may have made a more urgent thread ready, and only `Redispatch` restores the
order. Two parts are there for induction only. The idle thread is never stopped
and its `queue` is the run queue: this makes the run queue nonempty whenever
another thread leaves the processor. `CallsMatch` holds for stopped threads too:
`osStartThread` sends a thread that was stopped while it waited back to its wait
queue, where it must find the call it was in.

`OSKernelProofs` also shows what the list routines do to a consistent state
(insertion keeps a list ordered, unlinking a thread takes out that thread only,
dispatching runs one of the most urgent). `OSKernelSafetyProofs` composes them
into the calls: a lemma ending in "Settles" per routine (`YieldSettles`,
`StartSettles`, `StopSettles`, `PrioritySettles`, `RedispatchSettles`...), from
a scheduler state to a settled one, then a lemma per group of actions, then
`InvStep`. The rest of a call in which a thread yields, `ResumeMesg`, needs no
case of its own: it is the same loop body, and `CallsMatch` says it is for the
queue the thread waited in.

*Turns.* `EqualsTakeTurns` is about steps, and a call changes a list up to four times:
the proof has to carry the order through all of them. `Keeps(s, r, X)` says
that from s to r, of two threads of equal priority outside X, the one ahead in a list
stays ahead as long as it stays there; X is empty, or holds the one thread a
call creates, stops, destroys or gives another priority. `Keeps` alone does not
compose: a thread might leave its place and come back behind an equal. `Brings`
says which thread may enter which list, and `KeepsCompose` asks that it was not
there at the start, which `Consistent` gives each time. Then `InsertBehind` (the
ordered insertion goes behind equals), `RemoveAhead` and `TailAhead` are lifted through the
routines (the lemmas ending in "Turns") to the actions (those ending in "Order").
The second half, that an interrupt takes the processor only for a more urgent thread, is
`RedispatchTurns`: the thread that is put in front is the one dispatched.

*Messages.* The second half of `OSKernelSafetyProofs` proves, about the same
specification,

    THEOREM QueuesImplementBox == Spec => ImplementsBox
    THEOREM NobodyIsForgotten  == ASSUME "destroy" \notin UserCalls
                                  PROVE  Spec => []NoLostWakeup

The first is the refinement of `MesgBox`, for any capacity. It needs no invariant
beyond `KernelInv`. Lemmas on the ring (`Wraps`, `SlotBefore`, `SlotAfter`) lead to
what its three operations do to its contents: `PutLastAppends`,
`PutFirstPrepends`, `TakeFirstTails`. Each part of a call then either has its effect
on the box, and the call is over (`BoxTakesEffect`), or leaves box and call alone
(`BoxWaits`); every other action is shown to leave the contents and the pending
calls alone, or to be the start or the end of a call. `StepIsBoxStep` collects the
cases.

For the second the invariant is

    WakeInv == KernelInv /\ IsFiniteSet(active) /\ NoLostWakeup

The property counts threads: those in the run queue (or stopped) whose call is a
receive of this queue, against messages. What a step does is put in four forms
(a thread moves from the wait queue to the run queue, a message is put, one is
taken, a thread goes to sleep), and each form changes each count by a known
amount; the set of threads must be finite for a count to mean anything, which it
is since `active` grows by one thread at a time. The hypothesis is needed: a
thread that is destroyed after it was woken takes the wake-up along
(`src/src/os/destroythread.c:13`), and TLC shows it when the call is allowed.

*The parallel interface* (`PiProofs`), for any threads, blocks, handles, speeds
and whatever the drive reports:

    THEOREM BusHasOneOwner        == ASSUME ~RaceAtBoot      PROVE Spec => []OneOwner
    THEOREM ManagerAwaitsItsOwn   == Spec => []AwaitsItsOwn
    THEOREM TransfersAtTheirSpeed == ASSUME TypesTellSpeeds  PROVE Spec => []AtItsSpeed

`~RaceAtBoot` is that no other thread runs while the first one makes the access
queue, which nothing in the code enforces; `TypesTellSpeeds` that two handles of a
type and domain have the same timings, since the type is all the code compares. The
three inductive invariants are

    OwnerInv == PiTypeOK /\ MadeOnce /\ (Ready => Exclusive)
    MgrInv   == PiTypeOK /\ ManagerOnce /\ Queued /\ ForLibrary
                  /\ (slip # "C2" => InTransfer)
    SpeedInv == MgrInv /\ RecordTrue /\ OnBus

`InTransfer` gives, for each place the manager and the handler can be in, which of
DMA, interrupt and event there is; `Queued` that a request block is in one place
only, so that a block in service is not overwritten by its next use; `RecordTrue`
that the timings of a domain are those of the type that is recorded for it.

*The serial interface* (`SiProofs`), for any threads, programs of calls, channels,
lost answers:

    THEOREM NoDmaRefused              == ASSUME NoBare, PollsPaired
                                         PROVE  Spec => []NeverRefused
    THEOREM AnswersMatchTheirCommands == ASSUME NoBare, PollsPaired
                                         PROVE  Spec => []AnswersMatch
    THEOREM AnswersBelongToTheirCalls == ASSUME NoBare, PollsPaired, NoResetOfWritten
                                         PROVE  Spec => []AnswersBelong
    THEOREM EepromIsAwaited           == ASSUME NoBare, PollsPaired, OneEepromUser
                                         PROVE  Spec => []EepromWaits

Four rules of use that the code does not enforce are hypotheses. `NoBare`: no
thread asks for a pak's status without the access token, as `osPfsFindFile` and its
like do (`src/src/io/pfssearchfile.c`); with it a DMA can be refused and nobody
looks. `PollsPaired`: no thread is in a call while another one polls or queries. Either
`Overlapping` is FALSE, and the rule is kept from call to call, or calls overlap at will
and a thread that polls is the only one that uses the interface. The token does not
give this, since a poll returns it with its DMA under way. `NoResetOfWritten`: no channel is reset by `__osContChannelReset` while
paks are written to; in the library only `src/src/voice/voiceinit.c:26` calls it.
`OneEepromUser`: one thread uses the EEPROM; two users of a 16K EEPROM can send a
block while another is stored, since the token is given back between the status
and the write, and TLC shows it. The invariants are nested:

    SiInv     == SiTypeOK /\ CallsFit /\ Exclusive /\ WireFits
    RecordInv == SiInv /\ (\A t \in Threads : Served(t)) /\ RecordFits
    KnownInv  == RecordInv /\ KnownFits
    EepInv    == RecordInv /\ EepFits

`Exclusive` ties the token, the DMA and its event to the one call that is past its
access; `RecordFits` says that `__osContLastCmd` names what is in the PIF buffer,
which is what lets a call skip the packing; `KnownFits` follows a block of a pak from
the call that wrote it to the one that reads it.

*The RCP scheduler* (`OSSchedProofs`), for any tasks, clients, queue lengths:

    THEOREM TasksAreAccounted      == Spec => []TasksAccounted
    THEOREM AssertionsNeverFail    == Spec => []NoAssert
    THEOREM NothingDrawnOverAFrame == Spec => []DrawsAfterSwap

each under the four hypotheses that the code leaves to its users:

- `Roomy`: `QueueLen >= MaxVideo + 3`. Beside the retraces that wait, interruptQ has
  room for the end of a task on each processor and for the reset. The code does not
  check the result of a post; with less room the end of a task is lost.
- `NeedsBoth`: a graphics task needs both processors. One that needs only the RSP is answered
  and stays in the list (`src/src/sched/sched.c:558`), one that needs only the RDP is never
  started.
- `NoDramNextToAudio`: no DRAM task is with the scheduler together with an audio
  task; otherwise the assertion at `src/src/sched/sched.c:430` fails.
- `ListsAreSent`: with NDEBUG there is no DRAM task, since the RDP would not get its
  list (`src/src/sched/sched.c:454`).

The instance of run `sched` meets all four. One inductive invariant serves the three
theorems (TLC checked it on that instance first):

    SchedInv == SchedTypeOK /\ ~halted /\ Tracks /\ QueueFits /\ Placed
                  /\ AudioFits /\ XbusFits /\ DramFits /\ FramesFit /\ NeedsBoth

`QueueFits` counts what waits in interruptQ: it is what makes a post never fail, so
that `Tracks` (each processor's end is in the queue exactly once) is kept. `Placed`
says that a task goes from `cmdQ` to `Working` (lists and processors) to `Sending` to
`Returned`, and is at one of these at a time. The other four say what the bits of
`state` mean for a task of each kind at each place. Their heart is `XbusFits`: an XBUS
task that yielded is at the head of the list, nobody else has the RDP, at most audio
is on the RSP, and no swap is pending; this is why `__scSchedule` may give it the RSP
without looking at the RDP. A dispatch is handled in two steps: `PlanFits` shows that
what `__scSchedule` picks is one of six cases (`Starts`), whose assertions hold, and
a lemma per case (`AudioStarts`, `XbusStarts`, `DramStarts`, `DramDraws`...) that the
invariant is kept; the ends of tasks have `RSPYields`, `RSPEnds` and `RDPEnds`.

*The timers* (`DevicesProofs`), for any timers, settings, lengths of the queue and
widths of the Count register:

    THEOREM TimersAreTrue  == Spec => []ListTrue
    THEOREM NoTimerIsEarly == Spec => NeverEarly

under `TimerAssumption` only. The bound `MaxLag` is not used: if Count wrapped before
anybody looked, timers would be late, never early. The inductive invariant is

    TimerInv == TimerTypeOK /\ DueInTime /\ RearmDue /\ Watched

`RearmDue` is what `ListTrue` leaves out: between its expiry and its return to the
list a periodic timer is in no list, and its new countdown must not have been
overtaken by `__osTimerCounter`, which the expiry sets to Count. The due time of a timer is
the sum of the relative values up to it. The library's induction theorems cannot be
used with these provers, but the well-foundedness of the naturals gives an induction
over sets of numbers (`Induction`), and with it come `SumStep` (the recursive
definition has a value at every position) and `SumsApart` (two sums that differ at one place
by some amount, and have the same terms after it, differ by that amount at every
later place). The three changes to the list are instances: `InsertSums` (the new
timer is due at its countdown, all others as before), `RemoveSums` (nobody else
notices a stopped timer) and `TailSums` (all others lose the value of the one that
expired); `PlaceExists` says that `__osInsertTimer` finds a place. `Distance`
and `Programmed` are the arithmetic of the registers: whatever is written to Compare,
Count reaches it no later than the countdown or `MinDelay`, for values
beyond the width of the register too.

*The audio players* (`AudioProofs`), for any slots, sounds, durations and calls of
the sound player, and any voices, channels, instruments and settings of a sequence
player:

    THEOREM EverySoundEnds == SndSpec /\ [](Len(sndq) < MaxEvents) => []SoundsEnd
    THEOREM VoicesAreAsSet == ASSUME Patient  PROVE ChannelsSpec => []VoicesAsSet

(`SndSpec` and `ChannelsSpec` are the initial states and the steps of `SndPlayer` and
`SeqChannels`.) Two hypotheses, both rules of use. The queue of the sound player has an
item for what is posted: `alEvtqPostEvent` drops an event without one
(`src/src/audio/event.c:78`), and if that is the end of a sound, the sound never ends.
`Patient`: the program sets a new sequence or bank only when all that it asked for has been
done. `alSeqpGetState` tells it that the player has stopped while a call to play may
still be in the queue, and then the assertion of the handler fails.

`SoundsEnd` counts events of the queue. The proof does not: an event is absent
(`Absent`) or there once (`Single`), and `SlotEnds` says which of these holds for what is
to come for a slot in each of its states. `PostInserts` shows that posting puts one
event somewhere into the queue and changes no other, `WithoutThins` that a removal
leaves what is not removed, each once (`AscendingCounts`: the positions that stay
are numbered in their order, by counting), and `TurnCounts` what taking the first event
does. When an event is due makes no difference to any of it. With
`SndInv` (types, and `SlotEnds` for each slot) each handler has a lemma.

For `VoicesAsSet` the invariant adds to each voice what the property leaves out:

    ChannelsInv == ChannelsTypes /\ (\A v : Fits(v)) /\ (stopped => no voice is mapped)
                     /\ NothingBehind /\ ~asserted

A note that was let go is silent and has no gain, so that no later change of a
volume makes it sound (`ReleaseSilences`, `ReleaseKeeps`); `NothingBehind` says that a
sequence or bank that was asked for is first in the queue and finds the player stopped.
There is a lemma per setting: which of the four things the synthesizer was told it
changes, for which voices, and that the others still fit (the lemmas ending in "Keeps").

*The sequence players* (`SeqPlayerProofs`), for any voices, keys, sounds, durations and
calls, of the player and of the compact one:

    THEOREM QueuesMatchPlayers == ASSUME ~Hasty, ~LiveMidi, ~EndsEarly
                                  PROVE  PlayerSpec /\ []PlayerHasRoom => []QueueMatchesPlayer

The three rules of use are those of section 6, which TLC shows to be needed; an event that
finds no item is dropped here too, so that the queue must have room for what the release
of every voice posts. Run `media` checks `PlayerHasRoom` on its instance, with
`HeardAndShown`: 20 items are enough for two voices. The invariant is

    PlayerInv == types /\ VoicesListed /\ VoicesReady /\ StateFits /\ SequenceFits

`VoicesReady` says for each voice which of the end of its attack, its oscillator and its end
is to come, once or not at all, among the next event and those of the queue. `StateFits`
is why a voice is not released twice: while the player plays, a voice that ends has had its
note off, so that a later note off of its key does not find it; a player that stops
has no note off left, and no sequence or message that posts one. `SequenceFits` has what the
program and the sequence post at most once (the reading of the sequence, the stop, the
call to play), in which keys a note off may still come, and that the stop is behind every
end of a note. That is the one place where times matter: `DueAtAdds` and `DueAtIs` make the
recursive sum of the times a thing to count with, `PlacedInTime` and `ThinnedInTime` keep
every event at its time or before the end of all times through a post and a removal, and
`StopGoesLast` puts the stop behind all of them. An action takes its turn in a value w (the
queue and the voices) through one or many changes: `EndPosted`, `ReleaseWorks`, `KillWorks`,
`OscStops` are the changes, `AllDone` carries them over the list of the voices, and `TurnKeeps`
ends each turn.

*The flash memory* (`DevicesProofs`), for any number of pages, any sizes of sectors and
blocks, any failures and any calls:

    THEOREM FlashIsAsItSays == ASSUME ~Mixed0, ~ChangesBack
                               PROVE  FlashSpec => []FlashSaysSo

The hypotheses are that the two chips are of one kind when one is exchanged for the
other (the version is only read by `osFlashInit`), and that `osFlashInit` is not called
again after a change (it would link the handle a second time). The invariant says, for
the call that is under way, how far it has got: `ErasesNow` and `WritesNow` tie the
status of the chip to what its pages hold, `ReadsNow` says that what was read so far is
the beginning of what was asked for and that a transfer ends with its block or with the
call. A chip that no call works on has no status left (`ChipAtRest`), which is why a call
that failed cannot be answered with the status of the one before it.

*The synthesizer* (`AudioProofs`), for any physical voices, notes, players, priorities,
lengths of a frame and delays, and for the resampler any pitches and cuts of the calls:

    THEOREM VoicesStayInStep    == ASSUME ~Scarce, ~Outside  PROVE SynSpec => []VoicesInStep
    THEOREM ResamplerKeepsPitch == ASSUME ~Unstopped
                                   PROVE  ResampleSpec => []ResamplerInStep

`~Scarce` is that there are updates enough, `~Outside` that voice calls come from the
handlers of players (`src/src/audio/synthesizer.c:188` gives the updates of other callers
a time that may already have passed). The invariant

    SynInv == SynTypes /\ ListsShare /\ NotesKnown /\ VoicesFit /\ Schedule

says of a physical voice which list it is in, whose it is, and that the updates it still
has to do end with exactly one that frees it if it is allocated and nobody's (a stolen
note leaves such a voice behind while it fades); `Schedule` says for each phase of a
frame up to which time the updates of a voice may reach, counted with its offset, and that
no player is due before. `UpdateAdded` and `UpdatesSplit` (what a new update
and the cut of a list at a time do to its order) carry the proof through the parts of a frame.
`ResamplerInv` adds that the three counts of the fraction (the voice's, the microcode's
and the note's) are one, and that a pitch is rounded once; `DivisionAddsUp` is the arithmetic.

*The pads* (`SiProofs`), for any ports, positions, buttons and maps:

    THEOREM PadsAreTrue == ASSUME ~SwapsUnseen, ~Glitches  PROVE PadSpec => []PadsTrue

The centre of a GameCube pad is its first answer after an error; the hypotheses are that
an exchange of pads is seen by a reading between them, and that a pad that is there
answers. `PadInv` follows the centre from the pad it was taken of to the readings after it.

*Contexts, RSP tasks, audio output* (`DevicesProofs`):

    THEOREM ContextsAreKept == ASSUME ~Racing     PROVE CtxSpec => []ContextKept
    THEOREM TasksResume     == RspSpec => []WorkDoneOnce
    THEOREM BuffersInPlace  == ASSUME NoneTooLow  PROVE AiSpec => []AudioAsAsked

`CtxInv == CtxTypes /\ CallsAsAsked /\ Waiting /\ Running`: what a thread asked for is,
but for the sources that left the global mask, in the registers while it runs and in its
context while it waits, in a form that depends on the step of `osSetIntMask` or of
`__osDisableInt` it was interrupted at; likewise the registers of the FPU, which an exception
leaves where they are until another thread uses them. `~Racing` is that no handler changes
the global mask between the two steps of `__osDisableInt`. `RspInv` says, for the task that is
loaded, runs or has stopped and for each of the others, where its work has come to and which of
task, yield data and RSP knows it; it needs no hypothesis, however late a request to yield comes.
`AiInv` says that a buffer that will be moved on by the hardware was queued a turn
below its place and no other, and that `hdwrBugFlag` knows of the last one; `NoneTooLow` that
the bit rate fits the unsigned char it is put into (`src/src/io/aisetfreq.c:54`).

*The caches* (`DevicesProofs`), for any sizes of the caches and their lines and any spans:

    THEOREM CachesStayInStep == CacheSpec => []CachesInStep

`CachesAssumption` is that memory is whole lines and that the calls are for memory that there
is. `InvalNames` is about the arithmetic of `osInvalDCache`: of the lines a span touches, each
is written back or dropped, and the ones that are only dropped lie inside it. The invariant

    CacheInv == CacheTypes /\ ~staleSent /\ StaleIsHeld /\ LinesFit /\ CodeFits /\ UnchangedFits

says that a byte that memory lacks is held by a line, unless a device is about to write it,
that a line holds what was put there last and memory too if the line was not written, and
that no line holds what a device is about to write.

*The video manager* (`OSSchedProofs`), for any modes, settings, counts and widths of the
counters:

    THEOREM DisplayAsSet == ASSUME 0 \notin RetraceCounts  PROVE ViSpec => []RetraceKeepsUp

A count of 0 takes the 16-bit counter below zero (`src/src/io/vimgr.c:92`). The invariant adds to
`SettingsStay` how Count and the 64-bit time run (`CountRuns`: the cycles since the last retrace
are the difference of two readings of Count, as long as it wraps at most once) and that the
retraces that were waited for and those that are left are no more than were asked for.

*What stays with TLC.* Liveness and the fair specifications (`NmiServedOnce`,
`TopReceives`, `Fires`, `TasksReturn`, `Served`, `Returns`) are out of the
prover's reach. `PakFiles` (`PaksConsistent`), `SequenceReader` and, with them, `MCMedia` and
`MCDevices` use recursive operators, for which the prover has no arithmetic; what those two
modules define (`HeardAndShown`, `DevicesInStep`, `MemoryInStep`) is checked on
its instances. `InTempo` and `StreamsWhole` are about sums and
sequences that are made with folds and `SelectSeq`, `BuffersKept` and the check sums about what
recursive functions compute: the prover knows nothing of either, and each needs lemmas by
induction over a set of numbers, as the sums of the timers did.

## 6. Where code and documents disagree

One run shows a disagreement: in `timer_stop`, `osStopTimer` tests `t->next` with
interrupts enabled (`src/src/os/stoptimer.c:17`) and unlinks with interrupts
disabled. If the one-shot timer expires in between, its links are NULL.

The others are listed in `PROJECT.json` under "findings", each with its line, and
where the model shows it, with the constant to change in the instance of a run
(they have no run of their own, because the number of runs is kept small). Those
with the widest consequences:

- `src/src/sched/sched.c:454` calls `osDpSetNextBuffer` inside `assert()`: with
  NDEBUG a DRAM task never gets the RDP. `src/src/sched/sched.c:503`: `doAudio` is
  cleared with the first audio task, and a second one waits for a third.
  `src/src/sched/sched.c:558`: only the RDP part of a task takes it off the list, so a graphics
  task that needs only the RSP is still at `gfxListHead` when its client has it back, and
  nothing behind it is started.
- `src/src/io/contreaddata.c:53`, `contquery.c:20`: a poll or query gives the access token
  back while its DMA runs. Another thread's DMA is then refused, which it does not notice;
  it takes the message of the poll, and both parse what is in their buffers.
- `src/src/io/leointerrupt.c:107`: the disk handler goes on after it told the
  manager that the request failed.
- `src/src/os/interrupt.s:23`: `__osDisableInt` loads an address where it needs
  what is there.
- `src/src/io/contpfs.c:253`, `pfschecker.c:65`: a lost write of the inode table
  goes unnoticed; two directory entries with the same first page are both kept.
- `src/src/audio/seqplayer.c:257`, `synallocvoice.c:65`, `csplayer.c:714`,
  `load.c:171`, `reverb.c:123`: notes that end twice, a missing update that is used
  untested, a tempo that leaves the pending event alone, samples of the wrong place.
- `src/src/rg/malloc.c:25`: regions are not safe between threads, although nothing
  says so.

Some are known and not in that list:

- `src/src/os/exceptasm.s:613` writes to the saved status register of the head
  of the run queue, under a comment at line 611 that speaks of the highest
  priority waiting thread. When the idle thread was interrupted and nobody is
  ready, the head is the sentinel of eight bytes. The model shows it as
  `ThreadTail \in nmiOff`.
- `src/src/os/exceptasm.s:793` says that the interrupted thread goes to the top
  of the queue; a thread that gives way is inserted by priority, behind its
  equals.
- `src/src/os/destroythread.c:13`: a woken thread that is destroyed before it
  ran takes its wake-up with it. With "destroy" in `UserCalls` of `kernel_mesg`,
  `NoLostWakeup` is violated. `osStartThread` of a thread that is not stopped is
  left out: it would be linked twice.
- `src/src/sched/sched.c:430`: a DRAM task whose RDP part becomes ready while
  audio runs on the RSP fails the assertion in debug builds. With a mix of
  `{g1, a1}` and g1 a DRAM task, `NoAssert` is violated.
- `src/src/sched/sched.c:91`: with more retraces than slots of `interruptQ` the
  end of a task may be lost. With `MaxVideo = QueueLen`, `TasksAccounted` is
  violated.
- `src/src/sched/sched.c:130`: `osScRemoveClient` reads the head of the list
  before it masks interrupts. `src/src/io/vimgr.c:30`: `osCreateViManager` tests
  `active` long before it sets it, at line 53.
- `src/src/os/settime.c:15`: `osSetTime` stores the two words of the time one
  after the other, unmasked.
- `NmiServedOnce` holds for one thread that registers for PRENMI. With two, a
  registration that yields between message and flag lets the other one send a
  second message.
- `src/src/voice/voicegetreaddata.c:18`: a static variable is shared by all units;
  `src/src/io/gbpakreadwrite.c:26` returns a variable that was not set, and
  `src/src/io/pfsgetstatus.c:25` tests `data.status`, which is not set when the channel did not
  answer.

## 7. What the modelled parts leave out

- Kernel: general registers, `OSThread.flags`, the packets of development hardware.
- Timers: values that are within the latency of an interrupt of a multiple of the
  register's range, more than one thread that sets timers.
- Scheduler: `OS_SC_PARALLEL_TASK`, `osViBlack` at the first frame, the frame
  counter, the logging variant, the links of the client list.
- Video: `osSetTime`; a retrace count of 0.
- PI: the links of the handle list; the registers of the drive are inputs.
- Serial interface: calls of other threads next to a poll or query are in the model, not
  in the runs (`Overlapping`); polls in flash and EEPROM calls are bounded by `MaxFaults`;
  `__osSiRawStartDma` invalidates the cache after it started a read, which only
  matters to a thread that touches the buffer meanwhile.
- Check sums: flips of bits that lie further apart than the register is long are
  not all seen, by the mathematics of the polynomial. The connector check is
  modelled for shorted neighbours only.
- Paks: labels, names and `osPfsReFormat`'s marks; flash: `osFlashReInit`, which
  would count the type of the handle up again.
- Audio: gains, pitches, filters' coefficients and the samples' values.
- Debugging: `osReadHost`, the thread that flushes a profile.
- Components marked "not_modelled" in `PROJECT.json` have no state that a model
  could relate to anything: mathematics, display lists, formatted output, boot
  code, error reports.

## 8. Plan

The components of section 1 are modelled as far as section 7 says. What is left
is proof: that `PlayerHasRoom` follows from a queue long enough, by counting the notes off
of a compact sequence; `TranslatesAsMapped` of the TLB and `TimeAsRun` of the profiler;
the step from `SchedInv` to an abstract scheduler that only says which tasks run and in which
order they come back.
