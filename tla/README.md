# moon-flight: a TLA+ model of its kernel

moon-flight is flight-controller firmware for an AT32F435 (Cortex-M4, one
core) built on RT-Thread 5.2.1. At this commit the flight folders (`fc`,
`flight`, `rx`, `sensor`, `telemetry`, `msp`, `io`, `driver`, `blackbox`) hold
README files only, and `applications/main.c` blinks an LED. What the image does
beyond that is done by the RT-Thread kernel it configures in `rtconfig.h`:
priority scheduling, interrupt-driven preemption, locks, queues and timers.
That kernel is the subject here.

Paths below are relative to `src/rt-thread/src/` unless they start with
another directory.

## 1. The configuration that is modelled

| setting (`src/rtconfig.h`) | consequence |
|---|---|
| `RT_CPUS_NR 1` | `scheduler_up.c`, `cpu_up.c`; a lock disables interrupts or preemption |
| `RT_THREAD_PRIORITY_MAX 32` | one 32-bit group word, `PrioMax` in the model |
| no `RT_USING_SIGNALS`, no `RT_USING_SMART` | one kind of suspension, no signal wake-ups |
| `RT_USING_TIMER_SOFT`, skip list level 1 | two ordered lists and a timer thread (priority 4) |
| `RT_USING_SEMAPHORE/MUTEX/EVENT/MAILBOX/MESSAGEQUEUE/MEMPOOL` | the objects of `ipc.c`, `mempool.c` |
| no `RT_USING_MESSAGEQUEUE_PRIORITY` | message lists are FIFO with an urgent entry |
| `RT_USING_SERIAL_V1`, 64-byte buffer | receive FIFO filled by the UART interrupt |
| `RT_USING_SMALL_MEM` heap | `mem.c` |
| NVIC priority group 4, SysTick lowest, UART 1, EXTI 5 | interrupt handlers nest |

Assertions are enabled (`RT_USING_DEBUG`, `RT_DEBUGING_ASSERT`). Hooks are
compiled in (`RT_USING_HOOK`), but nothing in the image sets one that changes the kernel's
state; they are left out.

## 2. Inventory

For each component: its state, its operations, what is hard about it, what makes it
correct. "(M)": modelled; "(P)": partly, section 7 says what is missing.

**Thread scheduler** (M) `scheduler_up.c`, `scheduler_comm.c`.
State: the current thread, `rt_thread_priority_table` (a list per priority),
`rt_thread_ready_priority_group`, each thread's status, YIELD bit, priorities,
number mask and remaining ticks, the lock nest count and the
pending-switch flag. Operations: `rt_schedule`, insert/remove, start, ready,
suspend, yield, priority change, tick, enter/exit critical. Called from threads and
from every handler that wakes a thread. Hard: `rt_schedule` reads the current
thread before it disables interrupts; `rt_exit_critical` looks at the flag
after it has unlocked; wake-ups, ticks and priority changes in any order.
Correct: list, group word and status agree; the highest-priority runnable
thread runs; a locked scheduler does not switch; equals take turns.

**Context-switch port** (P: without registers and stacks)
`libcpu/arm/cortex-m4/context_gcc.S`. State: `rt_thread_switch_interrupt_flag`,
`rt_interrupt_from_thread`, `rt_interrupt_to_thread`. A switch is requested
and done later by PendSV; requests accumulate. Correct: PendSV saves into the stack of the thread
whose registers the CPU holds and loads those of the current thread.

**Interrupt nesting** (P: the stack of handlers) `irq.c`, `cpu_up.c`.

**Thread life cycle** (P) `thread.c`, `defunct.c`, `idle.c`. State: status, the
thread timer, the defunct list. Start, sleep, exit, deletion, reaping by the idle
thread. Hard: one list node serves the ready list, the wait lists and the
defunct list in turn; a thread that ends still runs. Correct: a thread is reaped once, and
after nothing uses it any more.

**Mutex** (M) `ipc.c:731-1850`, `thread.c:85-175`. State: owner, hold count,
inherited priority, ceiling, wait list; a thread's list of taken mutexes and
the one it waits for. Operations: take (free, again, busy, with a limited
wait), release, detach/delete, set ceiling; thread deletion and exit. Hard:
inheritance passes along chains of waiting owners and must be undone when waits
fail or mutexes go, in any order. Correct: the three records of ownership
agree; sleepers are in the list of an owned mutex; an owner is at least as
urgent as those who wait for it, and no more urgent than it has reason to be;
the most urgent thread gets its mutex.

**Message queue** (M) `ipc.c:3190-4110`. State: a free list, a
list of messages with head and tail, a count, two wait lists. Operations: send
with and without waiting, urgent send, receive, reset, detach. Hard: a slot is filled and
copied out with interrupts enabled, between locked sections. Correct: no slot
is lost or used twice; messages come out whole and in order; no sleeper is left
beside a message or a free slot.

**Timers** (P) `timer.c`, **clock** (P: the tick) `clock.c`. State: two lists
ordered by expiry, a temporary list per check, flags of each timer, the tick
count, the timer thread's semaphore. Operations: start, stop, control, detach,
re-initialise; the checks in the tick interrupt and in the timer thread. Hard:
callbacks run with the lock released and may call anything; tick counts wrap;
the tick interrupt decides whether the timer thread is woken. Correct: lists
and flags agree; due timers go off, in order and not early.

**Semaphore, event, mailbox** (M) `ipc.c`, **memory pool** (M)
`mempool.c`. A value, an event set, a ring of words or a free list, and wait
lists. Hard: a wake-up racing the waiter's time-out, a caller that overtakes the woken
one. Correct: no token, event, word or block is lost or given twice; no sleeper beside what it waits for.

**Completion** (M), **workqueue** (P), **data queue** (P), **ring buffer** (M),
**ring block buffer** (P), **wait queue** (P), **condition variable** (M)
`components/drivers/ipc/`. Built on the scheduler and the IPC. Hard: a completion
against a time-out; cancelling and submitting a work that runs; a test followed
by a sleep; blocks freed out of order; mirror bits.

**Serial device** (P: reception) `components/drivers/serial/dev_serial.c`,
`libraries/rt_drivers/drv_usart.c` under `src/`. State: the receive FIFO and its
indices, written by the UART interrupt, read by a thread. Hard: the full FIFO.

**Pin device** (P: interrupts) `src/libraries/rt_drivers/drv_gpio.c`. State:
a table of handlers by line, the mask of enabled lines, the interrupt controllers.
Hard: pins share lines, lines share vectors.

**Heap** (M) `mem.c` (the configured one) and `memheap.c`. State: headers chained
by offsets or pointers, a lowest-free pointer or a free list, counters. Hard: any order of
calls must keep chain, list and counters in step.

**Shell** (P) `components/finsh/shell.c`, `cmd.c`, `msh.c`. State: one line
buffer with two positions, the history. Hard: recalled, edited and completed
lines leave parts of each other behind.

**File transfer** (M) `components/utilities/ymodem/ymodem.c`. State: a stage and
error counters on either side. Hard: what the lines lose, damage and delay.

**Object container**, **device framework**, **start-up**, **kernel services** and the
**C library**, **application**, **flight control**, **multi-core, user-mode and signal
code**, **other RT-Thread components**, **vendor libraries**: section 7.

How they interact: handlers and threads call IPC; IPC wakes and suspends
threads through the scheduler (`rt_sched_thread_ready`,
`rt_thread_suspend_to_list`) and starts thread timers; the tick interrupt
charges the current thread, checks the timers, and thread timers call
`_thread_timeout`, which takes threads out of wait lists. Everything that
switches goes through `rt_schedule` and PendSV. A dying thread gives up its
mutexes and its timer and goes through the defunct list to the idle thread. The
objects of `components/drivers/ipc` use completions, semaphores or suspension
directly; the shell sleeps on a semaphore that the serial indication releases;
YMODEM does the same.

## 3. Modules

| module | what it is | code |
|---|---|---|
| `Kernel` | the scheduler's data as one record and its routines as operators on it | `scheduler_up.c`, `scheduler_comm.c`, parts of `thread.c` |
| `Scheduler` | EXTENDS `Kernel`: threads, nested handlers and PendSV calling these routines | the same, `context_gcc.S`, `cpu_up.c`, `thread.c`, `clock.c` |
| `ThreadLife` | EXTENDS `Scheduler`: threads that die, are reaped and come back, beside all its steps | `thread.c`, `defunct.c`, `idle.c` |
| `Mutex` | EXTENDS `Kernel`: the real scheduler record under the mutexes | `ipc.c`, `thread.c` |
| `MessageQueue` | the message queue under an arbitrary scheduler | `ipc.c` |
| `Timer` | hard and soft timers, the tick, the timer thread | `timer.c`, `clock.c`, `ipc.c` |
| `Waiting` | how a thread waits for an object: lists, status, error, thread timer | `ipc.c`, `thread.c`, `scheduler_comm.c` |
| `Semaphore`, `Event`, `Mailbox`, `MemPool` | EXTEND `Waiting` | `ipc.c`, `mempool.c` |
| `Completion`, `DataQueue`, `WorkQueue`, `WaitQueue`, `Condvar` | EXTEND `Waiting` | `components/drivers/ipc/` |
| `SerialRx` | EXTENDS `Waiting`: receive FIFO, indication, the shell's wait | `dev_serial.c`, `shell.c` |
| `PinIrq` | pins, lines and vectors | `drv_gpio.c` |
| `Heap`, `MemHeap` | the two heaps | `mem.c`, `memheap.c`, `kservice.c` |
| `RingBuffer`, `RingBlocks` | byte ring and block ring | `ringbuffer.c`, `ringblk_buf.c` |
| `Shell` | the line editor | `shell.c`, `cmd.c`, `msh.c` |
| `Ymodem` | a sending and a receiving board | `ymodem.c` |
| `Ipc` | the instances of `Semaphore`, `Event`, `Mailbox`, `Completion`, `DataQueue`, `WorkQueue` and `WaitQueue` over one set of threads | |
| `Objects` | EXTENDS `Ipc` and adds the other modules from `Waiting` on: one kind of object per behaviour, chosen in `Init` | |
| `QueueLemmas` | proofs: sequences, loops | |
| `KernelProofs`, `SchedulerProofs` | proofs: the scheduler and the life of threads | |
| `MutexProofs` | proofs: the mutex, priority inheritance | |
| `MessageQueueProofs` | proofs: the message queue | |
| `TimerProofs` | proofs: tick counts, timer lists, the timer thread | |
| `IpcProofs`, `ObjectsProofs` | proofs: wait lists and the objects of `Ipc`; the serial device, the condition variable, the pins | |
| `MCScheduler`, `MCMutex`, `MCObjects` | constants for TLC | |
| `MCKernel` | the same; puts `Scheduler` and `Timer` side by side: a behaviour moves the one or the other | |

Abstract specifications, each the target of a refinement mapping:

| module | promises | implemented by |
|---|---|---|
| `Fifo` | a bounded queue; what is taken is handed out whole | `MessageQueue`, `Mailbox`, `DataQueue` |
| `Alarms` | alarms that count down | `Timer` |
| `Tokens` | a release is worth one take | `Semaphore` |
| `ByteStream` | bytes in order; when full, a new one costs the oldest | `SerialRx` |
| `Regions` | disjoint regions of memory, each with the room it was asked for | `Heap`, `MemHeap`, `RingBlocks` |
| `Window` | the last bytes put | `RingBuffer` |
| `LineEditor` | a text, a cursor, the last commands | `Shell` |
| `Transfer` | a file's blocks once and in order, success only after all | `Ymodem` |

`Name_Variant` beside a definition `Name` is a changed form of it with a plausible mistake. No
specification uses these; replacing `Name` by it shows that a property notices.

### Kernel, Scheduler and ThreadLife

A routine that runs with interrupts disabled is one operator of `Kernel` on the
record `k` (its header names the C variable behind each field); actions of
`Scheduler` and `Mutex` compose operators in the order of the C calls.
The step boundaries in `Scheduler` are the points where interrupts are enabled
inside a call, and the frame of each thread and of each active handler says
where it is: `resched` before `rt_schedule`, `sched` after its
unlocked read of the current thread, `tick` after that of the tick handler,
`exit` and `clear` in the tail of `rt_exit_critical`. `Wake` is the tail of an
IPC release: the thread is made ready, the spin lock's restore serves a
pending switch, and `rt_schedule` follows with interrupts enabled;
`rt_thread_resume` does both under one lock. `on` is the thread
whose registers the CPU holds; PendSV precedes the next thread instruction
but not the end of a handler. Thread timers are left to the other modules: here any
context may wake any suspended thread at any time, which covers time-outs.

Four next-state relations: `KernelNext`; `LockedNext`, where handlers
wake threads only by `rt_thread_resume`; `Next`, with priority control, which
promises less (a changed priority takes effect at the next rescheduling, so
`HighestRuns` is no property of it); `FairSpec`.

`ThreadLife` adds the steps `close`, `enqueue`, `leave`, `left` of a thread that
ends itself or is deleted, and `reap` of the idle thread, between which
interrupts, and after `leave` other threads, may come. What the dying thread
owned is in `Mutex`.

### Mutex

The whole of `_rt_mutex_take`, `_rt_mutex_release` and so on runs under
locks, so each is one action, except that a take that blocks has three
parts: suspend, boost and start the timer (`TakeBusy`); unlock and reschedule
(`TakeSchedule`); what follows on return (`TakeReturn`). Interrupts between
are time-outs (`Timeout`). `UpdatePriority` is the loop of
`_thread_update_priority`, as a recursive function whose bound is the
length of the longest chain. The record `s` holds the scheduler's
record and the mutexes, so that operators can pass both along.

Failed calls that change nothing (a try that fails, `-RT_EFULL`) have no action.
Mutexes are taken in the order of `Rank`: this is an assumption about the program, without
which deadlock is the program's own fault. The idle thread takes none.

### MessageQueue

The C lists with their links, head, tail and count are kept (`q`), because
the hazard is in their manipulation; which slot a call holds between its locked
sections is `slot`. Threads that are not suspended step in any order,
which includes every order the scheduler allows. Wait lists are priority
ordered or FIFO according to a flag; `Enqueue` inserts anywhere, which covers both.
An armed timer may run out at any moment. That takes two steps, as in `timer.c:518-530`:
`Expire` takes it from the timer list, `Timeout` is its callback. Between them only a handler that
interrupts the tick interrupt can run, which `Nested` allows or not; its attempt to wake the thread
fails, and the caller does not look (`ipc.c:3555`).
Actors in `Isr` never wait. A queue is detached and initialised anew only while no call
holds a slot (section 7).

### Timer

Kinds `"hard"` and `"soft"` share the check (`Fire`, callback, `Return`,
`Done`), as the C code does. Calls on timers are allowed between any two locked
sections; those made by callbacks are among them. `Return` ends a step
before the next look at the list, where the code keeps the lock: more
behaviours than the code has, so what holds is safe. `Modulus` is 2^32 in
the code. What nobody reads is forgotten to save states: the expiry of a timer in no list, the
type and the time of one that is detached.

### Objects

`Waiting` has the record `w` (wait lists, suspended threads, error numbers,
thread timers) and where each actor stands (`pc`, `arg`). A timer that
runs out takes two steps, as in the code: `Expire` removes it, `Timeout` is
its callback. In between only a handler nested in the tick interrupt can run
(`Nested`), and its attempt to wake the thread fails, or, at a second try, does not
(`"missed"`). The completion, which keeps its flag whatever becomes of the waiter, is checked
with such handlers; the objects with wait lists are not right beside them (run
`object_nested`) and are checked without.

In each module of an object a locked section is one action; between two of them, and
between a suspension and what follows the return, any other actor steps. Detach
and initialisation anew are there: waiters get the error, later calls
find a new object. Each call's copies of shared data are in `arg`.

What is particular: `Semaphore` has as history `era`, by which `Tokens` is told of a reset,
and `owed`, the tokens released and not yet taken. The length of a wait is left
out, and so is whether a repeated wait gets its whole time or the rest. In
`WorkQueue` a delayed work may stand anywhere in its
list and fall due at any moment. `rt_workqueue_cancel_all_work` takes one step per look at a list and one per
cancellation, between which handlers submit and cancel. `Condvar` is used as a monitor, with the
mutex reduced to its owner; where the code asserts, it goes on as without assertions, and
`LeaverFindsMutex` states the assertion. An overrun of `SerialRx` is no step of `ByteStream`;
`ObjectsImplement` says what it is instead (`Overruns`): the byte that arrives is all that is left.
Heaps and block ring implement `Regions` call by call (`CallsKept`): what an allocation adds has at
least the length of its request, and a release or a resize touches the block it was called for. `Heap` and `RingBlocks` keep headers in a
function from places, and `Regions` sees only what is handed out. `Shell` takes a character per
step; `Ymodem` a packet or an answer. `PinIrq` adds what no C
variable has: the pins whose users have them enabled (`enabled`), and the edges their handlers
are still to be told of (`due`).

## 4. Runs

| run | constants | states | question |
|---|---|---|---|
| `kernel` | 4 threads of 3 priorities, lock depth 2, handlers not nested | 1.06 M | `ReadyQueueOK`, `ContextOK`, `HighestRuns`, `CriticalPinned` |
| | or: 1 hard and 2 soft timers, 8 tick counts, times 1 and 2, lateness 1, set to time 1 and not periodic at first | 0.81 M | `ListsOK`, `SoftServed`, `Implements` |
| `fair` | 3 threads of one priority, 2-tick slices, lock depth 1, handlers not nested | 454 k | `NoStarvation` |
| `threads` | idle and two threads that die and come back, priorities change, one handler | 3.77 M | `QueueSurvives`, `NoneForgotten`, `NoneUsedFreed` |
| `mutex_all` | 3 workers and idle, 2 mutexes, hold count to 2, limited waits, sleeps, resumptions, detach, one mortal thread | 1.17 M | `OwnerOK`, `WaitOK`, `AssertsOK`, `NoInversion`, `HighestKept` |
| `mutex_fair` | 4 workers, two of one priority, and idle; waits forever, sleeps, ceilings | 41 k | `NoExcess`, `HandedToHighest`, `TopServed` |
| `mq` | 3 threads, 1 handler, not in the tick interrupt, 2 slots, 2 messages, limited waits, reset, detach | 1.35 M | `SlotsOK`, `NoLostWakeup`, `Implements` |
| `objects` | 17 kinds of object, 3 threads of 2 priorities and a handler, or no threads where calls do not overlap | 1.37 M | see below |
| `nestedwake` | 3 threads, handlers nest twice | violation | `HighestRuns` |
| `mutex_chain` | waits forever and limited | violation | `NoExcess` |
| `object_nested` | the semaphore of `objects`, with a handler that interrupts the tick | violation | `ReleaseCounts` |
| `condvar` | the condition variable of `objects` | violation | `LeaverFindsMutex` |
| `shell` | lines of up to 3 characters, one character too many, no commands to complete | violation | `LineOK` |

Each passing run but `fair` and `mutex_fair` also checks its type invariant. (State counts are of
distinct states, after symmetry where a run declares it: threads and messages in
`mq`, soft timers in `kernel`; equal threads, mails, events and works in `objects`.
Liveness runs use none.)

What `objects` asks of which kind:

| property | kind: what it says |
|---|---|
| `SemaphoreServed` | semaphore: no sleeper beside a token, no token lost between release and take |
| `EventsSeen`, `EventsKept` | event: nobody waits for events that are set; an event is cleared only for who received it |
| `MailboxServed` | mailbox: one woken per place and mail, none left asleep when the woken one fails or is overtaken |
| `DataQueueServed` | data queue: the same with a low-water mark of 1 and resets that wake one by one |
| `BlocksKept` | memory pool, `mem.c`, `memheap.c`, block ring: lists, chain, counters and headers agree; no failure of `mem.c` beside room |
| `CompletionServed`, `CompletionTaken` | completion: the sleeper is the one that the word names; used up only by a wait that succeeds |
| `ReaderServed` | serial, wait queue, condition variable, pins: who looks and then sleeps misses nothing in between; no edge is missed |
| `WorkServed`, `WorkTold` | workqueue: the worker does not sleep beside a work; who waits for the end of a work is told at its end |
| `ObjectsImplement` | the abstract specifications of section 3 but `Alarms` |

Why the bounds are enough:

- *Scheduler.* The code compares two priorities or a thread with the current
  one, and treats lists by head, tail and emptiness. Four threads give a current
  one, a more urgent one, a peer and idle. Depth 2 distinguishes the outermost exit
  from an inner one. Without nesting, one handler at a time interrupts each of the step
  boundaries; the theorems below remove these bounds.
- *ThreadLife.* Two threads that can die allow one to delete the other, both to be in
  the defunct list in either order, and one to be created while the other is reaped.
- *Mutex.* Three workers and two mutexes make the longest ordered chain (high
  waits for mid, mid waits for low) with every wait able to fail; the second peer in
  `mutex_fair` makes re-sorting matter. A limited wait whose time-out never
  comes is a wait forever, so the runs with limited waits have both.
- *MessageQueue.* Two slots make first, last and only message distinct;
  three threads allow two holders of slots and a third that waits, or the
  other way round.
- *Timer.* Eight tick counts wrap several times within a behaviour; half of the
  range is 3, and the times and the lateness keep `TimerAssumption`, as real times
  (far below 2^31 ticks) do.
  Two soft timers are needed for order and for a look that races a stop.
- *Objects.* Three threads: a woken one, one that overtakes it, and one left
  behind. Rings and pools of 2 are full, empty or neither; a data queue of 2 with the mark at 1
  wakes a pusher while it still holds an item. Two events make
  AND and OR differ. The heaps have 14 units (22 for `memheap.c`) with headers of
  2 and requests of 1 to 7, room for three blocks, so that a block
  has neighbours on both sides, splits, merges, and does not fit. The block ring has 5 units and 3
  descriptors, the byte ring 3 places with puts of up to 4 bytes: more than it holds. The shell has
  two lines of history, two commands with a common start and lines of 2, the limit of
  4 never reached (run `shell` reaches one). Files have up to 3 blocks, the lines spoil or delay up to 4 items, and
  the error limits are 2, so that both sides give up on either
  side of every stage. Two ports and two lines give pins that share a line and lines
  that share a vector.

`mutex_all` alone switches off the deadlock check: a deleted owner leaves its
mutexes owned for ever (section 6), and the threads that wait for it may be all
there are.

Fairness. `Scheduler`: a started call and a handler finish, and a handler leaves
(the code has no loop that waits there). Nothing is assumed of what threads do, nor of when the
tick comes: that is in the property. `Mutex`: blocked takes go on, running timers
fire, and a thread that gets to run as owner again and again releases
in the end, the program's part of the bargain. No other thread need ever
give up the CPU. The services of `objects` are stated as invariants ("no
sleeper beside what it waits for") and need no fairness.

`NoStarvation` is about threads of one priority that give way again and again: a running thread
of that priority, with the scheduler unlocked, yields, or a tick ends its slice (`GivesWay`). Then
no ready thread of that priority waits for ever, though the others wake each other as often as
they like within their slices, into the head of the list, lock the scheduler over ticks, and
suspend themselves with part of a slice left. Without the premise this fails: a thread that always
suspends itself before its slice is used up, or holds the lock whenever its slice ends, never goes
to the end of the list, and two such threads can wake each other past a third for ever. The code promises
nothing to the third one; it is what a program has to see to. How long a slice is and how deep
the lock is are bounds of the run only (2 ticks: a slice is renewed, or has one left; depth 1);
three threads are two that wake each other and one that waits.

## 5. Proofs

Checked by TLAPS for all values of the constants that satisfy the modules' assumptions: any
number of threads, mutexes and handlers, any priorities, slices, lock depths, sizes.

| theorem | specification and hypothesis | states |
|---|---|---|
| `KernelSafety` | `KernelSpec`, `IsrMax <= 1` | `TypeOK`, `ReadyQueueOK`, `ContextOK`, `HighestRuns` |
| `LockedSafety` | `LockedSpec`, handlers nested to any depth | the same |
| `ControlSafety`, `StateTyped` | `Spec` of `Scheduler`, `IsrMax <= 1` | `TypeOK`, `ReadyQueueOK`, `ContextOK` |
| `Pinned` | `KernelSpec`, `IsrMax <= 1` | `CriticalPinned` |
| `LifeTyped`, `QueueSurvivesDeaths`, `DeadRemembered`, `FreedUnused` | `LifeSpec`, `IsrMax <= 1` | `LifeTypeOK`, `QueueSurvives`, `NoneForgotten`, `NoneUsedFreed` |
| `MutexTyped`, `OwnersAgree`, `WaitersListed`, `AssertionsHold` | `Spec` of `Mutex` | `TypeOK`, `OwnerOK`, `WaitOK`, `AssertsOK` |
| `NeverInverted`, `HandedWell` | the same, `StrictRank` | `NoInversion`, `HandedToHighest` |
| `HighestRunsOn` | the same, `StrictRank` | `HighestKept` |
| `MessageQueueTyped`, `SlotsKept` | `Spec` of `MessageQueue` | `TypeOK`, `SlotsOK` |
| `MessageQueueImplementsFifo` | the same | `Implements` |
| `WakeupsKept` | the same, `Nested = FALSE` | `NoLostWakeup` |
| `TimerTyped`, `SoftNeverLate`, `TimerImplementsAlarms` | `TimerSpec` | `TimerTypeOK`, `SoftServed`, `Implements` |
| `TimersListed` | the same, `SwitchInFlight = FALSE` | `ListsOK` |
| `TokensServed` | `Spec` of `Objects`, `Nested = FALSE` | `SemaphoreServed` |
| `NoneMissesEvents`, `NoneDropsEvents` | the same | `EventsSeen`, `EventsKept` |
| `MailServed`, `DataServed` | the same | `MailboxServed`, `DataQueueServed` |
| `WorksServed`, `WorksTold` | the same | `WorkServed`, `WorkTold` |
| `ReadersServed` | the same | `ReaderServed` |
| `CompletionFound`, `CompletionUsed` | `Spec` of `Objects` | `CompletionServed`, `CompletionTaken` |
| `SemaphoreImplementsTokens` | the same, `Nested = FALSE` | the semaphore's part of `ObjectsImplement` |

### The scheduler

`ReadyQueueOK` is not inductive: `rt_schedule` in a handler uses a
current thread read earlier, and puts back a thread that might no longer be the current
one. The inductive invariant is

    Inv == TypeOK /\ ReadyQueueOK /\ ContextOK /\ FramesOK /\ PinnedOK

`FramesOK` says that what an rt_schedule frame holds is still the current thread:
for a thread, because a thread that is switched away is
itself the one that must come back to its frame; for a handler, because it is
the innermost one and nothing below it runs. This is the step that fails
with nested handlers that use `Wake`, and the run `nestedwake` shows that
the failure is real; this is why the hypothesis is `IsrMax <= 1`. `LockedNext` restores it for any
nesting by ruling out frames of handlers between a wake-up and its rescheduling.
`PinnedOK` (no switch is pending while the scheduler is
locked) carries `CriticalPinned`. `HighestRuns` needs `Served` in addition:
whenever the current thread is not the most urgent, some context is still to
reschedule, or the flag is set and its owner still to see it.

`LockedSpec` and `Spec` of `Scheduler` have theorems and no runs of their own: `kernel` checks a
larger next-state relation than the first, though with one handler at a time, and
`threads` the second's with the life of threads in it.

The life of threads adds places to the frames and one level to the lock, so the lemmas about the
scheduler's steps are stated of `Safe(P, d)`, `Inv` for the places `P` and lock depths up to `d`.
`LifeInv` is `Safe` for the larger set, and says what protects each thread that dies: it is in
the defunct list once, or one call holds it, in which case nobody else does (`DyingOK`,
`Closing \cap Reaping = {}`); between closing itself and its last switch it holds the scheduler
lock, so that `idle` cannot come in between (`NestOK`); and what is freed is neither on the CPU nor
about to be saved or loaded (`OffCPU`).

### The mutex

`MutexInv` is one invariant for four properties, because each call relies on all of them: the
ready queue and the wait lists have no duplicates, and nobody is in two (`QueuesOK`); owner, hold
count and lists of taken mutexes agree (`Owned`); where a thread stands in `rt_mutex_take` is what
its wait list, status and error number say (`Calling`, `Sched`); a timer runs for a suspended
thread only; and the current thread can run unless it has just suspended itself (`Runs`). Each
operator on the record `s` has a lemma, each action a step.

Inheritance is a second invariant on top of that one. When all is calm (`Boosted`), waiters
stand in the order of their priorities (`Ordered`), a mutex has recorded a priority no lower than
theirs (`Recorded`), and an owner has at least what its mutexes recorded (`Passed`). Together these
give `NoInversion`. During `_thread_update_priority` they hold but for one thread, the one whose
change the loop carries on: `Loose(z, x, y)`. The loop follows a chain of owners, and its bound in
the model, the number of mutexes, is enough because ranks climb along the chain (`Climbing`):
`AtLeast(m)`, the mutexes of at least the rank of `m`, gets smaller with each step
(`ChainShortens`). `StrictRank` says that no two mutexes have the same rank, the order in which a program
has to take them if it is not to deadlock. Detached mutexes are excluded by `NoInversion` and
`HandedToHighest` themselves, for the reason given in section 6.

`HandedToHighest` follows from `Boosted`: a release or an exit passes a mutex on to its first
waiter (`Hands`), and the list is in order. Exits pass on several mutexes, one after the other, to
the first waiters that stood there at the start.

For `HighestKept` most calls need only that `rt_schedule` finds a runnable thread
(`Rescheduled`). The hard step is `TakeReturn`: a thread whose wait failed runs on, while
`LeaveWaiters` changes the priorities of a whole chain and nothing reschedules. It needs two facts
besides `InheritInv` (`Memory`): no thread is less urgent than it was created (`Bounded`), and a
thread whose wait failed still has the mutex on record (`Recalled`). With them the chain can only
lower threads (`Sunk`), as long as no ceiling comes in, and it never comes back to the thread that
returns, whose own mutexes are all of a lower rank than the one it waited for (`Behind`).

### The message queue

The C lists are links in a function, so a first part shows that they are sequences: `Lists(z, f, m)`
says that `f` and `m` are injective, have no slot in common, and that head, tail and links of `z`
are theirs. Every operation on the links is an operation on these two sequences (a slot taken, given
back, linked last or first). That the walk along the links,
a recursive function, returns the sequence is shown once (`ChainIs`).

The inductive invariant adds to `TypeOK`, `ListsOK` and `NoLostWakeup` who has the slots that are in no
list (`HeldOK`: each call between two locked sections has one of its own, and a slot to be linked last
has no successor), what the slots hold (`ContentOK`), and who is in the wait lists (`WaitersOK`: a
thread that will return an error unless it is woken first). `SlotsOK` follows. `NoLostWakeup` counts:
beside messages, receivers in the list are outnumbered by those woken and not yet run, and likewise
senders beside free slots. It is part of the invariant for `Nested = FALSE` only: then no call falls
between the removal of a timer and its callback, and the first waiter can be woken
(`FirstReady`). The rest holds with any handlers. A reset, which wakes everybody, is an operation of its own on both lists.
`Fifo` sees the messages in the list, in order, and those in the hands of the calls that copy. The links
between the locked sections of two calls are what could break it: a message is out of the queue the
moment its slot is unlinked, and it must reach the reader unchanged while others take, fill and give
back slots around it.

### The timers

Tick counts are unsigned and wrap around, and the code compares them by the sign of their difference.
The proof works with how far ahead of the tick each expiry is (`Ahead`), an integer without
modulus; while timers are started at most half the range ahead, and the timer thread is late by
at most `MaxLate`, comparisons of expiries are comparisons of these.

The inductive invariant has three parts. `Base`: each list is in the order of expiries, none of
them further behind than its check can be late, and the timer whose callback runs is in its check's
temporary list or nowhere. `Actives`: what is in a list is marked active, and the other way round
except for a periodic timer in flight; the second half needs `SwitchInFlight = FALSE` (no
`RT_TIMER_CTRL_SET_SOFT_TIMER` or `..._HARD_TIMER` of a timer whose callback runs). `Alert`: when the
timer thread sleeps, or is about to, with no token for it, the only soft timers that are due
became so with the present tick, and the interrupt is still to look at them. `SoftServed` follows
at the end of the interrupt. In `Alarms` each alarm counts down with the ticks, those of one kind
ring one after the other, in the order of their expiries, and hard ones before the next tick.

### The objects

`IpcProofs` starts with what the operators of `Waiting` do to the wait lists, whatever object they
belong to: `ListsOK` says that lists hold suspended threads, in one place each, and that a timer
runs for a suspended thread only; it is kept by suspending, waking one, waking all and by
time-outs. Waking all is a walk over a list; what it does after `n` rounds (`Walked`) is carried
from round to round by `LoopKeeps`. The instances in `Ipc` share these operators, and one
lemma per object says so (`SemWaiting`, ...).

Then each object has an invariant that relates it to the threads on their way to it, those that
have been woken and have not yet run (`WokenIn`):

- `SemInv`: tokens owed = value + threads on their way; nobody sleeps beside a value. The same invariant gives
  each step of `Tokens`.
- `EvtInv`: no sleeper's request holds of the set; who is on its way has its request satisfied
  by what it was handed, since `rt_event_send` may clear events for the next ones.
- `BoxInv`: while threads wait for mails, there are at least as many receivers on their way as
  mails; while threads wait for places, as many senders as places. A call that wakes the other
  side may itself have been on its way, so that one number grows while the other one shrinks
  (`PassedOn`).
- `DtqInv`: the same for poppers. Pushers are woken only by a pop that leaves no more than the
  low-water mark, one by each: while some sleep, the items and the pushers on their way, each of whom
  brings one, are together more than the mark, or a reset is on its way. A pop takes one item away
  and then, if that leaves no more than the mark, puts one pusher on its way (`MarkBelow`,
  `CardinalityGrows`). The mark is any number below the size; a higher one is as the size less 1,
  because a pop always leaves less than the size.
- `WkqInv`: where the worker stands decides what it has seen of the lists; the token of the
  semaphore exists only between the end of a work and the wake-up of all who wait for it.
- `CmpInv`: the word is the sleeper or the flag, and a time-out that comes too late finds a
  thread that is awake.
- `SerInv`: while the shell sleeps, or is about to and will find no token, nothing is unread but
  what a handler has fetched that is still to run its indication.
- `WtqInv`: the waiter's node is in the queue while it sleeps; beside a condition that holds, somebody is
  still to wake it. A wake-up before it sleeps leaves the flag.
- `CvrInv`: `waiting_cnt` is the number of threads between the two counts in `rt_condvar_timedwait`, and
  every suspended thread has its node in the queue; so a signal finds a sleeper if there is one.
  While there is, items are at most the signals still to come and the threads woken that have not
  looked (`CvrComing`): a signal puts the thread it wakes in its own place.
- `PinInv`: the registers of a pin that its user has enabled are as they were set, whatever happens to
  the other pins of its line and its vector.

`Nested = FALSE` (no handler that uses the object interrupts the tick interrupt) cannot be left
out: the run `object_nested` violates `SemaphoreServed`'s second half with it, and section 6 says what
happens to the others. The completion needs no such hypothesis.

### Model-checked only

- The liveness properties (`NoStarvation`, `TopServed`): outside the prover's fragment.
- `NoExcess` of `Mutex`: that a mutex has recorded exactly its first waiter's priority, and not
  only one no lower, depends on which failed waits are still to be tidied up.
- Of the objects `BlocksKept`, the type invariant, and the abstract specifications other than
  `Tokens`.

## 6. What the runs and the modelling showed

Runs that end in a counterexample:

- `nestedwake`: `rt_schedule` (`scheduler_up.c:285`) reads the current thread
  before it disables interrupts. A handler interrupted between the two by
  another one that reschedules works with a stale thread: it removes a thread that
  is not the current one, and the most urgent thread is lost from
  the queue. It takes two nested handlers that release IPC objects.
- `mutex_chain`: a waiter whose wait failed looks at the owner's priority
  only if it equals its own (`ipc.c:1486`). Two waits of a chain that time out
  in the same tick leave the last owner boosted with no one waiting.
- `object_nested`: `rt_sem_release` ignores that `rt_susp_list_dequeue` may fail
  (`ipc.c:718`). A handler that interrupts the tick while the first waiter's timer has
  been removed and its callback not yet called releases a token that goes nowhere.
- `condvar`: `RT_ASSERT(acq_mtx_succ == 1)` (`condvar.c:133`) can fail. A thread waits; a second one
  locks the mutex, finds `waiting_mtx` set and unlocks the spin lock; the first one wakes up and
  leaves as the last one counted, which resets `waiting_mtx`; the second one now counts itself,
  sleeps, and finds nothing to reset when it leaves.
- `shell`: a line that reaches `FINSH_CMD_SIZE` is given up, but not erased
  (`shell.c:816`): what it leaves stands behind the end of the next command.

Places where comment and code disagree, and a passing run shows what the code does:

- *Serial.* An overrun loses everything unread but the byte that arrives, where the comment at
  `dev_serial.c:1463` speaks of one byte: `put_index` runs past `get_index`, which stays where it is, and
  the full FIFO reads as just begun (`Overruns` in `ObjectsImplement`).
- *Data queue.* The doc says that pushers are woken when there is less data than the low-water mark
  (`dataqueue.c:34`, `dataqueue.c:195`), the code wakes them when there is as much
  (`dataqueue.c:284`). `DataQueueServed` says what the code does, and with the documented test
  (`Fetch_BelowMark`) it fails.

Seen while modelling, kept by the models as the code has them, no run of their own:

- *Nested handlers.* Event, mailbox, message queue, memory pool and data queue try the first waiter only, as the
  semaphore does, or stop at it (`rt_susp_list_resume_all`). Their item stays, but a
  second waiter sleeps beside it (`NoLostWakeup` of `MessageQueue` with `Nested = TRUE`:
  the send ignores the failure at `ipc.c:3555`). A second try to wake
  the same thread succeeds, because `rt_sched_thread_timer_stop` clears the timer flag
  whether or not the timer was stopped (`scheduler_comm.c:84`); the callback
  then finds a thread that is not suspended, which it asserts against (`thread.c:161`). The
  services hold for handlers that do not interrupt the tick, and for waits without a time-out.
- *Mutex.* A ceiling is applied when a free mutex is taken but not to the thread
  it is handed to (`ipc.c:1667`). Detach reschedules only if the
  owner's priority was restored, not for the waiters it wakes
  (`ipc.c:962`), and restores that priority without passing the change on
  (`ipc.c:934`): if the owner waits for another mutex itself, it stays in its place in that list,
  which is then out of order, and the mutex may go to a less urgent thread. `NoInversion` holds
  while no mutex has been detached. A deleted thread's mutexes are released by a caller that does not own
  them, which fails: they stay owned by the dead thread (`thread.c:106`). Neither
  `rt_mutex_setprioceiling` nor the deletion of the thread that boosted
  another reschedules: `HighestKept` names these exceptions.
- *Message queue.* A reset or a detach wakes receivers with a positive `RT_ERROR`,
  which `rt_mq_recv` returns and which reads as a length (`ipc.c:3850`).
- *Timer.* A time of 0 is accepted: a periodic hard timer of time 0 keeps the
  tick interrupt in its loop (`timer.c:501`). `RT_TIMER_CTRL_SET_ONESHOT` during the callback of
  a periodic timer leaves `RT_TIMER_FLAG_ACTIVATED` set on a timer
  in no list: with `SwitchInFlight = TRUE`, `ListsOK` fails. A timer that is d
  ticks late and one set to n ticks are misordered when n + d passes half of
  the counter; `TimerAssumption` excludes that. A soft timer may be stopped, or
  deleted, between the unlock and its callback, and the callback runs all the same.
  With times of at least 1 the plain comparison of tick counts in
  `rt_timer_check` is harmless (`SoftServed`): a wrapped
  expiry looks due too early, and every count is looked at on the way.
- *Workqueue.* `rt_workqueue_cancel_work_sync` looks at `work_current` without the
  lock (`workqueue.c:365`): the work may end between the look and the wait, which then lasts until
  another work ends.
- *Data queue.* A wait that is repeated starts with the whole time again.
- *Wait queue.* Each waiter clears the wake-up flag when it returns, also one that was set for
  another (`waitqueue.c:258`).
- *Heaps.* A `realloc` of `mem.c` to a smaller size can fail, one that moves is three locked calls
  (allocation, copy, free). `memheap.c` refuses a request of all that is available, and its
  comparison with `available_size` precedes the lock.
- *Block ring.* The first block of a queue may be larger than the limit asked for, and the
  blocks of a queue need not be adjacent, since only their order is compared; `rt_slist_next` is taken of a
  null pointer at the end of the list (`ringblk_buf.c:452`).
- *YMODEM.* Between two boards with this code nothing goes wrong, at the price of giving up
  early: the sender aborts at the first answer it does not expect, an extra
  `C` included, and waits without a limit for an answer. With a sender of another make, a
  repeated packet other than the first would be saved twice, because a number is compared with its
  complement alone (`RYM_ERR_SEQ`, `ymodem.h:35`, is not used), and a repeated header would not
  be acknowledged. `RYM_CODE_EOT` from `on_data` does not end the transfer (`ymodem.h:88`).
- *Pins.* Detach, enable and disable do not compare the pin with the one that is
  attached. The handler of a shared vector serves every line with a flag, also one whose pin is
  disabled; that of a line with its own vector looks at no flag, so that an interrupt
  left pending calls it once more after the pin is enabled again. Detaching without disabling
  leaves the line on.

## 7. Not modelled, and why

Most of the repository's lines are not part of this image: `rtconfig.h` switches off file
systems, network, processes, USB, audio, the multi-core and user-mode code and
most drivers, and the BSP does not call most of the vendor's libraries. The
models cover what is compiled and has a state that its callers share.

- *Of modelled components*: in `Mutex` a time-out is one step, so handlers
  that interrupt the tick are not covered there (a handler takes and releases no mutex, but may resume a
  waiter); a plain `rt_thread_resume` of who waits for a completion, which the code asserts not to
  happen (`completion_up.c:136`); in `rt_workqueue_cancel_all_work` a handler between the test of a
  list and the read of its first entry (`workqueue.c:393-395`: an empty list has none); message queues detached, and threads deleted, while a call
  holds a slot (nothing in the code prevents either, and the slot is then lost, `ipc.c:3895`);
  `rt_thread_control(CHANGE_PRIORITY)` of threads that own or wait for mutexes (it overrides
  inheritance by itself, `scheduler_comm.c:345`); `rt_workqueue_destroy` and
  `rt_data_queue_deinit`, which leave everything to their last user; several wait-queue waiters
  of different keys; idle hooks and cleanup callbacks (none is set); serial transmission, which
  polls, and DMA; the shell's completion of options and splitting of a command; what YMODEM's callbacks
  do with a file.
- *Object container*: each operation on its lists is under one lock. *Device framework*: tables of
  callbacks; opening and closing one device has to be serialised by its users. *Start-up*: a straight
  line of calls before there is concurrency. *Kernel services, C library*: formatting and
  strings. *Application*: one loop of pin writes and sleeps.
- *Pipe*: needs the POSIX layer, which is off.
- Registers, stacks, FPU context, vendor libraries: below the level of the models.
- The flight folders: no code yet.

## 8. Plan

Done: (1) `Kernel`, `Scheduler` and their proofs; (2) `Mutex`; (3) `MessageQueue`
with `Fifo`; (4) `Timer` with `Alarms`; (5) the objects over `Waiting`, the
heaps and rings, shell, file transfer and pins with their abstract specifications; (6)
`ThreadLife`.

(7) The proofs: the scheduler, the life of threads, the mutex with inheritance, the message queue
and the timers with their abstract specifications, and the objects that threads wait for, but the
memory pool.

What could be added, in this order:

1. `NoExcess` of `Mutex`, with an invariant for the failed waits that are still to be tidied up.
2. `BlocksServed` of `MemPool`, on the lemmas about wait lists, and `Fifo` for `Mailbox` and
   `DataQueue`.
3. The heaps and the block ring: first, as for the message queue, what their chains are as
   sequences.
