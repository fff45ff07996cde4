# UVLED_nano: specifications, model checking and proofs

UVLED_nano is the firmware of a two-channel UV-LED irradiation controller (STM32F103,
RT-Thread Nano 3.1.4). An operator starts and stops irradiations from an LCD panel or from
two start inputs; a thread drives the lamps, watches temperature and lamp feedback, and
books the running time; settings survive in the last flash page; an RS485 slave reads and
writes them. This directory holds TLA+ modules of its parts, TLC configurations that check
them on small instances, and TLAPS proofs of what matters most for all sizes.

Paths below are relative to `src/`. Line numbers are given as `file:line`.

## 1. Inventory

### Application

| Component | State | Operations | Talks to |
|---|---|---|---|
| Irradiation controller (`drivers/shine.c`) | `channelN.status`, `now_time_s`, running time, `channelN_old_status`, stage and cycle counters, pins EN, PWM, Light, Alarm, Complete, BEEP | one pass of the thread per 100 ms (inputs, channels, exit, count), `shine_init`, `LightON/OFF` with the threads `lightoff1/2` | panel commands (shared variables), settings (`save`), kernel threads |
| Panel commands (`drivers/lcd.c`, `lcd_command_entry`) | `on_shine_page`, `read_temp_running`, `led_on_io`, `control_mode`, parameters | start inputs; pages 0–7, 0x1d, 0x1e, 0x1f of the panel | all others |
| Panel reception (`drivers/uart.c`, `lcd_com_thread_entry`) | USART2, `lcd_rx_buf`, `uart2_rx_mq`, `lcd_command_mq` | interrupt, idle line, splitting of messages into frames | HAL UART driver, message queues |
| Panel output (`lcd_send`) | `lcd_command_send_mq` | formatting, `HAL_UART_Transmit` | message queues |
| Persistent settings (`drivers/flash.c`, `drivers/channel.c`) | flash page 0x0800fc00, `FLASH->CR` lock, `pFlash.Lock` | `save`, `channel_init` | HAL flash driver; called by three threads |
| RS485 slave (`drivers/RS485.c`) | `usRegHoldingBuf`, `address`, `M_CRC`, send buffer | read and write of registers (functions 3 and 6) | settings |
| Temperature (`drivers/temperature.c`), supply voltage (`adc.c`), PWM (`PWM.c`), pins (`gpio.c`) | `Temp1/2`, `voltage` | bit-banged CS1238 protocol, average, scaling | controller |
| Start (`applications/main.c`) | – | initialisation in order, then sleep | all |

### Kernel (`rt-thread/src`)

| Component | State | Operations |
|---|---|---|
| Message queues (`ipc.c`) | free list, queue, count, two lists of waiting threads | send, send_wait, urgent, recv, reset |
| Threads (`thread.c`, `idle.c`, `object.c`) | `stat`, list membership, thread timer, defunct list | create, startup, sleep, timeout, exit, delete, reclamation |
| Scheduler (`scheduler.c`) | ready lists and bitmap, lock nesting | insert, remove, schedule |
| Timers, tick (`timer.c`, `clock.c`) | two ordered lists, 32-bit tick | start, stop, detach, check |
| Heap (`mem.c`) | list of blocks in the heap | malloc, free, realloc |
| Semaphores, mutexes, events (`ipc.c`) | value, owner and inherited priority, flags, lists of waiting threads | take, release, send, recv, reset |
| Mailboxes, memory pools | built in, not used by the firmware | – |

Threads and priorities (0 is the highest): `main` 10; `lcd_receive`, `rs485_receive` 15;
`lcd_command`, `lcd_send`, `read_temp`, `shine`, `lightoff1/2` 20 with a time slice of 10
ticks; idle 31. So the controller, the panel commands and the relay threads preempt each
other anywhere by time slice, and the RS485 slave preempts all of them. Nothing but the
kernel's own critical sections and the lock bits of the HAL protects what they share.

### What is hard, and what makes each part correct

* **Controller.** The panel thread writes `status` and `read_temp_running` at any point of
  a pass, deletes the controller thread with `rt_thread_delete` wherever it is, and starts
  another; relay threads wake up later. Correct: a burning lamp has a live owner and a closed
  relay; off means off in the end; faults put the lamp out; automatic irradiations end after
  their time; every lit second is booked once.
* **Reception.** Interrupts are late (the flash stalls the processor), bytes are overrun,
  buffers and queues fill. Correct: only single frames, in order, each once; all of them when
  nothing was lost.
* **Settings.** Three savers without a lock, deletion in the middle, power failures. Correct:
  a completed save is what comes back; a failure never mixes up settings; the HAL lock does
  not stay taken.
* **Message queues.** The kernel enables interrupts while it copies. Correct: the memory of
  messages is conserved, no wake-up is lost, the queue is a bounded FIFO.
* **Scheduler, semaphores, mutexes, events.** Interrupts and time-outs fall between a critical
  section and its `rt_schedule`. Correct: a thread is in one list, the highest ready one runs,
  units and flags are neither lost nor given twice, inherited priorities come and go.
* **Timers.** The tick wraps; timeout functions start and stop timers, soft ones with interrupts
  enabled. Correct: none early, late, out of order or forgotten.
* **Heap.** Splits and joins in any order; a thread may be deleted inside. Correct: blocks tile
  the heap, no memory is given out twice, RT_NULL only if nothing fits, every call returns.
* **RS485.** The length of a message is not looked at and the buffer keeps old ends; the answer
  goes out before the change. Correct: only what was sent is carried out; what was written reads
  back, after a restart too.
* **Temperature.** A configuration that times out is skipped silently. Correct: a wrong channel's
  value does not stay, and both are never exchanged.
* **Threads.** Deletion takes three critical sections, memory is freed by the idle thread,
  handles survive. Correct: lists, `stat` and heap agree; no thread is lost; memory comes
  back.

The full list of hazards, each at its line, with the property that would show it going wrong
or the reason there is none, is in `PROJECT.json` under `hazards`.

## 2. Modules and how they correspond to the code

`PROJECT.json` maps every definition to its lines.

**`Shine`** (with `MCShine`, `ShineProofs`): `shine.c` with the part of `lcd.c` that starts
and stops it. The three thread functions have the same skeleton, so there is one thread with
a `mode`; where they differ (`TimeOver`, `StageOver`, `RelayOnLeave`, `OnDuty`, `Restart`) the
definition says in which mode. `pc` is where the controller thread is, cut wherever another
thread can make a difference: before each channel, around each delay, each `save()` and each
test of shared state.
`Start, Flags, Poll, Debounce, SwitchOn/StayOn/SwitchOff/StayOff, Guard, Exit/StayOnPage,
ExitSave, Leave, Sleep` are a pass in order. `lpc` is the panel thread: `LcdEdge`, `ShineInit`
and `ShineCreate` (the two halves of `shine_init`), `LcdRun`, `LcdCommand`, `LcdTimeout`.
Deletion of the former thread is part of `ShineCreate`: it may be at any `pc`, and its pins
stay as they are. `LightOff(c)` is the end of a relay thread. Flags per channel are sets of
channels. `ran` is a history variable: seconds counted with the lamp on. Temperature and lamp
feedback are inputs (`hot`, `dark`), as are the start inputs (`low`) and the operator.
One `Sleep` is 100 ms; other delays have an end but no length. `ShineCreate` takes the
creation of the thread as one step; its inside is `ThreadLife`'s.

**`PanelRx`** (with `DriverProofs`): one byte at a time through the data register, `HAL_UART_IRQHandler`, the idle
test and the callback of `uart.c`, `uart2_rx_mq`, the splitting loop of `lcd.c`, and
`lcd_command_mq`. A byte is its number on the line, so that order, loss and duplication are
visible and contents are not; `IsEE`/`IsB1` say where headers are. `Interrupt` and `TestIdle`
are two actions because a byte can come between `HAL_UART_IRQHandler` and the idle test.
Reception that has ended (`armed = FALSE`) never starts again, as in the code. The queues are
plain bounded sequences here; that they are is what `MsgQueue` shows.

**`FlashSave`** (with `MCFlashSave`): `save()` as the list `Calls` of HAL calls in the order of
the code, each in three steps, since `__HAL_LOCK` is a test and an assignment: `TestLock`,
`TakeLock`, `Operate`; and `Unlock`, `Lock`. A call that finds the lock taken is skipped
(`HAL_BUSY`, ignored). A half-word that is not erased can only be programmed to 0; a locked
flash does nothing. `Runs` lets a saver run only if none of a higher priority is saving.
`Kill` is `shine_init` deleting the shine thread in the middle; `PowerLoss` may happen before
any step, and `channel_init()` loads what is there (`Loaded`, with the width of each setting).
`MCFlashSave` also compares the full page layout of `save()` and `channel_init()` as an
assumption that TLC evaluates.

**`MsgQueue`** (with `BoundedFifo`, `MCMsgQueue`, `MsgQueueProofs`): one action per critical
section of `rt_mq_send_wait`, `rt_mq_urgent`, `rt_mq_recv` and the reset of `rt_mq_control`; in
between, the block of a message belongs to the caller (`slot`) and is in no list. The blocks are
identities, `content` is what they hold. `Timeout` is `rt_thread_timeout`; `Recompute` is what a
resumed thread does before it looks again. Both list disciplines (`ByPriority`). `BoundedFifo`
says what a queue promises to its users; `Fifo` is the refinement mapping.

**`ThreadLife`** (with `MCThreadLife`, `KernelProofs`): control blocks as places in the
heap that are reused, `rt_thread_delete` as its check and its three critical sections, timer
expiry as an interrupt, the idle thread's reclamation, and the handles of `shine.c` which are
not cleared when their thread returns. `Fresh` restricts the application to handles of threads
that still exist; `raced` records that a timer expired inside a deletion. The definitions that every model has (`LifeInit`, `LifeSpec`, ...) carry the
name of the model here and in `Temperature`, since a proof module extends two models.

**`Scheduler`, `Sync`** (with `MCSync`, `SyncProofs`): `Scheduler` has the ready queue as a record `rq` (lists,
bitmap, priorities) and the functions of `scheduler.c` as operators from queue to queue, since
callers chain several in one critical section. `Sync` extends it: one action per critical section
of `ipc.c`, the `rt_schedule()` behind it is an action of its own (`due`, `Reschedule`), so that
interrupts (`Isr` as caller, `Expire`, `Yield`) come in between. A resumed thread learns the
result only in `Return`. `granted`, `held`, `nested` and `demoted` are history variables.
`Mixes` says which objects are used together in one behaviour.

**`Timer`** (with `MCTimer`, `KernelProofs`): lists, active timers, `init_tick` and deadlines in the record `q`, the
tick modulo `W`. `Tick` starts `rt_timer_check` in the interrupt, which ends with `CheckDone`;
the timer thread is `ReadNext`, `Look`, `Delay`, `Check`, `CallTouch`/`CallSleep`, `CallEnd`; the
application acts in `AppTouch`, `AppLook`, `AppResume`, the three parts of `rt_timer_start` for a
soft timer. `Later` is the comparison of the walk in `rt_timer_start`, `Place` where it ends, `Unlink`
`_rt_timer_remove`. `age` is the real time since a start, which does not wrap.

**`Heap`** (with `Allocator`, `MCHeap`): the headers in the list as a function from addresses, the
lowest free block, the queue at `heap_sem`. The body of a call is one action, since all of it is
done with the semaphore; a `rt_realloc` that moves takes it three times (`AsksAgain`). `Deleted`
is `rt_thread_delete` for a thread anywhere in a call. `Allocator` says what an allocator
promises; `Pieces` is the refinement mapping.

**`Rs485`** (with `MCRs485`): bytes on the line as numbers with a value, `Idle` is the interrupt at a
pause with its `memcpy` to the begin of a buffer that keeps its rest, and with the byte that is
read away if it comes just before the idle flag is cleared; `Intact` is the CRC, which
fits the six bytes it was computed for and no others. `AnswerRead`, `AnswerWrite` and then
`CarryOut` (the switch over the registers and `save()`) are the thread; `PanelSets` and `Restart`
are the rest of the firmware. USART1's overrun and full buffer work as in `PanelRx` and are left
out here.

**`Temperature`** (with `DriverProofs`): the two waits of `Con_CS1238` and `Read_CS1238` poll
by poll, which input the converter measures (`conf`), and for which channel the thread stores it.
A temperature is the number of the channel it was measured on.

## 3. Runs

States are distinct states found by TLC with the bounds of the `.cfg`.

| Run | Instance | States | Shows |
|---|---|---|---|
| `shine_lamp` | 2 channels, manual and automatic, 4 presses, 1 fault, settings changed at any time | 10,460,224 | `LampKept`, `IdleMeansOff` |
| `shine_ends` | 1 channel, manual, 3 presses, 2 input edges, 1 fault, fair | 481,645 | `StatusObeyed`, `FaultEndsLamp`, `BackEnds` |
| `shine_kept` | 1 channel, all modes, 4 presses, 1 fault, 2 stages, 2 rounds, fair, no "back" | 899,964 | `TimeBooked`, `UninterruptedLength`, `RelayOpens`, `IrradiationEnds` |
| `mq` | 1 sender, 1 interrupt handler, 2 receivers, 2 blocks, 2 messages, urgent and reset, fair | 265,304 | `PoolKept`, `NoLostWakeup`, `WaitInTurn`, `Delivered`, `IsFifo` |
| `flash` | 2 savers, 3 settings, 1 change, kills and power failures | 3,967,639 | `Stored`, `NoGarbage`, `LockHeld` |
| `thread` | 3 blocks, 2 handles, fair | 544,186 | `ThreadsSound`, `Reclaimed` |
| `panel` | 4 frames of 3 bytes, buffer of 7, queues of 2, fair | 160,480 | `FramesKept`, `Delivered` |
| `sync` | 3 threads of different priority and idle; a semaphore, an event set, or two mutexes | 3,258,673 | `OnePlace`, `HighestRuns`, `SemUnits`, `NoneMissed`, `PriorityRestored`, `Inherits` |
| `timer` | 1 hard, 2 soft timers (2 periodic), tick modulo 11, times of 1 and 3 | 2,653,150 | `InTime`, `SoftServed`, `NeverEarly`, `SleepKept` |
| `heap` | 2 callers, sizes 1 and 9 in a heap of 21 units, one caller deleted, fair | 182,985 | `HeapSound`, `Allocates`, `NullOnlyIfFull`, `CallsReturn` |
| `rs485` | 2 of 8 requests, pauses after 1, 5 or 8 bytes, 1 byte lost, 1 restart, fair | 708,929 | `RightRequests`, `ReadBack`, `Answered` |
| `temp` | 150 polls as in the code, fair | 15,402 | `NeverSwapped`, `OwnInTheEnd` |

Why the bounds are enough to be interesting:

* `Shine`: four presses are enter, on, and two more in any order (off/on again, back, back and
  enter); two channels share the beep, the loop and the exit; `MaxNow` exceeds `Time` and every
  stage, so that all time-outs happen; `CheckDelay` 1 instead of 3 keeps the delay of the
  feedback test. `Patient` (the operator enters the page only when no irradiation thread is
  left) is TRUE in the runs; section 6 shows what happens without. Start inputs
  change only in `shine_ends`. `IdleMeansOff` is checked without them: with an input edge the
  race at `lcd.c:259` (the thread is started before `read_temp_running` is set) breaks it.
  `RelayOpens` is checked in sessions that are not left; section 6 shows what leaving does. In `shine_kept` there is no "back": the seconds of a channel that goes off by a fault in
  the very pass in which the page is left are not booked (`shine.c:278`).
* `mq`: two blocks and two senders fill the queue, so that a sender waits; two receivers of
  different priority wait for one message. The instance uses the priority discipline, whose
  ties are FIFO; the firmware's queues use FIFO throughout, which the theorem of section 5
  covers together with every number of threads, blocks and messages.
* `flash`: a setting of one byte for each channel and the half-word that is programmed twice;
  the layout of all settings is compared by the assumption of `MCFlashSave`. Two savers of equal
  priority interleave freely; section 6 has the one of higher priority.
* `thread`: with three blocks two handles have live threads while a closed one awaits
  reclamation, and memory is reused.
* `panel`: the buffer holds two frames and one byte more, as the real one holds several frames
  and a part; queues of two fill up; four frames can be merged, cut and overrun. TLC may stop
  when all frames are sent, so deadlock is not checked.
* `sync`: three threads are owner, waiter and a third between them in priority; two mutexes make
  nesting; requests for all flags, for any and without clearing. `Lifo` (mutexes are released in
  the reverse order) is needed for `PriorityRestored`. The kernel's objects do not share state, so
  one kind at a time (`Mixes`) shows all interleavings over the common scheduler; the theorems of
  section 5 hold for any mix. The two mutexes are symmetric.
* `timer`: 11 ticks make the tick wrap within every behaviour; a time and twice the lag fit into
  half of it, as the assertion of `rt_timer_start` demands of the time alone. `MaxLag` and `MaxSlip`
  bound how long the timer thread and a pass of the check are held up, by one tick here and by any
  number in the theorems.
* `heap`: the heap has room for four blocks of the least size, so that a freed block has used and
  free neighbours on both sides, splits and near fits occur (a rest of 3 is kept, one of 6 is
  split off), and requests fail.
* `rs485`: the requests differ in every byte, go to this slave, another or all, read and write all
  kinds of registers (the address, one of two bytes, register 18); pauses cut after the first byte,
  before the last three and at the end. Two requests suffice to mix two.
* `temp`: the number of polls is the real one.

Every property of a passing run has a mutant in `PROJECT.json`: a plausible slip in one mapped
definition (`X_Something` beside `X`) under which TLC finds the property violated.

## 4. Fairness

* `Shine!FairSpec`: weak fairness of the controller thread, the panel thread and each relay
  thread. They have the same priority and round robin, every delay ends, and the threads of
  higher priority block most of the time. Nothing is assumed of the operator, the inputs or the
  faults.
* `MsgQueue!FairSpec`: receivers call `rt_mq_recv` again and again (all receiving threads of the
  firmware are endless loops) and go on when they are ready. Senders need not come.
* `ThreadLife!LifeFairSpec`: the application goes on, sleeping threads wake up, ready threads sleep or
  exit, and the idle thread runs when no other is ready. `Reclaimed` assumes in addition that
  in the end the processor is left to it (`<>[]Idle`).
* `PanelRx!FairSpec`: interrupts are taken and threads run in the end; the panel finishes a frame
  it has begun and pauses unless it goes on.
* `Heap!FairSpec`: each caller goes on (it is ready when it has the semaphore). `CallsReturn` needs
  `Safe`: no thread is deleted while it has `heap_sem`. The code does not guarantee it (section 6).
* `Rs485!FairSpec`: the line delivers what is sent, interrupts are served, the thread of priority
  15 runs.
* `Temperature!TempFairSpec`: the thread goes on; the converter may stay silent for ever.
* `FlashSave`, `Sync` and `Timer` have safety properties only and no fairness; where something must
  not be missed (`NoneMissed`, `SoftServed`) it is stated of every state.

## 5. Proofs

All theorems hold for every value of the constants that meets the named assumptions.

* **`ShineProofs!TypeCorrect`**: `TypeOK` is inductive; one step per action.
* **`ShineProofs!LampSafe`**: with `Patient`, `[]LampKept` (`LampOwned /\ RelayWithLamp`) for any number of
  channels, any times, recipes, inputs, faults and presses. `LampOwned` is not inductive: the
  successor of a deleted thread knows of no lamp. The invariant `LampInv` adds that
  `on_shine_page` is set while there is a thread (so an input starts no second one), that
  `shine_init` finds no thread to delete, and that an unread "enter" is the next message of a
  panel thread that waits for it.
* **`ShineProofs!IdleSafe`**: with `Patient` and inputs that keep their level (`MaxEdge = 0`),
  `[]IdleMeansOff`. `SessionInv` adds that the messages after "enter" are for a thread that is
  there and that nothing follows "back". With changing inputs the property fails: a start by an
  input sets `read_temp_running` behind the back of a thread that may be gone (`lcd.c:259`).
* **`ShineProofs!TimeKept`**: with `Patient`, `MaxEdge = 0` and no "back", `[]TimeBooked`, since
  without "back" the thread stays and `old` tells which lamps are on (`BookInv`). With "back" in
  the same pass as an alarm or the end of the time, the seconds of an irradiation are lost
  (`shine.c:278`). These two hypotheses are those of the instances TLC checks.
* **`ShineProofs!LengthKept`**: with `Fits`, `[]UninterruptedLength` for any channels, recipe and number of
  rounds, as long as the inputs keep their level. `LengthInv` follows an undisturbed session from its first message (`Waiting`, `Entered`,
  `Left`, `Lit`). A channel that is on has counted its past rounds and stages and the seconds of the
  one under way (`Counted`); it may only have reached the end of that one while the controller has
  yet to look at it in this pass (`Ahead`), so that no second is counted too much. `Fits` says
  that the bound on `now_time_s` is no shorter than any time, that there is a round, and that no stage is
  empty: an empty stage takes a pass, and the second that may be counted in it is too much.
* **`MsgQueueProofs!PoolSafe`**: `[]PoolKept` (`SlotsPartitioned /\ EntryCounts /\ SleepersListed`)
  for any pool, callers, priorities and discipline. The invariant adds the types and what a caller holds
  at each step. That the count never meets its limit needs a counting argument
  (`RoomForOneMore`: a caller that holds a block leaves the queue shorter than the pool); what
  insertion and removal do to lists without duplicates are lemmas about sequences.
* **`MsgQueueProofs!WakeupKept`**: `[]NoLostWakeup`. A resumed thread has left its list, so the
  proof counts: a step either adds to the awake threads about to look, or takes nothing from
  them while somebody sleeps.
* **`MsgQueueProofs!InTurn`**: `WaitInTurn`. The place of a newcomer is searched from the head and is the
  right one only in a list that is in order (`Ordered`); every critical section moves each list
  in one of a few ways (`Moves`) that keep it in order.
* **`MsgQueueProofs!Refines`**: `IsFifo`, the refinement of `BoundedFifo`. What a block holds counts only
  while it is in the queue or is copied by a receiver; the partition of the pool says that no
  sender writes to it then, and gives the room the abstract queue asks for.
* **`HeapProofs!HeapKept`**: `[]HeapSound` for any sizes. What bypassing, splitting, marking and
  `plug_holes` do to any list of blocks (`Linked`) are lemmas about one operation; `Joined(m, A)`
  says where free neighbours may still be in the middle of it. That a call finds its block where it was
  when the call was made needs `Owned` and `Called`: a block that is owned is in use and has
  one owner, and the block of a call under way is owned by its caller.
* **`HeapProofs!NoNullBefore`**: `NullOnlyIfFull`, from the same invariant (a free block is never below `lfree`).
* **`HeapProofs!Implements`**: `Allocates`, the refinement of `Allocator`: `Found` gives, `Freed` takes,
  `Resized` shrinks a piece or leaves it, and no step moves the end of a block that is in use.
  Both hold wherever threads are deleted (`Safe` or not): a deletion leaks, it never corrupts.
* **`FlashSaveProofs!TypeCorrect`, `LockGivenBack`, `SettingsStored`, `NeverGarbage`**: `[]TypeOK`, `[]LockHeld`,
  `[]Stored` and `[]NoGarbage` for any settings, any threads that save and any number of changes. First
  two facts about constants: each setting has a half-word of its own (`Layout`) and the calls of
  `save()` cover the page (`CallsOf`). `FlashInv` then says that, while saves do not overlap, what
  the save under way has programmed is in the page and the rest is erased or as good.
* **`Rs485Proofs!AnsweredInTurn`**: `[]RightRequests` for any requests, pauses and losses. Each byte
  has a number; `LineInv` and `TurnInv` say that the bytes under way are the last that were sent
  and that what waits in the queue are whole requests, later than those answered.
* **`Rs485Proofs!WrittenIsRead`**: `[]ReadBack`. `BackInv` says that what was written is in the setting a
  register shows or, if it shows none, in `usRegHoldingBuf`, unless a newer request is about to
  change it; `RegisterInv` that what is pending is in `usRegHoldingBuf` and the settings are stored.
* **`KernelProofs!LifeTypeCorrect`, `ThreadsKept`**: with `Fresh`,
  `[]ThreadsSound` (`ListsMatchStat /\ NoneLost`) for any number of blocks and handles. The invariant adds what
  the application has in hand at each step of a deletion or creation (`InHandOK`) and, for the
  types, that it then holds a block (`TargetOK`).
* **`KernelProofs!TimersEndInTime`**: `[]InTime` for any timers, times and width of the tick. The invariant
  of a critical section (`Sound`) is about the time that is left of each timer, a number that does
  not wrap: a deadline is the tick and what is left, modulo `W` (`Wraps`), and the list is in the order
  of what is left. `DistFacts` takes the comparison of two wrapping times back to what is left,
  wherever two timers are less than half a turn apart; that they are is the assumption
  `d + 2 * MaxLag <= Half`. Each function of `timer.c` keeps `Sound` (`Place` ends where the order is kept),
  and `IInv` adds that an active timer is on its list or in the hand of the timer thread (`Kept`).
* **`KernelProofs!NoTimerEarly`, `SleepNotBroken`**: `NeverEarly` and `SleepKept` from the same invariant: what is
  at the head and no more than half a turn behind the tick is over.
* **`KernelProofs!SoftTimersServed`**: `[]SoftServed`. Between its look at the list, its look at the tick and
  its sleep the timer thread holds numbers that were true; `Waiting` says for each of these places
  how far they may be off by now (`slip`), or that who started a timer since is about to wake it.
* **`DriverProofs!TypeCorrect`, `FramesStayWhole`**: `[]TypeOK` and `[]FramesKept` of `PanelRx` for any frames,
  buffer and queues, whatever is overrun, merged or dropped. Four numbers part the line (`Parts`) into what was
  handled, waits in `lcd_command_mq`, is being split, waits in `uart2_rx_mq` and is in the buffer; `Received`
  says that the buffer is a run of bytes that ends where the line is, as long as reception is armed;
  `Shaped` that each message is such a run and a command begins with a header.
* **`DriverProofs!TempTypeCorrect`, `Unswapped`**: `[]NeverSwapped` for any length of the waits. The
  invariant `SwapInv` adds that a wrong reading of the channel that had its turn last tells which
  input the converter measures.
* **`SyncProofs!TypeCorrect`, `NoThreadLost`, `FirstRuns`**: `[]TypeOK`, `[]OnePlace` and `[]HighestRuns` for
  any threads, priorities, objects and depth of critical sections, all objects in use together.
  The invariant is `Base`. Its part `Listed` is `OnePlace` as a fact about lists (each names a
  thread at most once, a ready thread is only in that of its priority, another one sleeps or is
  in that of what it waits for). `Runner` says that only a thread on its way into `rt_schedule()`
  may run without being ready; without it a thread could suspend itself twice. `Owned` is the same
  for mutexes. A step moves threads in one of three ways (`Kept`, `Went`, `Came`) that keep
  `Listed`, so that each action has to show only which of them it is. `HighestRuns` also needs that
  a thread that becomes worse or leaves is the current one, and that it then calls `rt_schedule()`.
* **`SyncProofs!UnitsKept`**: `[]SemUnits`. `Served`, the threads that have a unit and have not returned,
  changes with a release, a return and a reset only: one that times out was in the list, and
  one that is in the list is not served.
* **`SyncProofs!FlagsKept`**: `[]NoneMissed`. The walk of `rt_event_send` only clears flags, so a thread it
  has left behind stays unsatisfied (`Walked`, by induction over the places of the list).
* **`SyncProofs!PriorityGivenBack`**: with `Lifo`, `[]PriorityRestored`. A thread that holds mutexes gets its
  own priority back with the one it has held longest (`Restorable`); only if they are released in
  the reverse order is that the last one.
* **`SyncProofs!PriorityInherited`**: `[]Inherits`, with or without `Lifo`. When a mutex is handed on, the new owner
  must not be worse than those who still wait: the waiters without a mutex of their own stand
  behind all that are as good or better (`Ordered`), although a waiter that owns one may be
  raised while it stands in the list.

The assumptions are the named `ASSUME`s of the modules (finite pool that fits the counter,
positive numbers of channels and stages, a `None` that is no block, requests of bytes within the
registers, ...), which TLC evaluates in the runs.

Only model-checked: the liveness properties (`StatusObeyed`, `FaultEndsLamp`, `BackEnds`,
`RelayOpens`, `IrradiationEnds`, `Delivered`, `Reclaimed`, `CallsReturn`, `Answered`, `OwnInTheEnd`),
which TLAPS cannot prove under fairness. Every safety property that a run checks is a theorem.

## 6. Known deviations

Places where the code does something else than its comments say. None has a run of its own; each
can be reproduced by changing a `.cfg` as described, and TLC ends with the counterexample.

* `shine.c:572`: leaving an automatic irradiation clears `status` and then tests it; the relay of a
  lamp that was on is never opened, though `channel.h:19` speaks of a delayed closing. In
  `shine_kept.cfg`: `ModeSet = {"auto"}`, `"back"` in `Buttons`, only `RelayOpens`.
* `shine.c:945`: back and enter within one pass delete the thread with the lamp on; its successor
  never switches it off when the panel says off. In `shine_ends.cfg`: `Patient = FALSE`,
  `MaxPress = 5`, `MaxEdge = 0`, `MaxFault = 0`, only `StatusObeyed`.
* `flash.c:19`: a write over RS485 in the middle of another save ends with an erased page, although
  both calls returned. In `flash.cfg`: `Savers = {"rs485", "shine"}`, `MaxChange = 0`,
  `Kills = FALSE`, invariant `Saved`.
* `thread.c:424`: a timer that expires inside `rt_thread_delete` puts the deleted thread into the
  ready list; the comment at `thread.c:402` says it is removed from its queue. In `thread.cfg`:
  invariant `RemovedFromQueue`.
* `shine.c:43`: handles are used after their thread was freed (`thread.c:415` asserts the opposite,
  compiled out). In `thread.cfg`: `Fresh = FALSE`, invariant `DeletesThread`.
* `mem.c:303`: the shine thread creates relay threads (`shine.c:32`), `shine_init` may delete it in
  `rt_malloc` by a time slice and then waits in its own `rt_thread_create` for ever. In `heap.cfg`:
  `Safe = FALSE`; TLC ends in a deadlock.

## 7. Not modelled

Panel output and the formatting of numbers and texts (no behaviour depends on them but the
queue); floating-point scaling of temperature, voltage and PWM; the parameter pages' parsing, the
factory reset and the 10-stage table of the panel; the start of the firmware; kernel services
(strings, printing); mailboxes and memory pools, which nothing uses; everything `rtconfig.h` leaves
out (device framework, finsh, slab, memheap); vendor code, which makes up nearly all lines of the
repository, except the parts of the HAL that `FlashSave` and `PanelRx` contain. `RT_ASSERT` is
compiled out in this build and guards nothing.

Hazards without a property are listed with the reason in `PROJECT.json`; among them are the torn
booking of hours and minutes that RS485 reads or overwrites in the middle (it needs a composition
of `Shine` and `Rs485`) and replies longer than the send buffer.

## 8. Plan

Done in this order: `Shine`, `MsgQueue` with `BoundedFifo`, `FlashSave`, `ThreadLife`, `PanelRx`;
`Scheduler` and `Sync`, `Timer`, `Heap` with `Allocator`, `Rs485`, `Temperature`; the proofs of
section 5.

Left, models: `PanelCommands` (frames of several lengths with the stale bytes of older messages,
the parameter pages, the loss of messages when a full page is sent); the composition of `Shine`
with the registers of `Rs485` and of `Shine` with `FlashSave`; start inputs in the instance of
`IdleMeansOff` for the race at `lcd.c:259`.

Left, proofs: none of the safety properties above.

## 9. Running

    tlc -workers 2 -config shine_lamp.cfg MCShine.tla
    tlapm ShineProofs.tla

Each run's module is named in `PROJECT.json`; all passing runs end within minutes.
