# TLA+ verification of the resistivity module's firmware

The repository is the firmware of a sensor module ("digital cone") on an
STM32F4: it excites a probe with a sine wave, samples voltage and current with
two external ADCs, computes resistivity and answers a bus master over CAN. The
program's own code is `src/resmod/` (C++), on a small RTOS facade
(`src/lib/adara/`), with a port of FreeRTOS+IO (`src/lib/freertos-plus-io/`), an
Ethernet interface (`src/src/netif/`) and PHY drivers (`src/drivers/`) beside it.
FreeRTOS, lwIP, pugixml, SEGGER RTT, CMSIS and the ST libraries are vendored.

`.cproject` excludes `freertos-plus-io` and `src/netif` from the build at this
commit. They are first-party ports, kept and maintained with the rest, and are
treated here as libraries of the project; where a statement below is about
them it is about the library and not about the firmware image.

## Inventory

### Acquisition pipeline (`resmod/excitation`, `interrupts`, `acquisition`, `calcmodule`, `resmod.cc`)

State: status and enable bits of TIM5 and three DMA streams, NVIC, `EN`/`NDTR`
of two receive streams, `SPE`, `DR` and `OVR` of two SPIs, one single buffer per
channel, two binary semaphores, the copies `waveform_v`/`waveform_i`, and the
published `resist_can`.

Operations: the DAC waveform wraps (`Excitation::DMAComplete`, `ExcitationRoll`),
`TIM5_IRQHandler` triggers both channels (`LTC2336SPIDMATrigger::Trigger`), SPI and
DMA fill the buffers, each channel completes
(`LTC2336SPIDMATrigger::DMAComplete`, `CalculationTask::ADCVComplete` /
`ADCIComplete`), `CalculationTask::CalcTask` consumes and re-arms;
`ResmodMainTask::ResmodTask` arms the first measurement.

Interaction: a ring of hand-overs. Each stage is enabled by the one before by
setting an interrupt enable bit, a hardware enable bit or a semaphore.

Hard: two interrupt priorities and two tasks on one CPU, hardware running
beside it; status bits that are set long before anybody listens; single
buffers; binary semaphores that drop a second give; an SPI overrun flag nothing
clears. One lost hand-over stops measuring without an error.

Correct when: buffers are never written while they are read; results are
computed from samples of one measurement; no completion is lost; each
measurement starts at the start of a waveform; measuring never stops.

### CAN slave (`resmod/digitalcone`)

The start of its task is commented out in `main.cc:87` at this commit; the component is
complete.

State: the slave's identifier, table reassembly (`extratable_`, `capacity_`,
`idtable_`), the queue between the receive interrupt and the task, the
controller's FIFO and mailboxes.

Operations: `RequestTable` after two seconds, then one frame per turn of
`DigitalConeCan::Task`: `RxData` dispatches to `ReceiveSlaveTable`,
`ReceiveExtraSlaveTable`, `ReceiveAddressConfirm`, `SendSpecSheet`,
`SendChannelData`. `CanDriver::WaitForTransmission` fragments replies.

Hard: frames are lost by a full FIFO and by a full queue, silently; whether a
frame is a continuation is decided by the slave's state alone; traffic for
other slaves is broadcast on the same identifier; the byte counter is eight
bits wide.

Correct when: reassembly is in step with the sender; the table has no reserved
identifier; an address is taken only by consent; replies leave in order; the
handshake ends.

### Circular buffer reception (`freertos-plus-io`, UART)

State: two indices, a count and an error flag shared by handler and reader, a
counting semaphore, the receiver's data register and flags, `RXNEIE`.

Operations: the interrupt handler's loop, the read (take, mask, copy in up to two
attempts, unmask, check for the time-out), the clear.

Hard: the count is updated by both sides; the interrupt is masked around the
copy but not around the clear; write index = read index is both empty and
full; one give per handler entry and one take per turn of the reader.

Correct when: bytes come out once and in order; count and indices agree; the
handler returns; a waiting reader is served.

### Adara RTOS facade (`lib/adara/port/freertos`)

State: a list of task nodes (`tasklist_`, a doubly linked `std::list`), each with the
object and its handle; a binary semaphore (`mut_`).

Operations: `TaskStart` (under the semaphore, once the scheduler runs), `TaskStop`
(without it), the end of a task (`FreeRTOS_TaskEntry`, when its `Task()` returns).
`osutils::ASyncTask` calls the first from a constructor and the second from a destructor or
`EndTask`.

Interaction: every task of the firmware is started through it; any of them may stop any
other, itself included, and be preempted or deleted inside a call.

Hard: a task that stops itself is deleted before its node is erased; the handle
then comes to mean another task; a stop takes no semaphore, so that it may walk the list, or unlink
a node from it, between the link writes of a start's `push_back` or of another stop's `erase`; the
result of `xTaskCreate` is not looked at, and a null handle means the caller.

Correct when: a stop ends the task it was asked to end and no other; nothing freed is used;
the semaphore comes back.

### FlowController (`lib/adara/flowcontroller.*`)

State: a partial packet and its size. Operations: `Push`, `Purge`. Hard: three
pieces of bookkeeping per push. Correct when: the packets sent are the bytes
pushed, in order, and no write leaves the storage. Not modelled: nothing uses the
class and nothing in the repository says what it promises to whom; what is wrong with it
is listed as a hazard.

### Zero copy transmission (`freertos-plus-io`, UART)

State: the write mutex (a binary semaphore), the task recorded as its holder, the
transmit DMA stream, the transmission complete flag and its interrupt.

Operations: the ioctls that obtain the mutex, wait for an earlier write and release
the mutex, `FreeRTOS_UART_write`, the transmission complete interrupt.

Hard: the mutex is taken by one call, given and taken back in the middle of
another, and given for good by an interrupt; the recorded holder is cleared
after the mutex is given; tasks of other priorities wait meanwhile; an assertion with a side effect.

Correct when: who obtains the mutex finds the line idle; it has one holder, the
recorded one; no transmission is cut short; the mutex always comes back.

### The rest of FreeRTOS+IO

Character queues (a FreeRTOS queue with one operation per byte), driver table (filled once). Not modelled.

### Ethernet reception (`src/netif/ethernetif.c`)

State: the ring of receive descriptors shared with the DMA, the position of each side in it,
the segments the scan has counted, the input task's notification, RBUS, the pbuf pool.

Operations: the DMA fills descriptors and suspends when it finds none; `ETHERNET_IRQHandler`
notifies; `ethernetif_input` waits, `low_level_input` scans
(`ETH_Get_Received_Frame_interrupt`), copies, gives the descriptors back and demands a poll;
the stack accepts the pbuf or refuses it.

Hard: the DMA writes while the task scans; a frame takes several descriptors, which are
handed over one by one; the event that woke the task and the frames in the ring are not
counted against each other; the task gives up draining when the stack refuses a frame.

Correct when: the task takes the frames as they were stored; no descriptor and no pbuf is
lost; no frame is forgotten; a suspended DMA goes on.

### Ethernet transmission (`src/netif/ethernetif.c`, `stm32f4xx_eth.c`) and the core lock

State: the ring of transmit descriptors shared with the DMA, the position of each side in it, TBUS
and TUS, the stack's core lock (`sys_mutex_lock` in `lib/lwip/system/os/sys_arch.c`).

Operations: `low_level_output` copies a frame, `ETH_Prepare_Transmit_Descriptors` gives it to the DMA
and resumes a suspended DMA; `tcpip_inpkt` takes the core lock around each received frame, because
`src/include/lwipopts.h` sets `LWIP_TCPIP_CORE_LOCKING_INPUT`.

Hard: the DMA may suspend itself between the driver's hand-over and its look at the status; the
status is tested at two places, for two reasons; a frame is dropped silently when the ring is full;
answers are sent from inside the call that delivers a received frame, while other senders
wait for the same lock.

Correct when: frames leave in order and unchanged; a frame is dropped only when there is no room; a
suspended DMA gets going again; neither direction stops the other.

The rest of the lwIP system layer maps each primitive of lwIP to one of FreeRTOS and keeps no state of
its own that anything uses.

### PHY drivers, start-up, analog drivers

Register I/O by one caller and one pair of pure functions (bit mapping of the KSZ8895, whose
defect is listed as a hazard). No behaviour in time to check.

`PROJECT.json` lists every component with its files, and every hazard at its line.

## Modules

| module | models |
|---|---|
| `AcquisitionCycle` | abstract: a measurement in five steps that never overlap |
| `Acquisition` | the pipeline, register access by register access |
| `AcquisitionProofs` | its inductive invariant and safety theorems, and that it implements the safety of the cycle |
| `CanSlave` | interrupt, queue, task, protocol and driver of the slave; a bus master |
| `CanSlaveProofs` | its inductive invariant and safety theorems |
| `CircularBufferRx` | receiver, interrupt handler, reader and clear |
| `CircularBufferRxProofs` | its inductive invariant and safety theorems |
| `ZeroCopyTx` | writing tasks, their priorities, DMA stream and interrupt |
| `ZeroCopyTxProofs` | its inductive invariant and safety theorems |
| `EthernetRx` | the receive DMA, its ring, the interrupt and the input task |
| `EthernetRxProofs` | its inductive invariant and safety theorems |
| `EthernetTx` | `low_level_output`, the transmit ring and its DMA |
| `EthernetTxProofs` | its inductive invariant and safety theorems |
| `EthernetIf` | `EthernetRx` and `EthernetTx` composed, with the core lock between them |
| `EthernetIfProofs` | that the composition implements both, and keeps what they promise |
| `AdaraRtos` | `TaskStart` and `TaskStop` over the shared list, by any tasks |
| `AdaraRtosProofs` | its inductive invariant and safety theorems |
| `MCAcquisition`, `MCCanSlave`, `MCCircularBufferRx`, `MCZeroCopyTx`, `MCEthernetRx`, `MCEthernetIf`, `MCAdaraRtos` | the instances TLC checks |

An operator whose comment begins with "Variant" and that stands before
another is that other one with a plausible slip (a dropped guard, a missing
reset). No specification uses a variant: replacing the real operator by it shows that a
property can fail, and `PROJECT.json` says which property each one breaks.

### Acquisition

One CPU. `tim5` is the position in TIM5's handler (NVIC priority 4, above the
kernel's mask), `dma` in whichever DMA handler is active (priority 5; equal
priorities do not preempt each other), `calc` and `main` in the two tasks. Task and
DMA handler steps require what outranks them to be quiet, so preemption can happen
between any two of them. `flag`, `ie` and `pend` are status bits, enable bits and what the
NVIC has latched; the operator `Bits` latches a line exactly when status
AND enable rises, so enabling an interrupt whose flag is old fires at once, as
the hardware does.

A sample is abstracted to the label of the measurement (roll) it was taken in;
labels are reused cyclically. That is all the properties need: whether two
samples belong together. The hardware between the handlers is
`Roll` (waveform wraps), `Tim5Update`, `SampleClock` (both channels together, they
share the timer) and `DmaWord`. Three assumptions about time are
guards, each with its reason in a comment: a waveform period does not end inside
the few instructions of its handler; TIM5's handler sees at most `IsrTicks`
sample clocks (one in the runs) from the moment it is due; and a DMA stream fetches a
word within a sample period. `LateIsr` says whether a completion handler may be
later than a sample period, which lets the SPI overrun.

Configuration of clocks, pins and streams is the initial state. The numeric filter
is one step that reads both copies and publishes a label.

### CanSlave

`queue` and `fifo` hold frames with their bytes (a frame here is the identifier, the
data and, for the properties only, whether the master meant it as a
continuation). Replies keep identifier, kind and fragment number. The master is
not in this repository: it sends what the slave's code expects, and it
serves other slaves, whose tables and confirmations come at any time. The priority among
mailboxes and the overwriting of the newest FIFO entry are the controller's
behaviour under the configuration of `CanDriver::InitializeCAN1`. What `CAN_Receive` copies of a mailbox beyond a
frame's length is not modelled: `TablesAssumption` leaves out tables whose short last frame could be read as a
confirmation or as the first frame of a table. It also leaves out tables with a continuation that could be read as the
first frame of a table of fewer than two identifiers: what `TableTrim` then does (`pop_front` on an empty
list) is undefined. Without a loss no continuation is read as anything else, so both exclusions concern losses only.
`std::sort` is defined by what it does: every entry goes to the place given by the number of entries below it.

### CircularBufferRx

Each statement of the handler and of the clear that touches shared state is a
step; the reader's copy is one step per attempt, because the handler is masked
there. `raced` is a history variable: a byte was stored between the
clear's reset of the count and of the write index. `configASSERT` halts the
program under full assertions and expands to nothing otherwise; the model goes
on, and states the asserted condition as an invariant. One task reads: the
comment at `FreeRTOS_stm32f4_uart.c:265-270` about several readers is not examined.


### ZeroCopyTx

Every statement of the ioctls, the write and the handler that touches shared state is a
step. `Runs(t)` is the scheduler: no interrupt is due and no task that is in the driver and
not blocked has a higher priority. Time slicing is off in `FreeRTOSConfig.h`, but after a
preemption the kernel may go on with another task of the same priority, so equals interleave
freely. A task outside the driver may become ready at any time. `prvFillFifoFromBuffer` always
returns the whole size, so of the two branches of `ioutilsINITIATE_ZERO_COPY_TX` only "all the bytes
fitted" is taken. `FullAssert` follows the build (`USE_FULL_ASSERT` in `.cproject`): a failed assertion
halts. `raced` is a history variable: a task took the mutex between another's giving it
and that one's last access to what it protects. Tasks write only after obtaining the mutex, as the
driver interface asks.

### EthernetRx

The task and the DMA share descriptors; each access of the task to the OWN bit of one is a
step (`Scan`, `Release`), and the copy is one step because the CPU owns what it reads. A frame is its
number, the contents of a pbuf the numbers found in the descriptors that were copied. The MAC
is modelled as the driver needs it: it hands over descriptor by descriptor, ends a frame
early when it does not own the following descriptor, suspends when it owns none, and looks again on a
poll demand or when a frame arrives. The vector that calls `ETHERNET_IRQHandler` and
acknowledges the interrupt, and the stack behind `netif->input`, are not in the modelled sources: the stack
may refuse any frame and may keep pbufs as long as it likes. `stored` and `taken` are
history variables (what the DMA completed, what the task took), and so are `gaveUp` (the last
drain ended with a refusal or without a pbuf) and `cut` (a scan ended inside a frame). The
write through NULL that then follows (`ethernetif.c:308`) either stops the processor or changes
nothing the model has. After a cut the task may count a frame whose first descriptor the DMA has back; what it copies then is
no frame's and is written 0. The task may be arbitrarily late.

### EthernetTx

Each access of the driver to a descriptor or to the status register is a step, and between any two of
them the DMA may look at its descriptor (`DmaLooks`) and act on what it saw (`DmaSends`,
`DmaUnderflows`, `TxDmaSuspends`). Look and suspension are two steps because the race is between them: a
frame given to the DMA after its look, with the status tested before it suspends itself. That the DMA
suspends itself within the time the driver takes to copy a frame is an assumption about time, and a guard
of `TxCopy`. A frame is the number of the call; it fits one descriptor, since `netif->mtu` is 1500 and a
buffer 1524. The ring has at least two descriptors (`ETH_TXBUFNB` is 5 here). The calls exclude one another
by the core lock, so `xTxSemaphore` is always free and is left out.

The comment above `low_level_output` (`ethernetif.c:146` and following) says that it returns
`ERR_OK` when the packet could be sent. A dropped frame returns `ERR_OK` too. The stack's protocols take a
frame that is sent for one that may be lost, so nothing in the model depends on it.

### EthernetIf

The variables of both and `core`, the holder of the core lock. A step is a step of one side that leaves the other
unchanged, or takes or releases the lock. The input task takes the lock for each frame
(`InputLocks`), sends any number of frames while it holds it (`Send`), and releases it with the stack's
answer (`InputReturns`); `OtherLocks` stands for the tasks and timers of the stack that send for their
own reasons. `MaxMixed` bounds the frames of both directions together, but traffic in the receive
direction alone may go on to `MaxFrames`.

### AdaraRtos

`call[c]` is where the task of control block `c` is in its call, with the node of its iterator. `tasklist_`
is there link by link: `nodes` is what the nodes hold, `next` and `prev` their links, with `End` (0) for the end, which is a
node of the list but not of the heap. A node's address is its number in the order of creation and is not used again, so that
whatever follows a link to a node in `freed` is told apart: it is `fault`, after which nothing is modelled. A handle
is the address of a control block and does come to be used again once the block is freed.

`push_back` and `erase` are no services of the kernel: they run in the calling task, which may be preempted between any two of
their accesses. `Push` makes the node and copies the address of the last one into it, `LinkLast` tells the last node, `BecomesLast`
the end; `Erase` reads the links of its node, `LinkOver` and `LinkBack` tell its neighbours, `FreeNode` gives it back. This is
the order of libstdc++'s `_M_hook` and `_M_unhook`, which the repository does not contain: it is an assumption
about the toolchain, and these steps are marked external. `LinkLast` may use the address that was read first or
read it again, as the compiler chooses. The two reads of `Erase` are one step: only a push or another stop
writes these links, and both meetings are recorded. The count of nodes, which nobody reads, and the heap's own
work are left out. Before the scheduler runs nothing interrupts, and `BootStart` is one step.

Each turn of `find_if` is a step, and so is the deletion after it. Any task may call `TaskStop` for any object that is alive, its
own included; after it the object may be destroyed (`MayDie`) and made again. `vTaskDelete`, `xTaskCreate` and the
semaphore are steps of the kernel; of `vTaskDelete` the distinction between ending the caller (the idle task frees the block)
and another task (freed at once) is kept. If the stop that `FreeRTOS_TaskEntry` makes comes back, the task's
function returns, which FreeRTOS does not allow: `fault` too.

The history variables name the causes the code has for going wrong, and the properties except nothing
else: `upset` collects the objects for which the facade's books are wrong (their task ended itself, so the node
stays; or could not be created; or was ended in place of another; or two calls were about the object at
once; or its call was cut short; or its task was given another node than its own), `met` says that two stops were in the list
together, or that one erased a node while a start was pushing one, `cut`
that a task was deleted inside `TaskStart`. A stop and a start that meet need nothing else to go wrong: a stop of the
last node runs after the new node has stored its address, and the start then writes to a freed node. A stop
that only walks while a start pushes is not among the causes: it sees the new node or does not. A task
of `ASyncTask` whose `Task()` returns always upsets its object: `FreeRTOS_TaskEntry` stops the task, `TaskStop` deletes
the caller, and nobody erases the node.

## Runs

| run | shows | bounds |
|---|---|---|
| `acquisition_safety` | type, buffer ownership, coherence, no lost completion, room for each trigger, and the inductive invariant; an overrun is the only thing that stops the pipeline | bursts of 3 words, 2 labels, 1 clock of latency, handlers late or not: a burst has a stale first word, one moved while TIM5's handler is due and one after it, and a stale label can be told from the next |
| `acquisition_cycle` | the pipeline implements `AcquisitionCycle` with its liveness, and every roll acted on is measured | as above, handlers in time |
| `can_slave` | reassembly in step, expected bytes, trimmed table, address by consent, replies in order; the slave gets its address, refusals notwithstanding | queue of 2, FIFO of 1: both overflow; tables of one frame and of two; two messages for other slaves, one refusal, two requests |
| `can_table` | violation: `TableTrim` leaves reserved identifiers after a loss | as `can_slave` |
| `circular_rx` | the buffer is a queue, count and indices agree, the handler returns, the reader is served | 3 places, reads of up to 2 bytes, 2 byte values, at most 2 handler entries unread: the buffer wraps, fills and overruns |
| `circular_rx_full` | violation: the reader's assertion fails on a full buffer | up to 3 handler entries unread |
| `circular_rx_start` | violation: the first read waits for an interrupt that is off | `RXNEIE` off initially, no time-out |
| `zero_copy` | holder, idle line, no transmission cut short, mutex comes back, assertion holds, each unless raced | two tasks of one priority and one above, writes of 2 bytes |
| `zero_copy_window` | violation: the mutex is obtained in the middle of a transmission | a task of low and one of high priority |
| `eth_if` | received frames taken as stored, ring in step, pbufs accounted for, no forgotten frame, each unless a scan was cut; sent frames leave in order, are dropped only when the ring is full, the next call revives the DMA; reception goes on and sent frames leave, whatever the other direction does | receive ring of 3, frames of 1 or 2 descriptors, FIFO of 1, 2 pbufs, 4 frames alone; transmit ring of 2, 3 calls, 1 underflow; 3 frames when both directions are in use: both rings wrap and fill, DMA, FIFO and pool run out, and the lock is waited for (218,015 states) |
| `eth_segments` | violation: a descriptor is lost to both sides | receive ring as above, 3 frames |
| `adara_rtos` | a stop ends its own task and nothing freed is used, outside the named causes, with `push_back` and `erase` link by link; `mut_` comes back | 2 objects, 3 control blocks, one of them of a client, 2 starts (44,000 states): a handle can mean another task, two stops, or a stop and a start, can meet in the list, an object can be made again (with 3 starts, 880,000 states, the result is the same) |

Runs that switch deadlock checking off are those where the system may stop: a
slave whose handshake was lost, a reader with nothing to read on a line with no
traffic, tasks none of which calls the driver or one of which has halted, a processor stopped by a
write through NULL, an interface without traffic, tasks after a fault.

### What the violations show

*`can_table`.* The comment in `canslave.cc:161` says the table is rid of identifiers
0 and 1. `TableTrim` drops the two smallest entries. After a lost last frame the
header of the next table is appended as identifiers, 0 and 1 then occur more than
once, and remain.

*`circular_rx_full`.* `IOUtils_CircularBufferRx.c:160` computes the available
bytes from the indices alone; when the buffer is exactly full they are equal, and
`configASSERT( xBytesAvailable )` (line 178) fails. Without full assertions the
reader copies nothing ever again, since only it makes room.

*`circular_rx_start`.* The receive interrupt is enabled only at the end of a
turn of the reader's loop (`FreeRTOS_stm32f4_uart.c:275`), which first needs the
semaphore that the handler gives. The ioctl that enables interrupts enables the
NVIC channel and not `RXNEIE`. The SSP driver's does both.

*`zero_copy_window`.* `FreeRTOS_DriverInterface.c:258` says that obtaining the write mutex
shows that no transmission is in progress. The write gives it as soon as the DMA has
started (`IOUtils_ZeroCopyTx.h:143`) and takes it back a statement later, without waiting and without
looking at the result (`FreeRTOS_stm32f4_uart.c:187`). A task of higher priority that waits for it gets it in between.
`raced` in the properties of `zero_copy` excepts this window and the two others like it (the ioctls clear `xTask` after the give); the
run shows that nothing else breaks them.

*`eth_segments`.* The header of the MAC's driver says that a packet can take several buffers
(`stm32f4xx_eth.h:285`), and `low_level_input` that its loop gives the buffers back to the DMA
(`ethernetif.c:304`). The scan stops at the first descriptor the DMA owns, also inside a
frame (`stm32f4xx_eth.c:1162`). It then returns `{0, 0, 0}` with one segment counted and `DMARxDescToGet` moved on;
the caller writes through the NULL descriptor and clears the count. The first descriptor is not given
back, and when the DMA comes round to it reception stops. It takes a frame larger than a buffer (1524 bytes, more
than the Ethernet standard allows without jumbo frames) while the task drains an earlier
one. `cut` in the properties of `eth_if` excepts this; larger frames that are complete
when the scan meets them are part of that run.

### Fairness

`Acquisition`: timers and DMA engines never stop, the NVIC serves what is
pending, and both tasks run when nothing above them does: weak fairness of
each. Priority is in the guards and not in the fairness. `CanSlave`: weak
fairness of task, interrupt, bus and of the master's answers to this slave; none
of its traffic for others. `CircularBufferRx`: weak fairness of the handler, and of a read
and a clear in progress; nothing makes a byte arrive or a call begin, and no property counts on
a time-out. `ZeroCopyTx`: weak fairness of line, handler and each task's calls in
progress, and of a holder writing or releasing; tasks of lower priority still run only
when those above are blocked or outside the driver. `EthernetRx`: weak fairness of the DMA, the interrupt
and the input task, which has the highest priority; no frame
ever has to arrive and no pbuf to be freed. `EthernetIf` adds weak fairness of the driver's calls, of the transmit
DMA and of releasing the core lock, and strong fairness of the input task's taking it: it is the task of the highest
priority, so a FreeRTOS mutex that is released goes to it. `AdaraRtos`: weak fairness of each call once it is past
`PendFromTask`; nobody has to call and nobody gets the semaphore by fairness.

### Conditions in the liveness properties

Each names what really defeats the code. `EveryRollIsMeasured` excepts an SPI
overrun (no code clears the flag). `Connects` excepts a lost frame (nothing asks
again) and a table of more than one frame, because a longer table is never answered by the handshake
(`ReceiveSlaveTable`, `ReceiveExtraSlaveTable` leave `tx` alone). `ReaderIsServed` excepts a full buffer, an interrupted clear, and an
overrun whose byte the handler's last statement has discarded: the interrupt
then stays pending with nothing to read, and no task runs until another byte
comes. `NoSilentStall` excepts a drain that ended with a refused frame or an empty pool: the
frames behind it wait for the next interrupt. `AcceptedLeave` excepts a frame the DMA was given between its look
and its suspension: it waits for the next call, which `NextCallRevives` promises to be enough.
`MutComesBack` excepts a task deleted inside `TaskStart`: nothing gives the semaphore back for it.

## Proofs

`AcquisitionProofs` proves `Spec => []IInv` for every burst length, number of labels
and latency bound allowed by `PipelineAssumption`, and from it `TypeOK`,
`BuffersOwned`, `CoherentWaveforms`, `NoLostCompletion` and `TriggerFindsRoom`. None
of these is inductive: that nobody writes a buffer while it is read follows from
where every other stage can be at that time. `IInv` says so, stage by stage.
`InterruptInv` ties the NVIC's latches to the flags. `ArmedInv`: the waveform
interrupt is enabled only between two measurements. `DueInv`: TIM5's handler is due only when
both channels are empty, or have let in one word per clock since, which is why
its running twice does no harm and why the assumption needs a burst longer than
the latency bound. `BurstInv`: for each channel exactly one of stream, flag,
handler and task has it. `CalcInv` places the task relative to the semaphores.
`LabelInv` carries the label of the measurement from SPI to buffer to copy; it
excepts the first word, which a stream may take from `SPI_DR` before
`Trigger` discards it. `Next` is split into one lemma per action and conjunct
that the action can disturb. `PipelineImplementsCycle` proves the safety part of the refinement: every step of the
pipeline is a step of `AcquisitionCycle` or a stutter of it, under the mapping of `Acquisition`. Beside `IInv` it needs
`CycleInv`: from the roll to the last trigger TIM5's handler is due or has left a channel sampling, and no
channel drops out before the other has joined.

`CanSlaveProofs` proves all safety properties of the slave, for every set of tables, all sizes of queue, FIFO
and specification sheet: `TypeOK`, `FragmentsInOrder` and `AddressOnlyByConsent` whatever is lost, and
`InSync`, `ExpectsWhatIsComing` and `TableHasNoReservedIfNoLoss` as long as nothing is. `SInv` has five parts.
`DriverInv`: only mailbox 0 is ever used, and
what is on the bus, in the mailbox and still to be sent follow one another. `FrameInv`: no frame on its way would be taken
for an acceptance of the address before the master has accepted. For frames meant as commands that is their content; for
the continuation of a table, which the slave may read as a command once a frame was lost, it is that the identifiers of
a table differ while the chip id has a byte three times. A continuation that would be read as the first
frame of a table has the bytes it would be read by. `SleepInv`: before `Connect` nothing is sent. `SlaveTypes`: the
slave's members and the bounds of the queues. `SyncInv` looks at queue, FIFO and what the master is
still sending as one stream. While nothing was lost and the slave has no address, the stream is made of whole messages
(`Whole`: the first frame of a table is followed by the rest of that table, and then by no continuation); a slave
that expects more of a table has the beginning of one whose rest is what comes next (`Brings`), with the
count of bytes that are missing; and otherwise the next frame is no continuation. Interrupt and bus
move frames within the stream; only the task takes from it and only the master adds to it, whole messages at a time. That
`TableTrim` removes exactly the reserved identifiers follows from the ranks by which `Sorted` is defined (`SortedFacts`,
`TrimFacts`) and from a complete table having each of them once.

`CircularBufferRxProofs` proves, for every buffer length, the type invariant
(indices stay in the buffer and the count between 0 and its length, interrupted
clears included), that the count is the distance between the indices, and that
the reader's assertion holds away from a full buffer, and `QueueOfBytes`: every step but a clear leaves the bytes between the indices as
they are, appends one to them or takes some from their front. The strengthening is
that the distance from read to write index never exceeds the count, also after a
clear that raced (the count is then too large, never too small, so a copy never
takes more than the count says), and that the reader only copies while it still
wants bytes.

`ZeroCopyTxProofs` proves, for any tasks, priorities and length of a write, `TypeOK` and what the driver promises as
long as no task took the mutex in the middle of another's call. `ZInv` is `TypeOK` and, unless `raced`,
`HolderInv` (one task is between taking the mutex and the end of the call that gives it, and the mutex and the
recorded holder agree with where it is) and `LineInv` (bytes are on the line only in the sending part of a
write and until the interrupt, with the mutex away). Each of the two needs the other: the interrupt gives
the mutex, and only the line tells that it will.

`EthernetTxProofs` proves `LeaveInOrder`, `DropsOnlyWhenFull` and `NextCallRevives` for every ring of two
or more descriptors and any number of calls. The invariant `TxInv` says that the descriptors the DMA owns are a window of
the ring, from `txDma` to `toSet`, which holds the frames given but not yet left, in order; what the DMA's last look saw
that is still true; why it is suspended; and how far the call in progress has come.

`EthernetRxProofs` proves, for every ring, pool and size of frames, `TypeOK`, `PbufsAccounted` (a pbuf is with the task only
between `low_level_input` and the stack's answer), `FramesAsStored`, `RingInStepUnlessCut` and `NoSilentStall`. `RxInv` has three parts.
`TypeInv` holds always: beside the types it says that the descriptors of a frame are numbered along the ring, so that
a scan never counts more segments than the DMA has filled of one (`RunInv`). The other two hold unless a scan was
cut. `RingInv` counts: so many descriptors were filled before each frame (`FramesInv`), so many have been given back; the rest
start at one place of the ring and hold the segments that follow, up to the DMA's position (`HeldInv`); and each point of
`ethernetif_input` knows where in its frame it is (`TaskInv`). `WakeInv`: while a complete frame waits, the
interrupt is pending, the task is notified or still draining, or it gave up. Positions in the ring are
written without the remainder (`Turn`), which the provers handle badly; `TurnIsMod` is the one lemma that uses it.

`EthernetIfProofs` proves that each step of the composed interface is a step or a stutter of `EthernetRx` and of `EthernetTx`,
so that it implements both specifications and keeps what was proved of each (`IfKeepsPromises`), and its own types.

`AdaraRtosProofs` proves `TypeOK` and `StopsOnlyItsOwn` for any objects, control blocks and number of starts. `RInv` has
a part for each thing the code relies on. These hold always: `MadeInv` and `CallInv` (nodes and calls are about objects of the
facade), `MutInv` (one call at a time is past `PendFromTask`, and the node it makes is the newest, has no handle and was not
freed), `FoundInv` (what a stop found is its object's), `OneCallInv` (two calls about one object upset it) and `BookInv` (the handle
of a settled node means a task of its object, and no two settled nodes share one). The others hold in `Calm`, while
nothing is upset and no calls met in the list: `NodeInv` (a task that runs has its node), `ObjectInv` (an object has one node,
from its start to the end of its stop), `LinksInv` and `WalkInv` (there is one stop, on a node that exists, with its target ahead).
`LinksInv` is what the steps of `push_back` and `erase` need: forwards the links lead through the nodes in the order in
which they were made, less the one that is not yet linked or no longer (`Ahead`); backwards through another set (`Back`), because the
two directions change at different steps; and what a call has read of the links is still so when it writes. The lemma
`NoFault` takes from these that in `Calm` no step uses anything freed; that is the half of `StopsOnlyItsOwn` about
`fault`, while the half about `mistaken` follows from `FoundInv` and `BookInv` with or without a meeting.

The proofs use only the modules' named assumptions: sizes are natural numbers, a burst is longer than the
latency bound, a transmit ring has two descriptors, tables are as `TablesAssumption` says (see `CanSlave` above), the values that stand for "none" are none of the others.

Only model-checked, because the provers do not reach it: liveness and fairness (`EveryRollIsMeasured`, `Connects`, `HandlerReturns`,
`ReaderIsServed` and their like), and with them the fairness of `AcquisitionCycle`, which `ImplementsCycle` checks together with the
safety that is proved.

## Not modelled

- `FlowController`: nothing instantiates it, so there is no consumer and no promise to check it against.
- The numeric contents of the calculation: floating point.
- CAN bit timing, filters and bus errors. Automatic bus-off management is off and nothing leaves bus-off (listed as a
  hazard): the model would have one step after which nothing happens.
- `CircularBufferRx` has one reader. The comment at `FreeRTOS_stm32f4_uart.c:265-270` about several is not examined.
- Allocation failures when a driver is configured; character queues, driver table, PHY and switch drivers, the link timer,
  start-up: each is a sequence of register accesses or calls by one caller, without another actor.
- What the facade hands out besides tasks: `Reset`, `Set`, the interrupt variants and the semaphores' factory, which
  nothing calls, and `TaskSleepUntil`, which is empty.
- Vendored code (FreeRTOS, lwIP, pugixml, SEGGER RTT, CMSIS, the ST libraries): by far most of the lines of the
  repository. Its primitives appear as the modules use them; where the first-party code relies on what a
  vendored function does step by step (the descriptor handling of `stm32f4xx_eth.c`, `vTaskDelete`), that function is modelled.
  `std::list` comes with the compiler; the steps of its `push_back` and `erase` are modelled from the library's usual order.
