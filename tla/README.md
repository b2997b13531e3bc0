# A verification of the crane controller's Modbus TCP slave

The firmware is an STM32H7 board with Ethernet, lwIP, FreeRTOS and a QSPI flash. Its
application is a Modbus TCP slave: clients read and write registers, and every write is
saved to a file of a littlefs volume. This directory models that application, the
Ethernet interface under it, and the serial-port buffers beside it, in TLA+, checks the
models with TLC and proves the safety properties with TLAPS.

`PROJECT.json` lists the components, the runs, the source lines each definition stands
for, the hazards and the theorems.

## 1. Inventory

Paths are relative to `src/`. The first six rows are the program's
own logic; they and the Ethernet interface run in every build. The others are libraries,
drivers or helpers.

| Component | State | Operations | Hard behaviours |
|---|---|---|---|
| **Register database** `Com/modbus_tcp_server/modbus_tcp_server_interface.c`, `..._database.c` | the arrays of coils, holding and input registers; a recursive mutex; the flag `enable_flash_save_cb` | setters and getters by address; boot: mount, load or default, enable saving | the save hook runs after the mutex is released; 100 ticks of timeout inside multi-register writes |
| **Flash image** `Com/modbus_tcp_server/board_flash_system.c` | one file, `modbus_regs.bin`; the mounted volume | mount (format on any error), load, save (open/truncate, write, write, close) | several saves at once, resets between any two steps, failing calls |
| **Server and workers** `Com/modbus_tcp_server/modbus_tcp_server_task.c` | `active_clients`, sockets | accept, refuse, spawn; a worker's loop, close, decrement | a counter shared without a lock, hand-over of a descriptor between tasks, failing `accept` and `osThreadNew`, lwIP pools that run dry |
| **Frame extraction** same file, `process_accumulated_frames` and the receive loop | the 260-byte accumulator | receive, parse, handle, send, shift | requests cut and glued by TCP, 16-bit length arithmetic, a full buffer, a `send` without a timeout |
| **Function handlers** `..._protocol.c` | none of their own | seven function codes, exceptions | field checks; a write that fails half-way |
| **Default task** `Core/Src/freertos.c` | a count | boots the database, then writes holding register 1 every second | it is one more writer beside the clients |
| **Ethernet, transmit** `LWIP/Target/ethernetif.c`, the HAL's Ethernet driver | the transmit ring (OWN bits, packets, two indices, a count), a semaphore, `ErrorCode`; the link thread's locals | `low_level_output`, release of sent packets, link polling, stop and start of the MAC | a full ring, a link that goes while it is full, results that nobody looks at, lwIP's core lock held while waiting |
| **Ethernet, receive** same files | the receive ring, the zero-copy pool, the flag `RxAllocStatus`, a semaphore | the input task, buffer callbacks, `pbuf_free_custom` in any task, restart of the MAC | pool exhaustion across tasks of different priorities, restarts with frames unread |
| **lwrb** `Com/lwrb.c` | two indices and the bytes | write, read, peek, skip, advance, linear blocks, reset | one writer and one reader without a lock |
| **UART manager, FIFO** `Com/uart_manage`, `Com/fifo.c` | send buffer, FIFO, `is_sending` | send, transmit-complete hook, receive hooks | interrupts of different priorities, a UART shared with printf |
| Modbus library `Com/MODBUS-LIB/Modbus.c` | handlers, queue, timers | master and slave tasks | notifications, timers and queue limits |
| littlefs, lwIP, FreeRTOS, HAL, drivers | | | vendored or generated |

How they interact: the default task boots the database (`modbus_tcp_init_server` calls
`mb_init_reg`) and only then creates the server task. The server creates a worker per
accepted connection and hands it the descriptor. A worker receives bytes, cuts them into
frames and calls the handlers, which call the setters. The setters store under the mutex,
release it, and call the save hook, which writes both arrays to the flash. The default
task calls a setter every second. These tasks all have priority osPriorityNormal, and the
scheduler may switch between any two instructions.

What makes each part correct:

- database and image: what was saved survives resets and failures and is what the next
  boot serves; answers tell the truth; nobody waits for the mutex during a flash operation;
- server: no descriptor or netconn leaks or is used by two tasks; the counter counts;
  clients that connect are dealt with; workers end;
- frames: each request handled once, whole and in order, however TCP cuts the stream;
- Ethernet: no pbuf or receive buffer leaks, is freed twice or is freed under the DMA; the
  rings stay queues; sending comes back, reception goes on, and the link thread keeps
  lwIP, the driver and the PHY in step;
- lwrb and the UART manager: bytes come out in the order they went in, none lost.

Below lwIP, `tcpip_thread` and every task that sends call `low_level_output` under the
core lock, which the link thread also takes to poll the PHY. The EthIf task reads frames
when an interrupt signals it, and hands them to `tcpip_thread` by a mailbox; whichever
task frees a received pbuf last runs `pbuf_free_custom`.

The Modbus library, the UART manager, the FIFO and lwrb are compiled but no task of
this build starts them. The models take the UART manager as its own port file
(`uart_manage_port.c`) sets it up.

## 2. Modules

| Module | Role |
|---|---|
| `RegisterStore` | setters, mutex, save hook, boot, file, resets |
| `MCRegisterStore` | its instance for TLC (the requests, the symmetry) |
| `RegisterStoreProofs` | inductive invariant and theorems |
| `ModbusTcpServer` | server task, workers, accept mailbox, netconn pool |
| `ModbusTcpServerProofs` | inductive invariant and theorems |
| `OrderedService` | abstract: requests handled in order, once |
| `FrameStream` | the accumulator and its loop; refines `OrderedService` |
| `FrameStreamProofs` | inductive invariant, theorems, the refinement |
| `DescriptorRing` | positions on a ring of DMA descriptors; shared by the next two |
| `DescriptorRingProofs` | lemmas on distances along the ring |
| `EthTx` | `low_level_output`, the transmit ring, the link thread, the PHY |
| `EthTxProofs` | invariants of ring, references and link |
| `EthRx` | the receive ring, the buffer pool and its flag, stop and start of the MAC |
| `EthRxProofs` | invariants of buffers, flag and order |
| `BoundedQueue` | abstract: a first-in first-out queue of bounded length |
| `Lwrb` | the ring buffer, a writer and a reader; refines `BoundedQueue` |
| `LwrbProofs` | inductive invariant, theorems, the refinement |
| `UartSend` | sends, transmit-complete hook, FIFO, printf on the same UART |
| `UartSendProofs` | inductive invariant and theorems |

Definitions whose comment begins with "Variant:" are plausible slips of the definition
that follows; no specification uses them. `PROJECT.json` pairs each checked property with
a variant that breaks it.

### RegisterStore

A register's value is the number of times it was written since it was zero, so "newer"
is ">". `pc` follows each task through a request: `lock`, `set` (mutex held), `open`,
`opening` (inside `lfs_file_open`), `copy` (the two writes), `closing` (inside
`lfs_file_close`). The default task starts in `fs_mount_medium`, then
`fs_load_modbus_reg`, then possibly a save, then `enable`; the workers exist once the
server starts.

- `lfs_file_open` and `lfs_file_close` read and change the shared `lfs_t`, so each is a
  call and a return with other tasks in between. The writes only fill the handle's cache:
  the file is 120 bytes, less than `inline_max` and the 256-byte cache.
- The close is the commit. An open with `LFS_O_TRUNC` leaves the old contents on the
  flash until then; an open that creates the file commits an empty one.
- littlefs is built without locks. When two calls overlap, `fsRace` becomes TRUE, the
  file is `garbled`, and a later load finds arbitrary values: that behaviour is
  undefined and the durability properties do not speak of it. They do speak of saves
  that interleave without overlapping inside littlefs.
- `Restart` may happen at any step and clears everything but the flash.
- A mount error of any kind formats the volume (`MountFormats`); a failing load zeroes
  the registers and saves them (`LoadFails`). Both reset what may be expected of the
  flash (`durable`).
- `AcquireTimeout` needs an owner other than the task itself: an uncontended mutex is
  obtained at once.

`durable` is a history variable: the newest values committed by a save during which no
other save was under way. `wrote`, `io_err` and `overlapped` are also history.

### ModbusTcpServer

A connection goes `none`, `queued` (in the accept mailbox, holding a netconn), `open`,
`closed`. The `++` and `--` of `active_clients` are a load into a register (`sreg`,
`wreg`) and a store, with other tasks in between; `lost` records that a store has
overwritten someone's update. `Connect` is lwIP's `accept_function`: it queues the
connection, drops it when the mailbox is full, or posts an error when the stack is out
of pcbs or netconns. `AcceptAborted` is the failure of `netconn_peer` on a client that
has gone while queued. `osThreadNew` may fail at any time (`SpawnFails`).

### FrameStream

Bytes carry the request they belong to and their offset, so that a wrong cut is visible;
the only value the code looks at is the Length field. An offset that is no Length field
reads as 0. A request with an impossible Length is a header alone: the worker closes the
connection when it sees it. `pdu_len`, `frame_len`, the checks and the wrap at 16 bits
are the code's; `Recv` takes any number of bytes up to the free space.

`HandleFrame` is the call of `modbus_protocol_handle`; the `send` of its answer is a step
of its own. The code sets no `SO_SNDTIMEO` and lwIP is built without it, so `send` comes
back when the connection takes the answer (`SendReturns`) or is lost (`SendFails`), and
otherwise never. The connection holds `SndBuf` answers the client has not read
(`answers`); `ClientReads` takes one, whenever the client likes.

### EthTx

`own`, `PacketAddress`, `CurTxDesc`, `releaseIndex` and `BuffersInUse` are the HAL's; `dma`
is the descriptor the hardware comes to next. A caller of `low_level_output` holds the
core lock (`lock`) from `Begin` to `Return`; it is the stack (`TcpOutput`, `ArpReply`) or
the link thread (`LinkReports`, the gratuitous ARP of `netif_set_link_up`). Each turn of
its loop is an action: `TransmitOk`, `TransmitBusy`, `TransmitError` (the MAC is not
started; what happens then depends on whether `HAL_ETH_ERROR_BUSY` is still set in
`ErrorCode`), and `Release`, which is the end of the wait, with or without the token,
followed by `HAL_ETH_ReleaseTxPacket`.

The link thread polls under the lock. `LinkComesUp` keeps two facts of the code:
`linkchanged` is never reset, and the results of `HAL_ETH_SetMACConfig` and
`HAL_ETH_Start_IT` are not looked at. A fatal bus error leaves the driver in a state that
both refuse. The PHY may lose the link and negotiate again between two polls.

An ARP request taken in before the link went may be answered after: `etharp_input`
replies on the interface of the request without asking whether it is up, so
`low_level_output` can run while the MAC is stopped.

### EthRx

Tasks have priorities here: EthIf (real time), the tasks that free pbufs, the link thread
(below normal). `MayRun(t)` says that those above `t` wait; the one exception is the
pool's mutex (`FreeBuffer`). `HAL_ETH_ReadData` is `ReadFrame` or `ReadNothing` and then
`ETH_UpdateDescriptor`, one descriptor per step (`Rebuild`, `Allocate`, `AllocateFails`
with `Mark`), which the link thread runs too, in `HAL_ETH_Start_IT`. In
`pbuf_free_custom` the return of the buffer, the test of the flag, its reset and the
signal are four steps.

Two behaviours came out of the model and shape its properties.

- `HAL_ETH_Start_IT` sets the number of descriptors to build to all, whatever the ring
  holds, and resets no index. When the MAC was stopped with frames unread, or with
  descriptors that could not be refilled, the ring is skewed from then on: frames out of
  order, or a descriptor read a second time, whose pointer is NULL and whose read ends
  in the hard fault handler (`ReadNull`). `skew` records such a start.
- When the link thread's allocation fails in `HAL_ETH_Start_IT`, tasks above it may free
  the last buffers before it sets the flag. Nothing signals then, and EthIf reads nothing
  while the flag stays set. `lostWake` records it.

### Lwrb

The writer and the reader each load the other's index once per call and work on it
while the other moves on; each load, each byte and each store is a step of its own, so
each may be interrupted anywhere. A side's own index is read together with the load,
since nobody else stores it. The writer is `uart_manage_write_to_recv_ring` followed by
`lwrb_write_ex`, or hardware that is given a linear block and `lwrb_advance`; the reader
uses read, peek, skip, or a linear block followed by skip. `lwrb_reset` is called with
both at rest, as its comment asks.

`BoundedQueue` has the bytes a writer comes with (`asked`) beside the queue: `Put` adds
exactly those, in one step. In `Lwrb` they are `accepted`: what the writer has granted its
caller, first to be copied, then partly stored behind `w_ptr` and partly still to be
copied. So the refinement also says that the bytes stored are the bytes given, and that
the reader sees none of them before all are stored.

### UartSend

The hook of a finished transfer runs in the UART's interrupt (priority 5). A receive
event comes from the DMA's interrupt (priority 0) when the buffer is full, and then
preempts the hook, or from the UART's own at an idle line, and then does not: that is the
first conjunct of `Echo`. The hook is three steps: its look at the queue, and then either
the clearing of `is_sending` or the next transfer. `fifo_s_puts` and `fifo_s_gets` mask
interrupts and are one step each. `PrintfSends` is `HAL_UART_Transmit` in a task, whose test of
`gState` and setting of it an interrupt may separate.

The result of `HAL_UART_Transmit_DMA` is not looked at, so the answer of a send is that of
its queued part (`AnswersOk`) alone. `silent` records a send that has answered 0 with a
byte that is neither being sent (`DirectTaken`, which is nothing if the transfer is
refused) nor queued.

Bytes are numbered in the order they are accepted. `raced` records a send that queued
bytes in the hook's gap (they wait for the next send, which overtakes them); `refused`
records a transfer that `HAL_UART_Transmit_DMA` refused because a task was printing
(`is_sending` then stays set and nothing is sent again).

## 3. Runs

| Run | Instance | Shows |
|---|---|---|
| `register_store` | two workers and the default task; one coil, two holding registers; single and double writes; 3 requests, 2 boots | the six properties of section 4 |
| `lost_save` | one worker | **violated**: after two interleaved saves the file is older than the registers |
| `tcp_server` | 4 connections, limit 2, pool 3, mailbox 2 | pool, ownership, counter, progress |
| `counter_wrap` | the same | **violated**: `active_clients` leaves its range |
| `idle_client` | two connections | **violated**: a silent client keeps its worker for ever |
| `client_room` | the code's constants: limit 4, pool 4, mailbox 6 | **violated**: the pool is empty with three clients |
| `frame_stream` | header 2, least Length 1, buffer 6, words of 8; Lengths 0, 1, 4, 5, 7; 5 requests; 2 unread answers fill the connection | frames, refinement, progress |
| `eth_tx` | 2 descriptors, 3 packets, 2 modes, fatal errors | references, ring, link, progress |
| `eth_tx_link_down` | the same, one mode, no fatal errors | **violated**: a send while the MAC is stopped never returns and keeps the core lock |
| `eth_rx` | 2 descriptors, 3 buffers, 2 tasks that free | buffers, order, exhaustion, progress |
| `recv_ring` | 4 bytes of 2 values, all requests of up to 4 bytes | separation of the sides, refinement |
| `uart_send` | receive buffer 3, send buffer 2, FIFO 3, counts modulo 2, 6 byte numbers | order, answers, refusals, progress |

The five violated properties are what a comment or a message of the code says; the
findings in `PROJECT.json` quote them.

Why these bounds suffice to be interesting: with three tasks two saves can interleave
while a third task holds the mutex, and three requests let a save of older values finish
after a newer one and a further one start. Two boots are what a reset needs. One coil
and two holding registers tell the two writes of a save, and the parts of a multi-register
write, apart. In `tcp_server` the pool and the mailbox both run full and the limit is
reached, so every branch of `Connect` and of the server is taken (each action fires).
In `frame_stream` the buffer holds several short frames or one of the longest; the
Lengths cover good (1 and the longest, 4), too short (0), too long (5) and one whose
16-bit sum with the header wraps to a plausible frame (7). Two answers fill the
connection, so a client that sends five requests and does not read blocks the worker.

In `eth_tx` three packets fill a ring of two and leave one to wait; the ring wraps, and a
loss of link, a fatal error or a renegotiation may come at any step. In `eth_rx` three
buffers over two descriptors let the pool run dry with one buffer in lwIP's hands; two
tasks may free at once; stops and starts come at every step the priorities allow. In
`recv_ring` every pair of positions of the two sides occurs, both sides wrap, and the
ring runs full and empty. In `uart_send` a send of three is split between transfer and
queue, the queue overflows, and a count modulo 2 wraps where the code's wraps at 256 (the
buffers are 256 bytes long). These four models have no bounds in their guards: their
state spaces are finite (`Numbers` numbers the bytes of `UartSend` modulo more than it can
hold at once).

Bounds: `MaxRequests`, `MaxBoots` (RegisterStore), `Conns` (each used once) and `Word`
(ModbusTcpServer), `MaxFrames` and `SndBuf` (FrameStream; `SndBuf` stands for the send
buffer and the window of a connection). `Quiet` is the stuttering of a system in
which nothing is left to do within the bounds; every other deadlock would be reported.

Fairness: `WF(Server)` and `WF(WorkerEnd(c))` in ModbusTcpServer, `WF(Worker)` in
FrameStream. The tasks have equal priority and FreeRTOS slices time among them
(`configUSE_TIME_SLICING` is on by default), so a task that can run does run. No fairness
is assumed of clients: they may stay silent, stop reading or vanish. A worker in `send`
can run only while the connection has room, so a client that goes on sending and never
reads holds it there, with complete requests unhandled and the connection up.
`RequestsServed` therefore has the opposite as its hypothesis: again and again the
connection has room for an answer (`[]<>(answers < SndBuf)`). `IdleIsFreed` fails because
the code has nothing that ends the wait, not for lack of fairness. RegisterStore states no
fairness and no liveness.

In `EthTx`: the DMA sends what it owns while the MAC runs, interrupts are served, the
caller of `low_level_output` goes on (its wait ends with the token or after
`ETHIF_TX_TIMEOUT`), and so does the link thread. `OutputReturns` fails although all of
that is granted. In `EthRx`: EthIf has the highest priority, interrupts are served, the
DMA looks at its descriptors, and lwIP and the application go on freeing what they
hold; nothing is assumed of the link thread or of frames that arrive. In `UartSend`: the
DMA and the hook go on; nothing is assumed of sends or of printf, but `GapHeals` has as
its hypothesis that sends go on and that none is refused. `LinkRecovers` has as its
hypothesis that sends come back, because `OutputReturns` shows that one may not.
`Lwrb` states none.

## 4. Properties

RegisterStore
- `DurableKept`: what a lone save has committed is never replaced by something older.
  It has to survive later saves that overlap one another: each copies the registers after
  the earlier commit, so each copy is at least as new.
- `ServedNotOlderThanDurable`: after a successful boot, the registers are not older than
  that.
- `LockFreeDuringSave`: the mutex is held exactly between acquire and release.
- `ReplyMatchesEffect`: an ok stored all registers of the request, a device failure
  exactly those before the one that failed.
- `BootKeepsReadableFile`: until saving is enabled, only a format or the save after a
  failed load changes the file.
- `FileCurrentWhenQuiet` (violated): when all tasks rest the file holds the registers.

ModbusTcpServer
- `OneOwner`: an open descriptor has exactly one task in charge of it, a closed one none.
- `PoolExact`: the netconns in use are the listener's, the queued and the open ones; with
  `OneOwner`, nothing leaks and nothing is given back twice.
- `CounterExact`: the counter is right unless a store overwrote another's update; the
  hypothesis is needed, see `CounterBounded` (violated).
- `QueuedIsTaken`, `StoppedIsFreed`: progress of the server and of ended workers.
- `IdleIsFreed`, `RoomForMaxClients` (violated).

FrameStream
- `AlwaysRoom`: the overflow branch of the worker is never taken.
- `RequestsExact`, `NoFrameWaits`: safety of the extraction.
- `ServiceSpec`: refinement of `OrderedService`.
- `RequestsServed`: a sent request is handled unless the connection ends, if the client
  does not stop reading its answers for good.

EthTx
- `ReferencesExact`, `NoEarlyFree`: the driver holds exactly one reference to each packet
  in the ring or in a caller's hands, and what the DMA may read has one.
- `RingIsQueue`: from `releaseIndex` to `CurTxDesc` lie the packets not given back, first
  those sent, then those to send, with the DMA's position between them.
- `MacFollowsPhy`: the MAC runs in the PHY's mode; the antecedents name what the link
  thread cannot see or repair (a fatal error; a mode the PHY did not name; a link that came
  and went between polls). `UpMeansStarted` (proved, in no run): the interface is up
  exactly when the MAC runs, but for a fatal error.
- `LinkRecovers`: whatever the link thread has missed (a mode the PHY did not name, a
  change between polls), it sets right at the next loss of link it sees: an interface that
  is down comes up, on a running MAC in the PHY's mode, if sends come back, the PHY keeps
  its mode and no fatal error occurs.
- `OutputEnds`: a send comes back while the MAC runs. `OutputReturns` (violated): a send
  comes back.

EthRx
- `BuffersOnce`: pool, ring, EthIf and lwIP share out the buffers, restarts included.
- `InOrder`: until a skewed start, frames are read in order. `NoFault` (proved, in no
  run): and no descriptor is read twice.
- `ExhaustionSignalled`: a set flag has a buffer out, or a task that has yet to look at it.
  It rests on the priorities: with free interleaving it fails.
- `Refilled`, `FramesRead`: reception goes on after exhaustion, and no frame is left in
  the ring.

Lwrb
- `Apart`: the writer stores outside, and the reader copies inside, the readable bytes.
- `RingSpec`: refinement of `BoundedQueue`: a write adds the bytes it has accepted, all of
  them, in order and not before it is done; reads return the bytes in the queue in order.

UartSend
- `SentInOrder`: order of the bytes, up to the first `raced` or `refused`. `NoneStranded`
  (proved, in no run; `Drains` is checked in its place): a server for the queued ones.
- `ZeroMeansAll`: until a transfer has been refused, an answer of 0 means that each byte is
  being sent or queued. The send whose transfer is refused answers 0 for lost bytes.
- `Drains`: each queued byte is sent, up to the first `raced` or `refused`.
- `GapHeals`: bytes left in the hook's gap are sent too, if sends go on and none is refused.
- `RefusedWhilePrinting`: a transfer is refused only while a task is in
  `HAL_UART_Transmit`; the event's and the hook's transfers never meet.

Some cases no property covers, because the code does not exclude them and nothing in it
sets them right. They are in the models, recorded by a variable that the properties exempt,
and are listed as hazards with that note: the flag of the exhausted pool set after the
last buffer has come back (`lostWake`; `ReceptionEnds` proves that reception is over), a
driver that refuses to start the MAC (`gState` is `"ERROR"`), the order of frames after a
start that finds frames unread or descriptors unarmed (`skew`), and what follows a refused
transfer (`refused`; `StuckForEver` proves that nothing more is sent).

## 5. Proofs

All safety properties that the passing runs check are proved, for every value of the
constants that satisfies the assumption of the module (`StoreAssumption`,
`ServerAssumption`, `StreamAssumption`, `RingAssumption`, `TxAssumption`,
`RxAssumption`, `LwrbAssumption`, `UartAssumption`), and so are the two refinements.

- `RegisterStoreProofs`. `StoreInv` is `TypeOK /\ LockInv /\ DataInv`. `LockInv` ties the
  mutex to `pc`. `DataInv` is what makes `DurableKept` inductive, while no littlefs
  calls have overlapped: every register is at least as new as `durable` once the load is
  over, so is every value already copied into the cache of a save under way (`SaveInv`)
  and the file (`DiskInv`), and a save that is not in `overlapped` is the only one under
  way (`AloneInv`). The argument is that `durable` moves only when a lone save commits,
  at which time no other copy exists that could be older. `AnswerInv` and
  `FirstSaveInv` are the separate, smaller invariants behind `ReplyMatchesEffect` and
  `BootKeepsReadableFile`.
  `SerialSavesStayCurrent` says what the violated `FileCurrentWhenQuiet` lacks: in every
  execution in which no two saves are inside littlefs at once (`OneSaveAtATime`, what a
  lock held across the save would give) it holds. `SerialInv` is its invariant: the present
  value of each register is in the file, or a save under way has copied it or will.
- `ModbusTcpServerProofs`. `OwnerInv` alone is inductive and gives `OneOwner`: it says
  which control points of the server and the workers go with which state of a connection.
  `PoolExact` and `CounterExact` need cardinalities of sets that gain or lose one element
  per step (`FiniteSetTheorems`), and that each queued connection is once in the mailbox.
  `LimitIsKept` is what the counter is for: without a lost update no more than
  `MaxClients` connections are served, although the test and the increment are three steps
  (`PlaceInv`: an admitted client keeps its place, because others only leave).
  `SerialUpdatesKeepLimit` names the cause of `CounterBounded`'s violation, as above:
  two tasks between load and store at once. `ShutForEver` is what it can lead to: a counter
  that lost decrements have left at the limit refuses every client from then on.
  `PoolIsTheLimit` and `RefusedWithRoom` are about the code's constants (a pool of 4, a limit
  of 4): the pool runs out before the limit is reached, so the limit only ever refuses
  clients on account of connections that are closed already.
- `FrameStreamProofs`. `LengthCheckExact` shows that the wrapping length check accepts
  exactly the good lengths, from `Cap < Word16`. `Chain` describes a sequence of bytes
  as whole requests end to end, by the relation between neighbours only, so that no
  recursion is needed; the accumulator from `pos` on, followed by the unread bytes, is
  such a chain beginning with the next request. Its lemmas say what appending a request
  and removing the first one do. While the worker is in `send` the request it answers is
  still at `pos` though it is counted as handled (`SendInv`), and the chain begins behind
  it, at `done`. `ImplementsService` maps each step to a step of
  `OrderedService` or to a stutter.

- `DescriptorRingProofs` has the arithmetic of positions once, as distances: what `Next_`
  and `At` do to the distance from a fixed descriptor.
- `EthTxProofs`. `RingInv` is `RingIsQueue` said by distances: for some number s of
  packets sent and not given back, the OWN bits are those at distances from s to
  `BuffersInUse`. Each step keeps s or moves it by one, and `Release` gives back a part of
  the first s. `ReferencesExact` and `NoEarlyFree` are inductive with it (a freed packet
  must not be in the rest of the ring). `LinkInv` ties `netif_up`, `gState`, `mac` and the
  thread's locals.
  `SentInCallOrder` and `GivenBackInOrder` read the ring as two sequences, the packets not
  given back (`InDriver`) and the part of them still to send (`ToSend`), and say what each
  step does to them: a call appends, the DMA takes the head, a release drops those sent.
  `OutputCanGoOn` is the safety core of `OutputEnds`, and `WedgedForEver` the reason why
  `OutputReturns` fails: the one state from which there is no way on is kept by every step.
- `EthRxProofs`. `Control` says where each task may be and what it knows there; in
  particular a failed allocation of EthIf still finds the pool empty when it sets the flag,
  because nothing below it runs. With it `BuffersOnce` and `ExhaustionSignalled` are
  inductive as they stand.
  `OrderInv` is `InOrder` said by distances, carried through the steps of
  `ETH_UpdateDescriptor` and through a start of the MAC that finds nothing to skew.
  `WakeupsAreKept` is the safety core of `FramesRead` and `Refilled`: what is due to EthIf
  is never left without an interrupt, a token, the flag or EthIf itself. It is proved from
  `AttendInv`, which says so at each place of the pass (having read nothing, EthIf has seen
  every frame), and `FirstInv` (the first start finds all buffers in the pool, so it cannot
  leave the ring empty without the flag). It holds even when `lostWake` is set: then the flag
  itself is what stands, and `ReceptionEnds` shows that it stands for ever (`Dead`, which
  implies `lostWake`).
- `LwrbProofs`. `Bounds` says that what a side has still to do fits the part that was its
  own when it loaded the other's index; the other can only have enlarged it since.
  `Contents` says that the bytes a reader has copied are those the queue still begins
  with. `RingIsAQueue` maps the beginning of a call and each store of an index to a step of
  `BoundedQueue`, everything else to a stutter: `ByteKeepsAccepted` shows that a byte copied
  moves from the bytes to come to the bytes stored, and `WriteIsPut` that the latter are
  what the store of `w_ptr` adds. `WritesAreWhole` shows that the second limit, in `lwrb_write_ex`,
  never cuts what the first one let pass, so the manager's -1 cannot occur.
  `BlocksAreLinear` and `IndicesFollow` are what a DMA needs that fills or sends a linear
  block: it does not wrap, and `lwrb_advance` and `lwrb_skip` move the index by all of it.
- `UartSendProofs`. `Control` says that a transfer and the hook exclude one another and
  that `is_sending` covers both, up to the recorded races. `Order` says byte by byte what
  `SentInOrder` says of sequences, because numbers wrap at most once along them.
  `RefusalNeedsPrinting` rests on `BusyInv`: the UART is busy only with a transfer that
  `is_sending` covers, or with a task's print. Hence `OnlyPrintingRefuses`, which discharges
  half of the hypotheses of these properties, and `ZeroIsTrueUnlessPrinting`: while no task
  prints, no answer of 0 is false. `StuckForEver` is the other side: after a refusal that
  leaves `is_sending` set and no transfer, nothing is sent again.

Some theorems are conditional or about states that a hypothesis excludes elsewhere, and their
hypotheses do occur: `OneSaveAtATime`, `OneUpdateAtATime` and `NobodyPrints` hold throughout
the many executions without such an overlap, and TLC reaches a state of `Shut`, `Wedged`,
`Dead` and `Stuck` on the instances of section 3.

Only model-checked: the liveness properties `QueuedIsTaken`, `StoppedIsFreed`,
`RequestsServed`, `OutputEnds`, `LinkRecovers`, `Refilled`, `FramesRead`, `Drains` and
`GapHeals` (fairness is out of this prover's reach), and the violated ones.

## 6. Not modelled

- The getters and the input registers: they neither change the other state nor outlast
  the mutex. `fs_init_modbus_reg`, `fs_recreate_modbus_reg`, `fs_write_modbus_reg`:
  nothing calls them.
- The field checks of the handlers, the read handlers, requests shorter than their
  function needs: pure functions of one request, which share no state with anything else.
- Failure of `osMutexNew`, `socket`, `bind` or `listen` at boot; the wait for the link.
- What littlefs does when calls overlap; wear, bad blocks, the QSPI driver.
- Values of registers beyond "newer"; a write of an equal value counts as newer.
- Ethernet: frames of several descriptors, the fields of a descriptor beyond OWN and
  address, MDIO and the set-up of the MAC; the receive tail pointer is a flag (a write of
  it makes a suspended DMA look again); the wait for the pool's mutex is only that EthIf
  does not pass a task that is returning a buffer.
- UART: interfaces other than the one of `uart_manage_port.c`, reception after the ring
  (nobody reads it), errors of the line; the FIFO calls that do not mask interrupts.
- lwrb: `lwrb_overwrite` and `lwrb_move` (one side changes both indices; unused),
  `lwrb_find`, the event callback.
- The Modbus library: no task of this build starts it, so nothing drives its queue,
  notifications and timers.
- FrameStream: how many bytes an answer has; a connection holds a number of answers.
- The repository has 359 thousand lines, of which the application is a small part.
  The rest is vendored or generated (CMSIS and HAL headers, HAL drivers of peripherals
  the program does not use, FreeRTOS, lwIP, littlefs); the models use what the
  application relies on of it, so the share of all lines that is mapped stays small.
- The components marked `not_modelled` in `PROJECT.json`, with the reason there.

## 7. Plan

Done: all modules of section 2, the proofs of the safety properties and refinements, the
safety cores of the progress properties, and the causes and consequences of the findings.
What would add most next:

1. The composition of `EthRx` and `EthTx` with one link thread, so that a stop finds both
   rings in related states.
2. `ModbusMaster`: queue, notifications and the two timers of the library, once a build
   starts it.
3. `ModbusProtocol`: the field checks and answers of the seven functions as operators,
   against a reference written from the field widths.
