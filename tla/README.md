# Verification of the nx_nic driver in TLA+

This project models the Linux driver for NetXen multi-port 1/10-gigabit network cards
(`src/driver`, `src/include`) in TLA+, checks the models with TLC on small instances, and
proves their central invariants with TLAPS for every value of the constants. The models
are of the Linux build with `NEW_NAPI` and without any of the `ESX` macros, except that
`Contexts` follows the `ESX_3X` build, the only one in which a reset creates the net queues
again.

All line numbers are of `src/driver/unm_nic_main.c` unless another file is named.

1. Components of the system
2. Modules
3. The transmit side
4. The receive buffers
5. Recovery of the card
6. Mailbox and contexts
7. Access to the card
8. Bringing the firmware up
9. From probe to remove, and nx_xport
10. Messages, answers, flows and PexQ
11. Interrupts
12. Filters, ports and the self test
13. Runs
14. Fairness
15. Proofs
16. Where the code departs from what it says
17. Not modelled
18. Plan

## 1. Components of the system

**Transmit path and command ring** (modelled: `TxRing`). State: the ring of command
descriptors in host memory with its producer index (host), consumer index (written by the
card) and the host's copy of it; a buffer per descriptor, with the skb; `tx_lock` and the
try-lock `tx_cpu_excl`; the queue of commands waiting for room (`pending_cmds`: a list of
full blocks, a current block, free blocks, a counter); the flags of the network device.
Operations: `unm_nic_xmit_frame`, `nx_nic_send_cmd_descs` (called for every request to the
firmware: filters, statistics, LRO, link, coalescing), `unm_process_cmd_ring` (reaper) and
`unm_proc_pending_cmd_desc` (drain), both called by the poll `nx_nic_poll_sts`,
`unm_tx_timeout` and its work item, link events, open and close. Hard: the reaper runs
without `tx_lock`; the two ways into the ring; the queue that is stopped on a stale check;
a poll that is the only one to move waiting commands. Correct when: nothing overruns the
ring, no packet is freed under the card or twice, commands keep their order and none is
lost, a stopped queue restarts.

**Receive buffers and their posting** (modelled: `RxRing`). State: the rds ring, its
producer, the shared list of free buffers with its count, a list and count per status
ring, the flag `posting`, the counter `alloc_failures`. Operations:
`nx_post_rx_descriptors`, `nx_post_freed_rxbufs`, `unm_post_rx_buffers`,
`process_rxbuffer`, the three kinds of receive message. Hard: several polls feed one ring
with one lock around part of the work; allocations fail anywhere. Correct when: one thread
posts at a time, every buffer is in one place, the counts are those of the lists, no
buffer without an skb reaches the card, no buffer is forgotten.

**Firmware watchdog and reset; attach, detach, open, close** (modelled: `FwReset`).
State: the register `UNM_FW_RESET`, shared by all functions of the card; the counters of
the watchdog; the driver's work queue; per function `state`, `is_up`, NAPI, rings, timers
and the flags of the network device. Operations: `unm_watchdog_task_fw_reset` and the
functions it calls, `unm_tx_timeout_task`, the link watchdog, `unm_nic_open`,
`unm_nic_close`, the PCI error handlers. Hard: three threads take ports down and up under
different locks or none; flushes of a work queue; every step can fail. Correct when: one
thread recovers at a time, `napi_enable` and `napi_disable` alternate, recovered ports are
as their users left them, a hang is always answered.

**Status rings and message callbacks** (modelled: `StatusRing`, `Messages`). State:
descriptors with an owner field, a consumer index, the table of message handlers under
`cb_lock`. `unm_process_rcv_ring` (7862) reads descriptors the card gave to the host, a
message of several only when the last one is there, returns them and publishes the consumer.
Hard: partially visible messages, the wrap, a budget that ends between messages. Correct
when: every message is handled whole, once, in order.

**Interrupts and polling** (modelled: `Interrupts`; 6540-6950). State: per status ring the
mask of the card, per function a bit in the shared interrupt vector, on a P2 also one in the
word `CRB_INT_VECTOR`, NAPI's state. Operations: the handlers for legacy interrupts, MSI and
MSI-X, the completion of a poll, and whoever masks interrupts beside it: open, close,
`set_mac`, the timeout task. Hard: shared lines and words, completion before the interrupt is
enabled. Correct when: no message is left unread.

**Event wait** (modelled: `EventWait`; 813-960). `nx_os_event_wait_setup` takes a completion
id from a bit map and links a waiter, `nx_os_event_wait` polls it with a limit,
`nx_os_event_wakeup_on_response` finds the waiter by id. Hard: no lock protects map or list;
time-outs free an id whose answer is still to come; callers that fail to send leave their
entry behind. Correct when: a call gets its own answer, map and list agree with who waits.

**Card command mailbox** (modelled: `Mailbox`; `nxhal.c` 64-219). A hardware semaphore
(`api_lock`), a signature, three arguments and a command register, all shared by every
function of the card, and a poll for the answer. Hard: answers that come after the caller
has given up, results read after the semaphore is released. Correct when: the card takes a
command whole, a caller gets its own answer, the memory of an answer outlives it.

**Receive and transmit contexts** (modelled: `Contexts`; `nxhal.c` 296-1091, 3118-3477,
3921-4057, 4477-4882, 5946-5986). State: the table of receive contexts with a counter and a
bit map of the net queues' ids, the transmit context, the default contexts; what of it the
card has. Operations: create and destroy through the mailbox, attach and detach, net queues
of the kernel, re-creation after a reset. Hard: a chain of allocations and commands each of
which can fail, with partial undoing; table, counter, map and card are four accounts of one
thing. Correct when: they agree. `nxhal_v34.c` does the same for older firmware through
other registers.

**Large receive offload** (modelled: `Lro`, `Messages`; `unm_nic_lro.c`,
`nx_hash_table.c`, `nx_mem_pool.c`). A pool of entries and a table of flows with a lock per
bucket. A poll adds a flow and asks the firmware to offload it; the firmware's answers and
the end of a context remove flows. Hard: removal between insertion and a request that fails.
Correct when: pool, table and card are of one opinion.

**Filters, MTU and addresses** (modelled: `Filters`; 4060-4172, 5016-5163, 6470-6535,
9100-9230). The list of MAC addresses is compared with the kernel's and the differences sent
to the firmware; the mode, the MTU, IP addresses and receive rules are sent as they change.
Hard: requests that fail unseen; the list is rebuilt without a lock by three threads.
Correct when: the card does what the kernel wants, as far as it was told.

**PexQ** (modelled: `PexQ`; `nx_pexq.c`). A ring of messages for function drivers, announced
by doorbells and freed by an index the card copies to the host every few messages. Hard: a
request refused half way, several doorbells per request, the wrap. Correct when: messages
keep their order and a refused caller can succeed later. `DONT_USE_PEXQ` (9099-9104) compiles
its allocation and registration out at this commit, so that nothing calls it as built; the code
is kept for builds without that macro, and the model is of those.

**Register windows and memory access** (modelled: `CrbWindow`, `LegacyWindow`, `MemAgent`,
`CardAccess`, `XportAccess`; `unm_nic_hw.c`, `nx_xport/nx_hw.c`). Windows selected by a
register before an access, under `adapter_lock` and a semaphore of the card. Hard: set and use
are two steps; waits that give up. Correct when: an access meets what it is meant for.

**Flash and firmware load** (modelled: `FlashRom`, `FirmwareLoad`; `unm_nic_init.c`). A lock
for the flash, a choice between flash and file, the reset of the chip, the copy, the start.
Hard: most results are ignored. Correct when: the firmware that runs is the one to run.

**Probe, remove, suspend and resume** (modelled: `NicLifecycle`): what a function holds of
the kernel. Hard: about twenty acquisitions that may fail, a watchdog that visits all
functions of the card meanwhile. Correct when: all is given back, once. **The adapter table of
`nx_xport`** (modelled: `XportTable`): a table sorted while in use.

**Port and PHY control** (modelled: `PortControl`, `PhyTest`; `niu.c`, `xge_mdio.c`): the
registers of a P2's ports, shared between the ports, and the management bus, shared with a
processor of the card.

**Administration** (`unm_nic_ethtool.c`, `unm_nic_tool.c`, `unm_nic_procfs.c`,
`unm_nic_snmp.c`; modelled: the self tests and the calls that wait for the card), **ESX
integration** (`nx_nic_vmk.c`, `linux_module_heap.c`; not modelled).

How they interact: the kernel calls the transmit path, the poll, open, close, the timeout
and the PCI handlers. The poll of a status ring processes receive messages, whose handlers
complete waiters, change the carrier and remove LRO flows, then posts free buffers, reaps
the command ring and drains waiting commands. Requests to the firmware go as commands
through the command ring, or synchronously through the mailbox. The watchdog and the PCI
handlers tear all of this down and build it again.

## 2. Modules

| Module | What it is |
| --- | --- |
| `TxRing` | command ring, waiting commands, transmit path, reaper, drain, timeout; mapped to `CommandChannel` |
| `CommandChannel` | abstract: a FIFO channel of commands, messages accepted whole |
| `MCTxRing` | for TLC: behaviours end with a race; progress of commands |
| `TxRingProofs` | TLAPS: type, locks, indices, waiting commands, packets, the refinement of `CommandChannel` |
| `RxRing` | receive buffers, free lists, posting; mapped to `BufferPool` |
| `BufferPool` | abstract: buffers go round from free to posted to filled, the posted ones in a queue |
| `RxRingProofs` | TLAPS: type, one poster, counts, places of the buffers, the refinement of `BufferPool` |
| `FwReset` | watchdog, reset, PCI errors, open and close, on all ports of the card |
| `MCFwReset` | for TLC: bound on outside events, what holds while nothing fails |
| `Mailbox` | `issue_cmd`, its callers and the card |
| `MailboxProofs` | TLAPS: type, commands whole, answers sound; the contexts while nothing is passed over |
| `Contexts` | receive and transmit contexts, net queues; composes with `Mailbox` |
| `MCContexts` | for TLC: an attached interface, bounds, what holds while nothing is passed over |
| `CrbWindow` | registers of a card with a 2 MB map |
| `LegacyWindow` | registers and memory with a larger map |
| `MemAgent` | memory of a card with a 2 MB map |
| `CardAccess` | the three together, as the probe chooses among them |
| `CardAccessProofs` | TLAPS: the right register, the right half, memory as written |
| `XportAccess` | the same card in the hands of `nx_xport` |
| `MCCardAccess` | for TLC: threads and functions, symmetry |
| `FlashRom` | reading a word of the flash |
| `FirmwareLoad` | bringing the firmware up; extends `FlashRom` |
| `FirmwareProofs` | TLAPS: about `FwReset`: type, ownership of the recovery, NAPI and ports while nothing fails; about `FirmwareLoad`: reads of the flash, the right firmware |
| `NicLifecycle` | what a function holds, from probe to remove |
| `XportTable` | the table of adapters of `nx_xport` |
| `MCLifecycle` | for TLC: either driver |
| `LifecycleProofs` | TLAPS: all is given back, the watchdog, the recovery, the table |
| `StatusRing` | messages of the card to the host |
| `EventWait` | calls that wait for an answer |
| `Lro` | flows offloaded to the card |
| `Messages` | composes the three with the card |
| `PexQ` | messages of the function drivers |
| `MessagesProofs` | TLAPS: messages whole, waiters known, answers to their callers, flows in pool, table and card |
| `MCMessages` | for TLC: `Messages` or `PexQ`, bounds |
| `Interrupts` | from the card's interrupt to the poll and back |
| `MCReceive` | for TLC: progress of `Interrupts` and of `RxRing` |
| `Filters` | addresses, mode, MTU, rules of a P3 interface |
| `PortControl` | the ports of a P2 |
| `PhyTest` | the self test of a P2 |
| `MCPorts` | for TLC: the three and `RxRing`, one at a time |

Constants carry the names and meaning of the code's limits; `PROJECT.json` maps every
definition to the lines it stands for. Bodies named as mutants are not part of the
specifications: each is a plausible mistake in one definition, and the property named with
it in `PROJECT.json` fails when the mutant replaces the definition.

A step of a model is what a thread does between two points at which others can see or
change what it uses: a section under a lock is split where a thread that does not take that
lock looks in (the reaper sees a half-filled ring; the transmit path sees a ring being
reaped), and code that touches only its own data is joined to the step before.

## 3. The transmit side

*Threads.* The transmit path (one at a time, the kernel serialises a device queue),
`Senders` in `nx_nic_send_cmd_descs`, `Cpus` polling the status rings, the watchdog of the
kernel with the driver's work item. The card is the environment: `CardComplete` executes
published descriptors in order, writes the consumer index and raises an interrupt that
stays latched until a poll is scheduled for it.

*State.* `cmdProducer`, `lastCmdConsumer` and `cmdConsumer` are the code's. A descriptor is
its packet, the number of its command, `Cont`, or `Unused`; a packet's fragments, headers
and checksums are reduced to how many descriptors it needs (`FragDescs` and, for copied TSO
headers, `HeaderDescs`; the space check reserves two for these whether needed or not, as
line 5552 does). `pendCnt`, `cmdList`, `currBlock` and `freeBlocks` are `pending_cmds`.

*Actions.* `XmitPullFail`, `XmitNoCarrier`, `XmitStart`, `XmitMapFail`, `XmitPublish`,
`XmitNoRoom`, `XmitRequeue` are the paths of `unm_nic_xmit_frame`; `SendDirect`,
`SendPublish`, `SendReserve`, `SendQueue` those of `nx_nic_send_cmd_descs` (the message
refused for want of memory changes nothing); `PollStart`, `PollAgain`, `PollMissed`, the
interrupt handler against NAPI's state bits; `PollTx...`, `PollReap`, `PollCommit`, `Poll...Wake`
the reaper; `PollComplete` the end of the poll and the interrupt; `PollPend...` and `Drain...`
the drain; `TxTimeout`, `TxTimeoutTask`, `LinkDown`, `LinkUp`, `Close`, `Open` the rest.

Without a carrier a packet is dropped, unless a loopback test runs (5534): the tools start and
end one at any time, so `XmitNoCarrier` and the two ways on are both open then. `Close`
disables NAPI, and so waits for the polls, only if no LSA is registered (4938); with one, the
buffers may be freed under a poll that reaps them.

*Histories.* `raced`: two threads were in the ring without a lock between them, because a failed
pull released the lock of another (5506), or because a close with an LSA met a poll in the reaper.
`unmapped` has the packets whose mapping failed, `refreed` those of them that a close freed once
more.

*Properties.* All hold until `raced`; what a race costs is shown by `tx_unlock_not_held`.
`NoOverrun`: the order of all indices around the ring, with those a thread has advanced but not
published. `BlockReserved`: a message is accepted on the promise of a block, which is there
when it is used; `PendingBlockReserved` is the same without regard to races. `LockDiscipline` and
`PendingCounted`, that every path releases only what it holds and that the counter of waiting
commands is right, are the lemmas behind these two and are proved (section 15).
`NoFreeInFlight`: no packet is freed while the card has still to read it. `SkbAccounted`: a packet
taken is freed once or in one buffer that will be reaped; one whose mapping failed is freed at
once and stays in its buffer, and only a close that finds it there frees it again.
`CommandOrder`: ring, blocks and both paths together implement `CommandChannel`.
`QueueRestarts` and `CommandsReachCard`: progress. `QueueRestarts` lets the timeouts end in a
requested firmware reset, which is section 5's business.

`CommandsReachCard` has two polls, of which one may turn the other away from `tx_cpu_excl` at
6907 and at 6933. The poll turned away has seen what nobody else need see: that commands wait and
that there is room. Without a premise the property is false: in the model, as in the code, two
polls can each lose the trylock that mattered, and the commands stay until the next interrupt.
The premise is therefore part of the property: at each of the two places some later try
succeeds (`missed`, kept by `MCTxRing`), and no interrupt is enabled behind the back of a poll that
will look at the ring again anyway (`Undisturbed`), as the timeout task does and an open with an LSA:
such a poll loses the interrupt (`PollMissed`), and the next one may not come.

## 4. The receive buffers

*Threads.* `Cpus` poll the status rings; `Opener` brings the interface up and, when no poll
runs, detaches it. The card takes published descriptors in order, one for a packet and up
to `MaxChain` for a chained LRO packet, and tells any status ring.

*State.* The lists are sequences of buffers, the counts kept beside them are variables of
their own because the code reads and adds them apart. `hasSkb` stands for the skb and the
state `BUSY`. A message is the sequence of its buffers; what the packet holds, and whom it
is for, is left out, because the path of the buffer does not depend on it.

*Actions.* `Open` and `PostSplice` are the two callers of `nx_post_rx_descriptors`, which is
`PostOne` per buffer, `PostPutBack` when the list is done or an allocation fails,
`PostPublish`, and `PostDone`, in which the flag is cleared without a lock. `RcvRecycle`,
`RcvPacket`, `RcvChained` and `RcvBuffer` are `unm_process_rcv`, the two LRO handlers and
`process_rxbuffer`. `PostSkip` is the unlocked look at the counts.

*Properties.* `OnePoster` (the flag does the work of a lock although it is not cleared under
one); `BufferAccounted`: every buffer is in exactly one place, none is posted without an skb
(the branch "This should not happen" of 7046 is unreachable), and `alloc_failures` never
exceeds the shortage it stands for, so that the unsigned subtraction at 7161 does not wrap;
`BuffersGoRound` (refinement of `BufferPool`),
`SharedListServed` (a buffer left on the shared list while somebody was posting is posted by
a later poll).

## 5. Recovery of the card

*Threads.* `worker`, the single-threaded work queue of the driver, on which run the reset
task of function 0 (`Watchdog`, `Reset`), the link tasks and the timeout tasks of all
ports; `rtnl`, the one thread in `unm_nic_open` or `unm_nic_close`; `aer`, the PCI error
recovery, whose three callbacks are made for function after function. Timers, hangs and PCI
errors are the environment.

*State.* `dev` is the register. A port is a record of what the three threads test and set:
present and running (the kernel's flags), `state`, `isUp` (`"magic"` for
`ADAPTER_UP_MAGIC`, `"resetting"`, `"dead"`), NAPI, rings, link timer, `tx_timeout_count`.
`flush` holds the work items a flush waits for. What the rings contain is left to the other
two models, to which an attach is their `Init`.

*Actions.* Each step of the code between two places where another thread can interfere, in
the order of the code: for the reset task, taking a port down (`DetachPort`, `DetachDown`,
`DetachFree`), starting the firmware (`RestartFw`), attaching (`AttachPort`, `AttachNapi`,
`AttachInit`, `AttachedPort`) and `SetReady`. Choices of the environment are parameters:
`ok` (the step works), `panic` (temperature), `soon` (the last reset was recent), `fatal` (a
peg halted for good). `napi_enable` on enabled NAPI is a `BUG_ON` of the kernel and
`napi_disable` on disabled NAPI waits: the actions have these as guards, so a thread that
runs into either stays there. `AerFlush` leaves the flush out if `in_atomic` sees the lock the
handler holds, which depends on how the kernel was built: both are steps.

*Properties.* `RecoveryOwned`: by the register alone, read and written under a hardware
semaphore that is released in between, the watchdog and the PCI handlers keep out of each
other's way, apart from the shutdown of an overheated card. `NapiBalancedInCalm`: nobody
runs into NAPI in the wrong state. `PortsRestored`: when nobody works on them the ports are
what their users made of them. `Recovers`: a hang, or a request for recovery, is answered,
unless the port is `Stuck`: the PCI handler, holding `adapter->lock`, flushes the work queue
(8855, 4957) on which the timeout task of the same port spins on that lock (6403). That happens
in a kernel where `in_atomic` does not see spin locks, with nothing failing, and is final.
The last three hold while the history variable `calm` is true: no step failed, the watchdog
did not give up, and no open or close came in the middle of a recovery. They do not hold
without it, and the hazards in `PROJECT.json` say what happens then: a failed restart or
attach leaves ports detached under a ready device, and an open or close during a reset
works on the same port without a common lock.

## 6. Mailbox and contexts

*Threads.* In `Mailbox` any caller, a thread of any function of the card, may send a command
at any time; the card takes one that stands in its registers and answers it well, badly or
never. `Contexts` extends it: one of the callers, `Host`, is the thread of the driver that
attaches, detaches and serves the kernel's net queues (serialised by the kernel); the others
send commands of their own.

*State.* A register holds whose value it is, not the value: that is what the properties ask.
Commands differ in how their answer is used: only the code; a result read if the command
succeeded (`Queries`), or in any case (`Limits`); memory that the card writes (`Transfers`).
In `Contexts`, `rx`, `active`, `queues` and `defRx` are `rx_ctxs`, `active_rx_ctxs`,
`rx_ctxs_state` and `default_rx_ctx`; a context that the card has not answered for has the
context id zero, here `NoCtx`. `cardRx` and `cardTx` are what the card has.

*Actions.* `Lock` to `Unlock` are `issue_cmd`, a step for each access to the registers that
others can see; `ReadResult` and `FreeArea` are what the callers do after it. `Create...` is
`nx_nic_create_rx_ctx` for all three of its callers; `Attach` to `AttachRest`
`unm_nic_hw_resources` and the attach, whose failures are undone by the loops of `Detach`;
`Queue...` the net queues; `Reset` to `QueuesEnd` the recovery. A command is issued by one
action (`Send`), runs as steps of `Mailbox`, and is concluded by another (`Ended`).

*Properties.* `CommandWhole`: the semaphore excludes, and the card never takes a mixture of
two commands. `AnswerSound`: what a caller has when it releases the semaphore is its own
answer (`AnswerOwn`), and the memory for it is there until it has come (`AnswerHasRoom`). They say
nothing more than the exclusion once a caller has given up (`late`), until a command begins
with the card idle and its response in place: a late answer is taken for that of the next
command, and written to memory that has been freed. `DefaultsLive`, `CardBacked` and
`QueuesKnown`: the default contexts exist; the card has no context whose rings are gone; the
map names the net queues. They hold while `calm`: nothing has happened that the driver
passes over. What that is, `Harm` lists, each a place where the code goes on regardless:
- a context that the card does not destroy, or creates after the driver has given up;
- an attach that fails in a recovery, after which the net queues are created all the same
  (6017) and a later detach, seeing an interface that is not up, tells the card nothing;
- a net queue that cannot be created again in a recovery: the map still has its id (5965);
- a net queue whose interrupt is refused, which the caller does not learn the id of (3944);
- no memory for a request: `retval` is still zero, success (4661, 4819).

`DestroyHole` is a step that changes nothing: the loop at 4762 does not go past a free entry
of the table, which the kernel makes when it frees a net queue below another one.

## 7. Access to the card

*Threads.* Those of all functions of a card. The probe chooses one family of functions by the
length of the memory map, for good: `CardAccess` runs either `CrbWindow` ("2M"), `MemAgent`
("2M agent", whose registers need no window), or `LegacyWindow` ("128M"). `XportAccess` runs the
same with the other module loaded: `nx_xport` has a copy of these functions, named with an X,
uses a part of them, and reads one register without a lock.

*State.* Of a register only which one a thread touches is kept, of the memory the words, in
parts as small as a short access, with the values last written. `window`, `hwin` and `sn`
are what the card shows, `curr` and `qdr` what the driver takes them to be; `lock`, `readers`
and `writer` are `adapter_lock`, `sem` is semaphore 7, `op`, `addr` and `data` the test agent.

*Actions.* One per register access that others can see: choosing the window and using it are
two. `CrbWinLockTimeout` is the wait that gives up, after which the thread goes on without the
semaphore and releases it all the same. The driver forgets what it takes the window to be in two places:
the restart of the firmware (`Forget`, 6061) and the attach of a function (`AttachAgain`,
8881-8884), which also sets the SN window it believes in to 0 without writing the register.
`guessed` has the functions for which that was wrong, until the register is written again.

*Properties.* `RightRegister`: a thread that uses the aperture finds its own register there,
until a wait is given up. `RightWindow`: the same of the halves of a larger map
(`RightHalf`), of the window of the QDR memory (`RightSn`, except for pages mapped on demand:
the lock is given back in between, 1237; and for accesses to window 0 of a `guessed` function, which
meet the window that the register still shows), of the agent under the lock (`AgentMine`) and, with
exceptions it names, of the unlocked read. `MemoryAsWritten`: accesses by the agent of a 2 MB
map that do not overlap read and write what they are to, short writes included. Those that
overlap are in the model and break it; the code has no lock there.

## 8. Bringing the firmware up

`FlashRom` is a read of the flash by any function: the lock with its bounded loops, address,
fetch, data. `FirmwareLoad` adds the function of port 0, which brings the firmware up twice:
the choice between flash and file by the module parameter, the versions and the board
(`ChooseFirmware`, `FlashFirst`), the reset of the chip under the lock of the flash, the
initialisation data, the copy, the release of the pegs and the wait for them. A version is what is
asked of it (four classes). The image is words that are known by where they came from: those of the
boot loader (`BootWords`) and the others. From the flash the driver copies the boot loader alone
(`unm_nic_init.c` 818), which then fetches the rest from the flash itself; from a file it copies
everything and leaves a magic word (1065), which tells the boot loader to start what is in memory.
`WillRun` is what results. The boot loader takes the magic back; the reset of `pinit_from_rom`
clears it too, the one of a P3 with memory (HMEZ) does not. The first boot of a P2 sets it as
well (1625-1678; `FirstBoot`).

*Properties.* `FlashReadRight`: a read that returns 0 returns its word, unless a wait was
given up or the chip was reset meanwhile. `FirmwareRight`: pegs that were released run, or will
run when they boot, the whole of the image that was to run, by all rules of the choice
(`RightFirmwareRuns`): a load from the flash needs its boot loader whole and no magic left from
before, one from a file all words and the magic. And "up" speaks of the firmware this start
loaded (`UpMeansBooted`), unless the receive peg of the earlier firmware became ready late: its
state is not cleared again after the reset (`unm_nic_init.c` 1253).

## 9. From probe to remove, and nx_xport

*`NicLifecycle`.* Per function what it holds (`held`), what it holds and has lost the pointer
to (`lost`), and the fields by which the code decides what to give back. `Probe...` are the
stages of `unm_nic_probe`, each of which may fail; `Open`, `Close`, `AttachWorks`,
`AttachFails`, `Suspend`, `Resume` the interface; `WatchdogFires`, `WatchdogRuns`, `Visit...`,
`RestartFirmware` the walk of port 0 over all functions it finds on the bus, a function at a
time; `Remove...` the steps of `unm_nic_remove`, between which timer and walk run.

*Properties.* `GivenBack`: nothing is lost, except what `Explained` lists with its cause (section
16). `WatchdogOfTheBound`: timer and work end with their adapter, unless the timer fires
between flush and deletion. `RecoveryOnMapped`: the walk visits no function whose registers
are unmapped, unless its registration failed or it is just being removed.

*`XportTable`.* The sort of the table, comparison by comparison, beside probes, unplugged
devices, open files and ioctls. `TableTrue`: index and table agree, and no entry is of a
device that is gone - unless one was unplugged during the sort.

## 10. Messages, answers, flows and PexQ

*Threads.* The polls of the status rings, the readers of the SNMP file and the tool, the card,
which works on requests in any order and answers any number of messages later, and the reset.

*State.* A descriptor is its owner, its message and its part; a message is an answer, the
end of a flow, or a packet. Requests go through `cmds`, a FIFO - what `CommandChannel` promises
of `TxRing`. `bits`, `list`, `comp`, `active` and `trigger` are the event wait's own;
`IdBits` computes what `1 << (i & 0x3F)` sets with an `int` of `IntBits` bits. In `Lro` the table is
a set of entries (flow and context) looked up by the key comparison, `SameKey`.

*Properties.* `WholeMessages`: however little of a message there is when the poll looks,
messages are handled whole, once, in order. `RightWaiter`: a call gets the answer to its own
request, unless the one whose answer it is had given up, or two threads met in the unlocked
map or list. `WaitersKnown`: map and list are those of the waiting calls and of those that
left their entry behind. `FlowsMatch`: pool and table agree (`PoolExact`: no double free, which
would be a `BUG`), and the table says what the card does (`TableMatches`), except for flows
of destroyed contexts.

*`PexQ`* is apart, and of builds without `DONT_USE_PEXQ`: messages of callers (`Requests` at a time) and in between the messages that
make the card write back its place. `InOrder`: what the card will execute is what was accepted,
in order, and no slot is overwritten. `ReportComing`: who is turned away has reason to try
again, provided the request fits beside the messages that may stay unreported.

## 11. Interrupts

*Threads.* Per function the card, the handler, NAPI's poll (which may have completed and not yet
enabled the interrupt while the next is scheduled), the holder of rtnl (open, close,
`set_mac`) and the timeout task. `kind` chooses among six kinds of card and interrupt: P2 or P3,
legacy, MSI or MSI-X, firmware 3.4 or 4.0, with or without the state register.

A poll looks at the ring, and what it saw decides whether it completes (`"done"`): a message may
arrive between that look and the end of `netif_rx_complete` and the enabling of the interrupt
(6893-6917), and is not looked for. The card is taken to interrupt, when its interrupt is enabled, for
messages that are there already.

*Property.* `Polled`: messages of a running interface are read in the end: no order of arriving,
masking, completing and enabling leaves a ring masked, or a message behind, with no poll scheduled. Excused is a function of a
P2 whose neighbour has its bit in `CRB_INT_VECTOR` again and again: its own bit may be lost each
time.

## 12. Filters, ports and the self test

*`Filters`* (P3). Three threads - the stack, the holder of rtnl, the reset - run
`nx_nic_p3_set_multi` and the requests for MTU, IP addresses and rules step by step; the card has
what it was sent. A list is modelled by how often it holds an address, since nothing depends on
its order. The kernel's list may hold the broadcast address, which the driver adds by itself.
`FiltersRight`: when nothing is under way the card lets through what the kernel wants, as far as
its requests were taken, and `mac_list` has no other addresses and each once. It says nothing of
an address that came up twice in one `set_multi` (`clashed`): a comment promises that each is added
once, the code does not see to it, and the run `filter_twice` shows it (`AddedOnce`, section 16).
`SettingsKnown`: it answers for the right
IP addresses, and all contexts have the MTU of the interface. Both name what they excuse: two
threads in `set_multi` at once, requests that failed, the IP addresses after a reset.

*`PortControl`* (P2). The registers of two ports, some shared; the stack's change of the list, which
waits for frames to drain while it switches the mode, beside open, close, reset and the link
watchdog. `PortRight`: an open port at rest has its address, frame size, mode and link as the
stack has them. Changes of the list that cross an open, close or reset are excused.

A link and the carrier that follows it (5938, 5939) are one step.

*`PhyTest`* (P2). The LED and loopback tests as scripts of accesses to the PHY, each of two frames,
beside peg 0, which uses the same bus under semaphore 3. Values are kept: a register has the
content of one register, its own or another's, with or without the bit a test sets; a read leaves
what it met in `held`, and a write puts that back with the bit changed (`xge_mdio.c` 366-391). A
test identifies the PHY first, and what it reads there decides what it does. The test waits for
the lock of the PHY in bounded tries (`HaltGivesUp`). `TestLeavesNothing`: peg and lock are as
before when a test has ended; the loopback meets the registers it means, unless the end of a
test without memory broke the peg's lock (`broken`); and the PHY is as it was, unless an access
went astray: of the loopback after that, or of the LED test, which takes no lock. Then the
content of another register may have been written into the PHY, and the property claims nothing.

## 13. Runs

| Run | Module, configuration | Shows |
| --- | --- | --- |
| `tx_safety` | `MCTxRing`, `TxRing_safety.cfg` | safety, packets accounted for, the refinement of `CommandChannel` |
| `tx_progress` | `MCTxRing`, `TxRing_progress.cfg` | progress with two polls |
| `tx_unlock_not_held` | `TxRing`, `TxRing_unlock.cfg` | an accepted command lost (violation) |
| `rx_progress` | `MCReceive`, `Receive_progress.cfg` | the shared list is served; messages are read |
| `fw_recovery` | `MCFwReset`, `FwReset_recovery.cfg` | ownership, NAPI, restoration, recovery |
| `ctx_commands` | `MCContexts`, `Contexts_commands.cfg` | commands whole, answers sound, contexts accounted for |
| `card_access` | `MCCardAccess`, `CardAccess_windows.cfg` | every access meets its register, window, word |
| `bring_up` | `FirmwareLoad`, `FirmwareLoad_bringup.cfg` | the right firmware runs |
| `lifecycle` | `MCLifecycle`, `NicLifecycle_drivers.cfg` | all is given back; the tools' table is true |
| `messages` | `MCMessages`, `Messages_answers.cfg` | messages whole, answers to their callers, flows, PexQ |
| `port_control` | `MCPorts`, `Ports_control.cfg` | filters, settings, ports, self test; receive buffers: safety and the refinement of `BufferPool` |
| `filter_twice` | `MCPorts`, `Filters_twice.cfg` | an address added twice (violation) |

A run whose module holds several components that share nothing checks them one at a time: a
variable chosen in the initial state says which of them the behaviour is of.

*Bounds.* A ring of five descriptors, packets of two to four and commands of one take every position relative
to the wrap, fill the ring and meet a message that does not fit; blocks of two make the
blocks full, partly filled and absent, and three commands use a second block. Two polls
compete for `tx_cpu_excl`; one sender suffices for safety since senders exclude each other
by `tx_lock` from start to end (the run in which this fails has two). In `tx_safety` one
packet, three commands, one loss or close. In `tx_progress` one packet, two commands in messages of one and two: a waiting message and a
full ring need no more, and two polls make every trylock fail or succeed. The timeout threshold is 0 or 1 for the code's 2: the counter has only to
pass it. `MaxStatusHandle` is three for 128: the reaper stops before and after it has seen
everything. A receive ring of three buffers with chains of two has a poster, a second poll
and the card busy at once, and the threshold of two is crossed both ways. Two ports and
three events from outside are enough for a hang during a PCI recovery while a timeout is
pending, and for an open, a close and a reset of the same port; a failure period of one for
eight and limits of one and two for the code's 2 and 5 keep every branch. The contexts start as after
an attach and the creation of one net queue; from there three operations of the driver reach
a recovery with two net queues, a failed one followed by a detach, and an attach that fails
at every place; one command of another thread, at any time, suffices to meet each command of
the driver, and one retry for 4000 makes every poll both end and give up.

Three threads of two functions make a window change hands within a function and between functions;
two windows suffice, since a third would be as wrong as the second, and one wait that gives up
ends all promises. Two words of two parts make a short write keep something. A second bring-up
and two readers of the flash are enough for everything a first one leaves behind. Two functions
with two faults, or three devices and four probes, take every stage of probe, attach, walk and
sort with a failure before or after it. Rings of four descriptors hold one message of three and
show every part of it; three calls of two threads over four completion ids, of which two bits of an
`int` reach half (as 32 of 64 do in the code), reuse an id after a time-out. PexQ has 16 slots,
limits of 8 and 4 and runs of 3 for the code's 1024, 256, 32 and 255: the divisibility that the
code relies on is an assumption of the module. In the interrupts one owed message and three
calls that mask suffice, because everything else comes round. Four calls and two failures meet
each request of `set_multi`; one group address and the broadcast address in the kernel's list, with a
limit of one for 38, cross the limit both ways. In `filter_twice` the limit is two and nothing
fails: the second entry needs no more than one call. `Blinks` is two for eight.

`CHECK_DEADLOCK` is off everywhere: packets, errors and administrators may stop coming, and
threads that wait for ever are a subject of the properties.

## 14. Fairness

- `TxRing`: threads that hold or wait for a spin lock go on (a poll strongly, since the lock
  it wants is taken and released by others), the card works, a latched interrupt is
  delivered, the kernel's watchdog and the work item run. Nothing is assumed to arrive: no
  packet, command, receive interrupt or link event.
- `RxRing`: a poll that has started goes on. `SharedListServed` has as its premise that every
  status ring is polled again and again, which is what traffic does and nothing guarantees.
- `Contexts`: threads go on with what they have begun; no liveness is checked yet.
- `FwReset`: the threads go on where they can, the watchdog timer fires. Tasks on the work
  queue are strongly fair each: the queue is single-threaded and first in first out, so a
  task that is queued is passed over only finitely often, whereas weak fairness would let
  the others keep it disabled. Timers of the links need not fire, opens, closes, hangs and
  errors need not come.
- `Interrupts`: a card that owes a message and may interrupt does, the kernel calls the handlers
  as long as the line is asserted and runs the polls that are scheduled, and the threads that
  have begun to mask go on. Weak fairness is enough: nothing takes a step away from these for a
  while, except what the property excuses. Opens, closes and timeouts need not come.

The other modules are checked for safety only: what they would need to make progress (a lock
of the flash, an answer of the card, a list of waiters) is just what the code may fail to get.

## 15. Proofs

Eight modules prove, for all values of the constants that the named assumptions allow:

| Theorem | Statement |
| --- | --- |
| `TxRingProofs!TypeCorrect`, `Locked`, `NeverOverrun`, `Counted`, `NeverLost` | `Spec => []NoOverrun`, `BlockReserved`, and `raced \/ TypeOK`, `LockDiscipline`, `PendingCounted` |
| `TxRingProofs!NothingFreedInFlight`, `PacketsAccounted` | `Spec => NoFreeInFlight`, `[]SkbAccounted` |
| `TxRingProofs!OneQueue` | `Spec => CommandOrder`, the refinement of `CommandChannel` |
| `RxRingProofs!TypeCorrect`, `PostersExclude`, `CountsCorrect`, `BuffersKept` | `Spec => []TypeOK`, `OnePoster`, `CountsMatch`, `BufferAccounted` |
| `RxRingProofs!RingImplementsPool` | `Spec => BuffersGoRound`, the refinement of `BufferPool` |
| `FirmwareProofs!TypeCorrect`, `RecoveryExclusive` | `Spec => []TypeOK`, `RecoveryOwned` |
| `FirmwareProofs!NapiBalances`, `PortsComeBack` | `MCSpec => []NapiBalancedInCalm`, `PortsRestored` |
| `MailboxProofs!TypeCorrect`, `CommandsWhole`, `AnswersOwn`, `AnswersHaveRoom`, `AnswersSound` | `Spec => []TypeOK`, `CommandWhole`, `AnswerOwn`, `AnswerHasRoom`, `AnswerSound` |
| `MailboxProofs!DefaultsStayLive`, `CardHasBacked`, `QueuesStayKnown` | `MCSpec => []DefaultsLiveInCalm`, `CardBackedInCalm`, `QueuesKnownInCalm` |
| `CardAccessProofs!RegistersReached`, `LegacyRegistersReached`, `MemoryWritten` | `XSpec => []RightRegister`, `RightWindow`, `MemoryAsWritten` |
| `FirmwareProofs!FlashReadsRight`, `FirmwareRunsRight` | `LoadSpec => []FlashReadRight`, `FirmwareRight` |
| `LifecycleProofs!AllGivenBack`, `WatchdogStopped`, `RecoveryVisitsMapped`, `TableLeadsToTheBound` | `Spec => []GivenBack`, `WatchdogOfTheBound`, `RecoveryOnMapped`, `TableTrue` |
| `MessagesProofs!MessagesWhole`, `WaitersAreKnown`, `RightCallWoken`, `FlowsAgree` | `Spec => []WholeMessages`, `WaitersKnown`, `RightWaiter`, `FlowsMatch` |
| `PortProofs!SettingsHold` | `FilterSpec => []SettingsKnown` |
| `PortProofs!FiltersHold` | `FilterSpec => []FiltersRight` |
| `PortProofs!PortsRight` | `PortSpec => []PortRight` |
| `PortProofs!TestsLeaveNothing` | `PhySpec => []TestLeavesNothing` |

The specifications of the table are those the runs check, but for `PortProofs`: `FilterSpec`,
`PortSpec` and `PhySpec` go on where `MCPorts` stops, once threads met, and let every port be closed
and reset; so the theorems say more than the run. Likewise `Spec` of `TxRing` goes on after a race, where
`MCTxRing` stops. Each module defines an inductive invariant (`IInv`, `CardInv`, `NicInv`, ...) as a conjunction of named parts and has
one lemma per action, or group of actions, that preserves it; one lemma joins them, and the
theorems above follow.

*Transmit.* The invariant is `raced \/ IInv`: until a failed `__pskb_pull_tail` releases the
`tx_lock` of another thread (5506), or a close with an LSA frees the buffers under a poll
that reaps them (4938). Such failures, and failing mappings, are among the steps the proofs go through;
after the first race the theorems claim nothing, and `NeverLost` would be false then, as
`tx_unlock_not_held` shows. `raced` never becomes false again (`RacedStays`). `NoOverrun` is not inductive alone. The order of the indices
needs to know who may move which: a poll in the reaper holds `tx_cpu_excl`, so
`lastCmdConsumer` stands still under it; whoever has written beyond `cmdProducer` holds
`tx_lock`, so `cmdProducer` does. With `LockDiscipline` in the invariant, all indices are
compared by their distance from `lastCmdConsumer`, and the lemmas about `Dist` and
`Advance` say how distances change when an index moves and when their origin does. That a
block that was promised is there when it is used needs the state of a sender between
`SendReserve` and `SendQueue`, during which `tx_lock` keeps the drain away.

*Packets.* `NoFreeInFlight` is an action property. Its invariant, `FlightTrue`, says of the
descriptors the card has still to execute that the packet of each was taken and lies in no buffer
but that of the same slot: the reaper then frees only behind the card. A transmit that was refused
frees a packet no descriptor names. `SkbAccounted` counts buffers; `PacketsPlaced` says where they
are: between what is reaped and the top of what is written, one buffer to a packet. A packet whose
mapping failed is the exception it names: freed, and still in the buffer at the producer, until the
next packet takes the slot or a close frees it again (`PlacesUnmapped`, `PlacesClose`).

*The channel.* `CommandOrder` maps `queue` to the commands in the ring followed by those in the
blocks. `CommandsPlaced` says that the commands in the ring from the card's place on are the numbers
from `executed + 1` to `InRing`, in the order of their slots, and `BlocksTrue` that the blocks hold those from
there to `accepted`. Together they give `QueueTrue`: the queue is exactly the numbers between
`executed` and `accepted`, in order. The refinement follows from it without another look at the
ring: `executed` grows by at most one, `accepted` by the length of a message, and the rest is arithmetic.
`RingCommands` places each command by its rank, so that no recursion stands between the
ring and the sequence.

*Receive.* `OnePoster` says more than mutual exclusion: the flag is set exactly when a
thread is posting. It needs `PcOK`, which thread can be where. `CountsMatch` is carried
through the unlocked reads because every list has one owner at a time: the shared one the
holder of `buf_post_lock`, a poll's own the poll, the poster's the poster.

*Buffers.* `BufferAccounted` counts the places of a buffer; `PlaceInv`, which is inductive beside
`IInv`, says the same in parts a step can move: each list is without doubles (`NoDoubles`), and ring,
shared list, poster, polls and messages divide the buffers among them (`OneList`). What ties the ring
to the indices is `RingTrue`: a poster's `prod` is as far ahead of the card as what is published and what
it has written since. As a buffer in the poster's hands is not on the ring, the ring is not full,
and the descriptor written next is none of those the card has still to take. The lemmas `Move...`
are about the division alone, one per way a buffer can go. `BuffersGoRound` comes with it:
the same lemma per action shows that the step is a `Post`, a `Fill`, a `Release`, a `Reset`, or none.

*Recovery.* `RecoveryOwned` needs `Places`: where the reset task stands determines why it
runs, and where the PCI recovery stands implies that the register is its own. Type
correctness of the counters includes that `fw_alive_failures` comes round instead of
growing and that `fwload_failed_count` stays below its limit.

*Recovery in calm.* `NapiBalancedInCalm` and `PortsRestored` hold while no step has failed and no open or close
has crossed a recovery; `MCSpec` is `Spec` with a history of that and a bound on outside events, which
the proof leaves arbitrary. `CalmInv` says two things. One thread at a time works on the ports (`Alone`): the
reset task, the PCI handlers, or an open or close; the exclusion of the first two is `RecoveryOwned`, that of the user's
is what calm means. And the ports are a function of where that thread stands (`AllAt`): each one
is still to be visited, is the one in hand, or has been done, and for each of the three the invariant names the state of
NAPI, rings and network device, given what the user left. One lemma per thread and step moves one
port from one class to the next. At rest no port is in hand, and both properties can be read off.

*Mailbox.* The semaphore excludes by itself (`Exclusive`). The rest needs to know, while no
command is late, that a command in CDRP is the one whose caller polls, that the card works
on that command, and whose values the registers hold at each place of `issue_cmd`
(`CommandSound`, `CardSound`, `CallerSound`); the memory of a transfer is a fact about its
caller alone (`AreaKept`). `late` ends only in `WriteSign` with the card idle, where nobody
else is inside, so that the invariant is true again from nothing. The theorems are about
`Mailbox` with any commands; `CtxInv`, below, contains its invariant, so that as long as nothing is
passed over they hold with those of `Contexts` too, resets of the card included.

*Contexts.* The three properties speak of what the driver, the card and the mailbox between them have
of a context. `MCSpec` bounds the operations, which the proof leaves arbitrary, and records in `calm`
whether one of the failures listed in `Harm` has been passed over. `CtxInv` is the invariant of the mailbox,
`Placed` and `Mail`. `Placed` says what the table, the counter, the bit map and the defaults are for each
place of the thread, by what it is about: queues and their recovery (`QueueStage`), attaching
(`AttachStage`), detaching (`DestroyStage`). The bit map is that of the contexts beyond the first but for one being
made; in a recovery it is inverted, and the queues still to be given a context are as many as
the thread has counted (`Known`, `ToDo`). `Mail` connects the thread with the card: no command about
contexts is left in the mailbox but one the thread waits for or has given up a moment ago (`Unanswered`), and
until the thread has gone on, the card has the context of a create only if the thread will see success or a time-out,
and none of a destroy that the thread will see succeed (`CardTrue`). So rings are freed only when the card has let go. The
proof needs the mailbox's `Sound`: an answer the thread polls is the answer to its own command. It
assumes of the constants that there is an id for a queue beside the first context (`NumRx > 1`), as
`MCInit` has one, and that no other caller creates or destroys contexts, which only `Host`'s functions do.

*Windows.* `CardAccess` chooses among three machines that share nothing, and `CardInv` is the
conjunction of their invariants. `RightRegister` needs to know, while no wait was given up, that whoever is between
taking and releasing semaphore 7 holds it and the lock of its function, and that from
`SetCrbWindow` on the aperture shows its register; nobody else can be there. `RightWindow` needs
the same of `adapter_lock`: the writer of a function excludes its readers, so that a window 0
is the writer's own and put back before a reader looks. What the driver believes of the SN window is what the
register shows (`SnKnown`) except for the `guessed`, who believe in window 0.

*Memory.* `MemoryAsWritten` speaks of accesses that did not overlap; its invariant says what each
step of an exchange has left in the agent (`AddrSet`, `DataSet`, `Answered`), that the word of a
short write is the memory's but for the part written (`WordBuilt`), and that the memory is `meant`
but for a write done and not yet noticed.

*Flash.* The waits are bounded and two resets go past the lock, so the semaphore alone does not
keep reads apart. The invariant is: a reader between its lock and its unlock holds semaphore 2, or
every read under way is disturbed (`Held`); a reset disturbs all of them, and while the chip settles
or is between reset and unlock, all of them stay so (`ResetDisturbs`). A read that begins while
another is disturbed is disturbed too, which makes `Held` inductive. For the undisturbed, `Progress`
says what is in the flash's registers.

*Firmware.* `FirmwareRight` is about the end of a long sequence in which most results are
ignored. `LoadInv` carries what each stage has done: the words copied so far, of the boot loader or of
everything (`ToCopy`), come from the flash or the file that was chosen, or a read was lost (`Copied`);
no magic of an earlier start survives the reset (`MagicTaken`), so that a load from the flash
runs the flash; a file was accepted only if it is supported, has
its BIOS and is not older than what it replaces (`FileAccepted`), and is used only then (`Chosen`); and what the peg registers show belongs to this start or to
a late receive peg of the one before (`PegsOfStart`, `PegState`).

*Lifecycle.* `NicInv` says for each function what its phase entitles it to hold, and for each way to lose
something - named in `excused` - that only what is named may be missing or left. `GivenBack` looks
at the end, the invariant at every stage: the recovery can visit a function at any of them. The timer
of the watchdog is its own case (`Watched`), because removal flushes its work before it stops it. `TableInv`
keeps the permutation the sort has reached so far (`Indexed`), so that an index leads to its
function also between two swaps.

*Messages.* The ring: what the host owns is the parts of consecutive messages, in order, and the
first slot not yet handled begins a message (`HostParts`, `Consecutive`, `Begins`, `Ends`); a message
is read only when its last descriptor is the host's. The waiters: bit map and list show exactly `Holding`
and `Linked`. The answers: a request is in one place between thread and card at a time (`AllAlone`), and
whoever it is for still holds its id (`AllAwaited`), unless the call gave up. `RightWaiter` needs all
three.

*Flows.* `FlowsMatch` compares three records that are never changed together. `Traced` says for one
flow that it has an entry just while exactly one of these speaks of it: the poll that has
inserted it, a request for it, the card, or the message of its end, due or in a ring; so whatever comes next
adds or removes one thing, and the table stays in step (`TraceStays`, `TraceMoves`). It is claimed of
flows with no destroyed context among those of equal key (`Clean`). That a removal by key
takes one entry is `KeysApart`, which needs the comparison of keys to be an equivalence
(`LroAssumption`; `nx_cmp_ip_key` compares a selection of fields). `PoolExact` is in the invariant as it
stands, and the order of messages in a ring comes from the ring's own invariant.

*Settings.* A thread that tells the card something is between two states of it. `IpsTold` knows who is in
the middle of an open, which tells the addresses at its end. `MtuSending` says of a thread
that sends the MTU that the contexts before the one it is at have it - or that the reset has
taken them, and will send it anew (`WillSend`): a change of the MTU goes on while the port is
detached. `Attaching` is where each thread can be. The one assumption is that contexts are numbered in
a sequence (`FilterAssumption`).

*Filters.* While a thread rebuilds `mac_list` its entries are in three lists. `Once` says that no address
has two entries in them, `CardHas` that the card has just those that are in `mac_list` or still in
the old list, `Fresh` that what is still to be gone through has no entry yet - all this whatever the kernel
changes meanwhile. `AsWanted` and `MissMode` compare lists and mode with what the kernel wants
and hold as far as the thread has come (`Through`), unless the list is to be gone through again
anyway (`Pending`). Nothing of it is claimed once two threads were within `set_multi` (`raced`). When
the thread leaves, the lists are the same to all threads (`InsideKeeps`). All of it is per address, and
leaves out those that came up twice in one `set_multi` (`clashed`), which the broadcast address in the
kernel's list does: the code does not look among the entries to be added. `FilterAssumption` only
says that a station's address is no broadcast address, which 4988 checks.

*Ports.* `PortInv` is a conjunction over the ports, and `PortDone` reduces a step of one port to that port: what
the property speaks of is kept per port. Per port, `Placed`, `RegsRight` and `Followed` say what each step of
open, close, reset and `set_mac` has found or done, the watchdog included. Until a `set_multi` of the stack crossed a
call, `OneAtATime` says that one thread changes the mode, `Changing` what that thread has
found and done, and `ModeRight` that the receiver is on, and in the mode of the adapter's flag, but for what
that thread is about to do. `PortAssumption`: there is an MTU, and MTUs are numbers.

*Self test.* While no access went astray (`Straight`), `ScriptRight` says which accesses are left for
each place of a test, and `PhyKept` that every register has its own content, with the bit set only if
what is left of the test takes it back (`Due`); a value that is held for a write is the
register's own. `PegHalted` says when the peg can be on the bus: not while it is halted, so that the
second frame of an access of the loopback meets the register the first one named, and so does the write the
register whose value was read. `BusKept` ties what went astray to its causes. `PhyAssumption`: the
LED blinks at least once.

*Only model-checked.* What remains:

- all liveness (`QueueRestarts`, `CommandsReachCard`, `Recovers`, `SharedListServed`, `Polled`): it needs
  fairness and `ENABLED`, which the prover does not handle;
- `InOrder` and `ReportComing` of `PexQ`, which flatten and select from sequences: what these recursive
  operators compute needs induction over data.

## 16. Where the code departs from what it says

Two runs end in a counterexample, quoted in `PROJECT.json` under "findings".
`tx_unlock_not_held`: when `__pskb_pull_tail` fails, `tx_lock` is released without being held
(5506, 5807); a command is lost in the branch "This should never happen" (8215).
`filter_twice`: "make sure to add each mac address only once" (5037) does not look at the addresses
that are to be added (5045). If the kernel's list has the broadcast address, it is added twice;
when it leaves the list, the second entry is removed from the card, which no longer lets broadcasts
through.

The following were met while modelling. Each is a step, or an excuse named in a property, of the
module given; none of the properties hides it otherwise.

*Transmit and receive.*
- A packet whose DMA mapping fails is freed but stays in its buffer (5582, 5817); closing the
  interface before another packet takes the buffer frees it again (4911). `SkbAccounted` names this
  (`refreed`).
- With an LSA registered a close does not disable NAPI (4938) and frees the buffers that a poll may be
  reaping.
- The last chance to drain (6933) is lost when another poll holds `tx_cpu_excl` for the end of its own
  work: commands wait although there is room, until something else raises an interrupt
  (`CommandsReachCard`).
- "check if more needs to be freed and schedule the call back again" (8717): the reaper's result is
  dropped (6908), and completed descriptors wait for another interrupt.
- One failed allocation ends the posting (7738), although buffers with an skb are on the list; the
  card may be left with none, and never interrupts again (7158).

*Recovery.*
- A close that has disabled NAPI (4951) flushes the queue on which the reset disables NAPI of the
  same port (6120): both wait for ever.
- The PCI error handler holds `adapter->lock` (8855) while it flushes the work queue (4957), on which the
  timeout task of the port spins on that lock (6403): both wait for ever, in a kernel where `in_atomic`
  does not see spin locks (`Stuck` in `Recovers`).
- A timeout task queued before a PCI error uses rings that the error recovery has freed (6412),
  under the comment "Protext tx timeout handler" (8855).
- A failed restart or attach leaves ports detached under a device that is set ready (6299).
- `set_mac` during a reset: `napi_disable` waits for ever if the attach failed, and
  `netif_device_attach` makes a detached interface present.

*Firmware.*
- The dummy DMA area is given to the card after the pegs are released, although the comment at 2158
  says before. The comment of `load_fw` (`unm_nic_init.c` 1157) limits the comparison of versions to
  one mode; the code compares in every mode but that of the flash.

*Windows.*
- An attach takes the SN window to be 0 without writing the register (8883). If it shows another, the
  accesses to window 0 that follow go to that one (`guessed`).

*Probe to remove.*
- What is lost: PexQ, when attach fails behind its allocation (4615; only without `DONT_USE_PEXQ`); rings and interrupts, when an
  interface whose firmware was declared dead is opened again (3275); the net device, in the
  error path of probe (2971); LRO and the dummy DMA area, when a recovery crosses a probe or a
  resume. Error reporting is switched on by a `revision_id` that is read only afterwards (2436).
- The timer of the watchdog may be armed again between flush and deletion (3507). The driver data
  survives a failed `register_netdev` (2958).
- `nx_xport`: a device unplugged during the sort clears the entry of another; `unm_init_module`
  returns success when `class_create` failed; `current_adapter_index` is never compared with the
  128 entries there are.

*Messages.*
- Half of the completion ids are never usable or clear others' bits: `1 << (i & 0x3F)` shifts an
  `int` (828). A request that cannot be sent leaves an entry on the stack linked (`nxhal.c` 1671,
  `unm_nic_snmp.c` 389, `unm_nic_tool.c` 1324, 1401). Neither map nor list has a lock. A late answer
  goes to the next call with the same id (932).
- `nx_os_send_nic_request` ignores whether the wait was answered.
- `nx_initiate_lro` frees an entry a second time when its context was destroyed before the request
  failed (`unm_nic_lro.c` 211). `nx_cmp_ip_key` leaves out the source address of IPv4.
- `ctx_id > alloc_rx_ctxs` (4029, 4073, 4133) admits an index one past the end.
- PexQ, in a build without `DONT_USE_PEXQ`: a request larger than what the limit leaves beside the messages that may stay unreported
  can be refused for ever (`nx_pexq.c` 160).

*Interrupts, filters, ports.*
- The bit of another function is lost from `CRB_INT_VECTOR` (6585).
- Two threads that rebuild `mac_list` at once may add an address twice, too. A change between the
  reset's own `set_multi` and `netif_device_attach` is not told to the card, nor are the IP addresses after a reset. `max_mtu` is used uninitialised with
  firmware before 4.0.222 (6488); an MTU that a later context refuses stays in the earlier ones.
- P2: closing one port switches off the address filter of the other (one control register); a
  `set_multi` that ends after `stop_port` switches the receiver on again; a link noticed while
  the interface goes down leaves the carrier on.
- The end of a self test that found no memory releases the PHY's lock and peg 0 without having them
  (`unm_nic_tool.c` 404). A loopback test after that shares the bus with peg 0, may read a register the peg
  selected and write its value, with a bit changed, into another (`xge_mdio.c` 366-391). The LED test
  drives the bus without the lock.

## 17. Not modelled

- ESX code (`nx_nic_vmk.c`, `linux_module_heap.c`, the `ESX` branches elsewhere) except where `Contexts`
  needs it; builds without `NEW_NAPI`; `nxhal_v34.c`, the contexts of firmware 3.4.
- Contents: packets, headers, checksums, VLAN tags, statistics.
- In `TxRing` and `RxRing`: a reset in the middle of traffic. A detach disables NAPI and
  detaches the network device first; to both models it is the end of one life of the ring.
- In `FwReset`: suspend, resume, probe and remove (in `NicLifecycle`); a time-out of `api_lock`, whose result
  some callers ignore (a hazard listed for the mailbox); firmware older than 4.0.222 and
  the module parameter that turns the automatic reset off, for which the task only looks at
  the temperature. `TxTimeout` is taken to come only on ports that are up.
- Outside `src`, assumed from how the driver uses it: the card executes commands in order,
  a packet's descriptors all at once or not at all, keeps one completion interrupt latched
  and takes receive descriptors in the order of their posting; the kernel serialises a
  device's transmit calls and its opens and closes, waits for the transmit path before it
  closes, and never runs two polls of one NAPI context at once.
- In `FirmwareLoad`: the format of files and of the initialisation data; what the boot loader that the first boot of a
  P2 starts does until the reset, beyond the magic it may leave or take back. In `CrbWindow`: the map of
  addresses to windows. In `PortControl`: GbE ports and the mode for access points. In `PhyTest`:
  the self test of a P3, which is one request. In `Filters`: VLAN groups, coalescing, RSS.
- Statistics, `ethtool` and `procfs` reads, and the decoding of the tools' requests: they read
  or format the state of the components above, or call their operations.

## 18. Plan

What would come next, in this order:

1. Compositions: `TxRing` under `FwReset` (an attach in the middle of waiting commands), `Interrupts`
   over `StatusRing`, `EventWait` over `CommandChannel` in place of the FIFO of `Messages`.
2. Proofs: every safety property the runs check is proved but the two of `PexQ` (section 15), whose queue
   would have to be stated without the operators on sequences.
3. `Mailbox`: an abstract mailbox that answers one command at a time, and liveness: a command
   returns, a detach without a hole ends.
4. The contexts of firmware 3.4 as a variant of `Contexts`.
