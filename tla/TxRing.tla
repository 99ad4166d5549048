------------------------------- MODULE TxRing -------------------------------
(***************************************************************************)
(* The transmit side of the driver: the command ring shared with the card, *)
(* the queue of commands that wait for room in it, and the four kinds of   *)
(* thread that work on both (driver/unm_nic_main.c, NEW_NAPI build):       *)
(*                                                                         *)
(*   - the transmit path unm_nic_xmit_frame, one at a time because the     *)
(*     kernel serialises a device queue;                                   *)
(*   - Senders, threads in nx_nic_send_cmd_descs (statistics, LRO, MAC and *)
(*     link requests, ioctls);                                             *)
(*   - Cpus, the softirqs that run nx_nic_poll_sts, one per status ring;   *)
(*   - the watchdog: dev_watchdog and the work item unm_tx_timeout_task.   *)
(*                                                                         *)
(* The card is the environment: it executes the descriptors between its    *)
(* consumer index and the producer register, in order, writes the index    *)
(* back to host memory and raises an interrupt, which stays latched until  *)
(* a poll is scheduled for it.                                             *)
(*                                                                         *)
(* A descriptor is the packet whose first descriptor it is, the number of  *)
(* a command (numbered in the order the driver accepts them), Cont for a   *)
(* further descriptor of a packet, or Unused.                              *)
(***************************************************************************)
EXTENDS Naturals, Sequences, FiniteSets

CONSTANTS
  MaxTxDescCount,     \* descriptors in the ring (adapter->MaxTxDescCount)
  BlockSize,          \* MAX_PENDING_DESC_BLOCK_SIZE
  MaxStatusHandle,    \* MAX_STATUS_HANDLE: descriptors reaped per poll
  ResetThreshold,     \* UNM_FW_RESET_THRESHOLD
  FragDescs,          \* descriptors the fragments of a packet may need
  HeaderDescs,        \* descriptors the copied TSO headers may need: 0..2
  MessageSizes,       \* nr_elements of nx_nic_send_cmd_descs
  Skbs,               \* the packets the stack may hand to the driver
  Senders, Cpus,      \* threads
  TxCpu,              \* the status ring whose interrupt announces completions
  None, Cont, Unused, \* model values
  MaxCommands,        \* bound on the commands accepted
  MaxDowns            \* bound on link losses and closes of the interface

ASSUME RingAssumption ==
  /\ MaxTxDescCount \in Nat /\ MaxTxDescCount > 1
  /\ BlockSize \in Nat \ {0}
  /\ MaxStatusHandle \in Nat \ {0}
  /\ ResetThreshold \in Nat
  /\ FragDescs \subseteq Nat \ {0}
  /\ HeaderDescs \subseteq 0..2
  /\ MessageSizes \subseteq 1..BlockSize
  /\ MaxCommands \in Nat /\ MaxDowns \in Nat

\* The thread that runs unm_nic_xmit_frame, as a holder of tx_lock.
Xmit == "xmit"

ASSUME ThreadAssumption ==
  /\ TxCpu \in Cpus
  /\ Senders \cap Cpus = {}
  /\ {None, Xmit} \cap (Senders \cup Cpus) = {}
  /\ None # Xmit /\ None \notin Skbs

ASSUME DescAssumption ==
  /\ Skbs \cap (1 .. MaxCommands) = {}
  /\ {Cont, Unused} \cap (Skbs \cup 1 .. MaxCommands) = {}

Slots == 0 .. MaxTxDescCount - 1
Commands == 1 .. MaxCommands
Descs == Commands \cup Skbs \cup {Cont, Unused}

VARIABLES
  cmdProducer,      \* adapter->cmdProducer, also in the card's register
  lastCmdConsumer,  \* the host's copy of the card's consumer index
  cmdConsumer,      \* *adapter->cmdConsumer, written by the card
  desc,             \* ahw.cmdDescHead[]
  buf,              \* cmd_buf_arr[].skb
  txLock, txExcl,   \* holders of tx_lock and tx_cpu_excl
  pendCnt, cmdList, currBlock, freeBlocks,  \* adapter->pending_cmds
  stopped, carrier, running,                \* flags of the net_device
  timeoutWork, timeoutCount,
  intr,             \* the status rings whose interrupt is enabled
  irq,              \* a completion interrupt is latched in the card
  xpc, xskb, xprod, \* transmit path: where it is, its skb, its producer
  spc, sprod, slen, \* senders
  ppc, again,       \* polls: where they are, whether another follows
  rlast, rcons, rcount,  \* locals of unm_process_cmd_ring (under txExcl)
  dprod, dlen,      \* locals of unm_proc_pending_cmd_desc (under both locks)
  \* History: kfree calls per packet, packets taken, commands accepted and
  \* executed, the "BUG" branch was reached, losses of the link and closes.
  frees, taken, accepted, executed, bugHit, downs,
  \* History: two threads were in the ring without a lock between them; the
  \* packets whose mapping failed, and those of them a close freed once more.
  raced, unmapped, refreed

ringVars == <<cmdProducer, lastCmdConsumer, cmdConsumer, desc, buf>>
pendVars == <<pendCnt, cmdList, currBlock, freeBlocks, bugHit>>
netVars  == <<stopped, carrier, running>>
tmoVars  == <<timeoutWork, timeoutCount>>
xmitVars == <<xpc, xskb, xprod>>
sendVars == <<spc, sprod, slen>>
reapVars == <<rlast, rcons, rcount>>
drainVars == <<dprod, dlen>>
pollVars == <<ppc, again, intr, irq, txExcl>>
skbVars  == <<frees, taken>>
cmdVars  == <<accepted, executed>>
histVars == <<downs, raced, unmapped, refreed>>
vars == <<ringVars, txLock, pendVars, netVars, tmoVars, xmitVars, sendVars,
          reapVars, drainVars, pollVars, skbVars, cmdVars, histVars>>

-----------------------------------------------------------------------------
(* Ring arithmetic.                                                        *)

\* The index n places after i (get_next_index, get_index_range).
Advance(i, n) == IF i + n >= MaxTxDescCount THEN i + n - MaxTxDescCount
                                            ELSE i + n

\* How many places j is after i.
Dist(i, j) == IF i <= j THEN j - i ELSE j + MaxTxDescCount - i

\* Mutant of HasRoom: the last free descriptor is used as well, so that a full
\* ring looks like an empty one.
HasRoomForAll(n) ==
  cmdProducer + n <= IF lastCmdConsumer <= cmdProducer
                       THEN lastCmdConsumer + MaxTxDescCount
                       ELSE lastCmdConsumer

\* The space check of the transmit path and of nx_nic_send_cmd_descs.
HasRoom(n) ==
  cmdProducer + n < IF lastCmdConsumer <= cmdProducer
                      THEN lastCmdConsumer + MaxTxDescCount
                      ELSE lastCmdConsumer

\* The free descriptors unm_proc_pending_cmd_desc finds.
FreeDescs == MaxTxDescCount - 1 - Dist(lastCmdConsumer, cmdProducer)

\* cmdDescHead after the descriptors of sequence s are written from slot p on.
Written(p, s) ==
  [i \in Slots |-> IF Dist(p, i) < Len(s) THEN s[Dist(p, i) + 1] ELSE desc[i]]

\* cmd_buf_arr after n buffers from slot p on are given no skb.
Cleared(p, n) == [i \in Slots |-> IF Dist(p, i) < n THEN None ELSE buf[i]]

\* The next n commands, numbered as they are accepted.
NextCommands(n) == [k \in 1..n |-> accepted + k]

Init ==
  /\ cmdProducer = 0 /\ lastCmdConsumer = 0 /\ cmdConsumer = 0
  /\ desc = [i \in Slots |-> Unused]
  /\ buf = [i \in Slots |-> None]
  /\ txLock = None /\ txExcl = None
  /\ pendCnt = 0 /\ cmdList = <<>> /\ currBlock = <<>> /\ freeBlocks = 0
  /\ stopped = FALSE /\ carrier = TRUE /\ running = TRUE
  /\ timeoutWork = FALSE /\ timeoutCount = 0
  /\ intr = Cpus /\ irq = FALSE
  /\ xpc = "idle" /\ xskb = None /\ xprod = 0
  /\ spc = [t \in Senders |-> "idle"]
  /\ sprod = [t \in Senders |-> 0] /\ slen = [t \in Senders |-> 0]
  /\ ppc = [c \in Cpus |-> "idle"] /\ again = [c \in Cpus |-> FALSE]
  /\ rlast = 0 /\ rcons = 0 /\ rcount = 0
  /\ dprod = 0 /\ dlen = 0
  /\ frees = [s \in Skbs |-> 0] /\ taken = {}
  /\ accepted = 0 /\ executed = 0 /\ bugHit = FALSE /\ downs = 0
  /\ raced = FALSE /\ unmapped = {} /\ refreed = {}

-----------------------------------------------------------------------------
(* unm_nic_xmit_frame.  The stack calls it while the interface runs and    *)
(* its queue is not stopped; a packet it answers with NETDEV_TX_BUSY stays *)
(* with the stack, every other one is the driver's to free.                *)

CanXmit(s) == xpc = "idle" /\ running /\ ~stopped /\ s \notin taken

\* drop_packet: the packet is freed and control falls into spin_unlock.
DropPacket(s) ==
  /\ frees' = [frees EXCEPT ![s] = @ + 1]
  /\ txLock' = None

\* Too many fragments and __pskb_pull_tail finds no memory: the jump to
\* drop_packet is taken before tx_lock is acquired, and releases the lock of
\* whoever holds it.
XmitPullFail(s) ==
  /\ CanXmit(s)
  /\ DropPacket(s)
  /\ taken' = taken \cup {s}
  /\ raced' = (raced \/ txLock # None)
  /\ UNCHANGED <<ringVars, pendVars, netVars, tmoVars, xmitVars, sendVars,
                 reapVars, drainVars, pollVars, cmdVars, downs, unmapped,
                 refreed>>

\* No carrier and no loopback test: the packet is dropped under the lock.  An
\* ioctl or a test sets testCtx.loopback_start at any time (unm_nic_tool.c
\* 207, 357), so without a carrier a packet may be dropped or sent.
XmitNoCarrier(s) ==
  /\ CanXmit(s)
  /\ txLock = None
  /\ ~carrier
  /\ DropPacket(s)
  /\ taken' = taken \cup {s}
  /\ UNCHANGED <<ringVars, pendVars, netVars, tmoVars, xmitVars, sendVars,
                 reapVars, drainVars, pollVars, cmdVars, histVars>>

\* Room for n descriptors and two of headers: the packet takes the slot at
\* the producer, before any of it is mapped, and h descriptors of headers.
XmitStart(s, n, h) ==
  /\ CanXmit(s)
  /\ txLock = None
  /\ HasRoom(n + 2)
  /\ txLock' = Xmit
  /\ taken' = taken \cup {s}
  /\ buf' = [buf EXCEPT ![cmdProducer] = s]
  /\ desc' = Written(cmdProducer,
                     [k \in 1 .. n + h |-> IF k = 1 THEN s ELSE Cont])
  /\ xpc' = "filled" /\ xskb' = s
  /\ xprod' = Advance(cmdProducer, n + h)
  /\ UNCHANGED <<cmdProducer, lastCmdConsumer, cmdConsumer, pendVars, netVars,
                 tmoVars, sendVars, reapVars, drainVars, pollVars, frees,
                 cmdVars, histVars>>

\* A mapping fails: the packet is dropped, its slot still points to it.
XmitMapFail ==
  /\ xpc = "filled"
  /\ DropPacket(xskb)
  /\ unmapped' = unmapped \cup {xskb}
  /\ xpc' = "idle" /\ xskb' = None /\ xprod' = 0
  /\ UNCHANGED <<ringVars, taken, pendVars, netVars, tmoVars, sendVars,
                 reapVars, drainVars, pollVars, cmdVars, downs, raced,
                 refreed>>

\* The producer index and the doorbell.
XmitPublish ==
  /\ xpc = "filled"
  /\ cmdProducer' = xprod
  /\ txLock' = None
  /\ xpc' = "idle" /\ xskb' = None /\ xprod' = 0
  /\ UNCHANGED <<lastCmdConsumer, cmdConsumer, desc, buf, skbVars, pendVars,
                 netVars, tmoVars, sendVars, reapVars, drainVars, pollVars,
                 cmdVars, histVars>>

\* No room: requeue_packet.  What made the check fail may change before the
\* queue is stopped, and the check is not repeated afterwards.
XmitNoRoom(s, n) ==
  /\ CanXmit(s)
  /\ txLock = None
  /\ ~HasRoom(n + 2)
  /\ txLock' = Xmit
  /\ xpc' = "full"
  /\ UNCHANGED <<ringVars, skbVars, pendVars, netVars, tmoVars, xskb, xprod,
                 sendVars, reapVars, drainVars, pollVars, cmdVars, histVars>>

XmitRequeue ==
  /\ xpc = "full"
  /\ stopped' = TRUE
  /\ txLock' = None
  /\ xpc' = "idle"
  /\ UNCHANGED <<ringVars, skbVars, pendVars, carrier, running, tmoVars, xskb,
                 xprod, sendVars, reapVars, drainVars, pollVars, cmdVars,
                 histVars>>

-----------------------------------------------------------------------------
(* nx_nic_send_cmd_descs.                                                  *)

CanSend(t, n) ==
  /\ spc[t] = "idle"
  /\ txLock = None
  /\ accepted + n <= MaxCommands     \* bound

\* Mutant of MustQueue: a command may overtake those that wait.
MustQueueOnlyIfFull(n) == ~HasRoom(n)

\* Commands already wait, or the ring has no room for n more.
MustQueue(n) == pendCnt > 0 \/ ~HasRoom(n)

SendDirect(t, n) ==
  /\ CanSend(t, n)
  /\ ~MustQueue(n)
  /\ txLock' = t
  /\ desc' = Written(cmdProducer, NextCommands(n))
  /\ buf' = Cleared(cmdProducer, n)
  /\ accepted' = accepted + n
  /\ spc' = [spc EXCEPT ![t] = "filled"]
  /\ sprod' = [sprod EXCEPT ![t] = Advance(cmdProducer, n)]
  /\ UNCHANGED <<cmdProducer, lastCmdConsumer, cmdConsumer, pendVars, netVars,
                 tmoVars, xmitVars, slen, reapVars, drainVars, pollVars,
                 skbVars, executed, histVars>>

SendPublish(t) ==
  /\ spc[t] = "filled"
  /\ cmdProducer' = sprod[t]
  /\ txLock' = None
  /\ spc' = [spc EXCEPT ![t] = "idle"]
  /\ sprod' = [sprod EXCEPT ![t] = 0]
  /\ UNCHANGED <<lastCmdConsumer, cmdConsumer, desc, buf, pendVars, netVars,
                 tmoVars, xmitVars, slen, reapVars, drainVars, pollVars,
                 skbVars, cmdVars, histVars>>

\* Mutant of BlockAvailable: a current block is taken to have room for all n.
BlockAvailableIfCurrent(n) == currBlock # <<>> \/ freeBlocks > 0

\* nx_make_available_pend_cmd_desc: the current block takes all n, or a free
\* block is there, or one is allocated.  Without memory the message is
\* refused with -ENOMEM and nothing changes.
BlockAvailable(n) ==
  \/ currBlock # <<>> /\ Len(currBlock) + n <= BlockSize
  \/ freeBlocks > 0

SendReserve(t, n) ==
  /\ CanSend(t, n)
  /\ MustQueue(n)
  /\ IF BlockAvailable(n)
       THEN UNCHANGED freeBlocks
       ELSE freeBlocks' = freeBlocks + 1
  /\ txLock' = t
  /\ spc' = [spc EXCEPT ![t] = "reserved"]
  /\ slen' = [slen EXCEPT ![t] = n]
  /\ UNCHANGED <<ringVars, pendCnt, cmdList, currBlock, bugHit, netVars,
                 tmoVars, xmitVars, sprod, reapVars, drainVars, pollVars,
                 skbVars, cmdVars, histVars>>

\* nx_queue_pend_cmd_desc for each of the commands: a full block goes to the
\* tail of cmd_list, the next one comes from free_list.  Where none is left
\* the code prints its "This should never happen" and loses the command.
SendQueue(t) ==
  LET n     == slen[t]
      both  == currBlock \o NextCommands(n)
      fresh == IF currBlock = <<>> \/ Len(both) > BlockSize THEN 1 ELSE 0
      short == fresh > freeBlocks
      kept  == IF ~short THEN both
               ELSE IF currBlock = <<>> THEN <<>>
               ELSE SubSeq(both, 1, BlockSize)
  IN /\ spc[t] = "reserved"
     /\ bugHit' = (bugHit \/ short)
     /\ freeBlocks' = IF short THEN freeBlocks ELSE freeBlocks - fresh
     /\ pendCnt' = pendCnt + Len(kept) - Len(currBlock)
     /\ IF Len(kept) >= BlockSize
          THEN /\ cmdList' = Append(cmdList, SubSeq(kept, 1, BlockSize))
               /\ currBlock' = SubSeq(kept, BlockSize + 1, Len(kept))
          ELSE /\ currBlock' = kept
               /\ UNCHANGED cmdList
     /\ accepted' = accepted + n
     /\ txLock' = None
     /\ spc' = [spc EXCEPT ![t] = "idle"]
     /\ slen' = [slen EXCEPT ![t] = 0]
     /\ UNCHANGED <<ringVars, netVars, tmoVars, xmitVars, sprod, reapVars,
                    drainVars, pollVars, skbVars, executed, histVars>>

-----------------------------------------------------------------------------
(* nx_nic_poll_sts, after the receive work.                                *)

GoTo(c, l) == ppc' = [ppc EXCEPT ![c] = l]

\* The card raises an interrupt of an enabled status ring, for completions or
\* for received packets, and with that disables it until the driver's next
\* write of interrupt_crb.
Interrupt(c) ==
  /\ c \in intr
  /\ intr' = intr \ {c}
  /\ irq' = (irq /\ c # TxCpu)

\* The handler schedules NAPI.
PollStart(c) ==
  /\ ppc[c] = "idle"
  /\ Interrupt(c)
  /\ GoTo(c, "tx")
  /\ UNCHANGED <<ringVars, txLock, pendVars, netVars, tmoVars, xmitVars,
                 sendVars, reapVars, drainVars, again, txExcl, skbVars,
                 cmdVars, histVars>>

\* After napi_complete the poll function still works on the waiting commands;
\* an interrupt then schedules the next poll, which starts once it returns.
Finishing(c) == ppc[c] \in {"pend", "pendlock", "drain"}
PollAgain(c) ==
  /\ Finishing(c) /\ ~again[c]
  /\ Interrupt(c)
  /\ again' = [again EXCEPT ![c] = TRUE]
  /\ UNCHANGED <<ringVars, txLock, pendVars, netVars, tmoVars, xmitVars,
                 sendVars, reapVars, drainVars, ppc, txExcl, skbVars, cmdVars,
                 histVars>>

\* NAPI is scheduled already, so the handler does nothing: possible after
\* unm_tx_timeout_task enabled the interrupt of a ring being polled.
PollMissed(c) ==
  /\ ppc[c] # "idle"
  /\ Finishing(c) => again[c]
  /\ Interrupt(c)
  /\ UNCHANGED <<ringVars, txLock, pendVars, netVars, tmoVars, xmitVars,
                 sendVars, reapVars, drainVars, ppc, again, txExcl, skbVars,
                 cmdVars, histVars>>

\* spin_trylock(&tx_cpu_excl) fails: somebody else reaps.
PollTxBusy(c) ==
  /\ ppc[c] = "tx"
  /\ txExcl # None
  /\ GoTo(c, "complete")
  /\ UNCHANGED <<ringVars, txLock, pendVars, netVars, tmoVars, xmitVars,
                 sendVars, reapVars, drainVars, again, intr, irq, txExcl,
                 skbVars, cmdVars, histVars>>

\* Mutant of PollTxBegin: everything submitted is taken to be finished.
PollTxBeginAtProducer(c) ==
  /\ ppc[c] = "tx"
  /\ txExcl = None
  /\ txExcl' = c
  /\ rlast' = lastCmdConsumer /\ rcons' = cmdProducer /\ rcount' = 0
  /\ GoTo(c, "reap")
  /\ UNCHANGED <<ringVars, txLock, pendVars, netVars, tmoVars, xmitVars,
                 sendVars, drainVars, again, intr, irq, skbVars, cmdVars,
                 histVars>>

\* unm_process_cmd_ring reads both consumer indices once.
PollTxBegin(c) ==
  /\ ppc[c] = "tx"
  /\ txExcl = None
  /\ txExcl' = c
  /\ rlast' = lastCmdConsumer /\ rcons' = cmdConsumer /\ rcount' = 0
  /\ GoTo(c, "reap")
  /\ UNCHANGED <<ringVars, txLock, pendVars, netVars, tmoVars, xmitVars,
                 sendVars, drainVars, again, intr, irq, skbVars, cmdVars,
                 histVars>>

ReapMore == rlast # rcons /\ rcount < MaxStatusHandle

\* Mutant of PollReap: the buffer keeps its pointer to the freed packet.
PollReapKeepsSkb(c) ==
  /\ ppc[c] = "reap"
  /\ ReapMore
  /\ frees' = IF buf[rlast] = None THEN frees
              ELSE [frees EXCEPT ![buf[rlast]] = @ + 1]
  /\ rlast' = Advance(rlast, 1)
  /\ rcount' = rcount + 1
  /\ UNCHANGED <<ringVars, txLock, pendVars, netVars, tmoVars, xmitVars,
                 sendVars, rcons, drainVars, pollVars, taken, cmdVars,
                 histVars>>

\* One buffer: what it holds is unmapped and freed.
PollReap(c) ==
  /\ ppc[c] = "reap"
  /\ ReapMore
  /\ frees' = IF buf[rlast] = None THEN frees
              ELSE [frees EXCEPT ![buf[rlast]] = @ + 1]
  /\ buf' = [buf EXCEPT ![rlast] = None]
  /\ rlast' = Advance(rlast, 1)
  /\ rcount' = rcount + 1
  /\ UNCHANGED <<cmdProducer, lastCmdConsumer, cmdConsumer, desc, txLock,
                 pendVars, netVars, tmoVars, xmitVars, sendVars, rcons,
                 drainVars, pollVars, taken, cmdVars, histVars>>

\* Nothing was reaped: the ring index and the queue are left alone.
PollTxNothing(c) ==
  /\ ppc[c] = "reap"
  /\ ~ReapMore /\ rcount = 0
  /\ txExcl' = None
  /\ GoTo(c, "complete")
  /\ rlast' = 0 /\ rcons' = 0
  /\ UNCHANGED <<ringVars, txLock, pendVars, netVars, tmoVars, xmitVars,
                 sendVars, rcount, drainVars, again, intr, irq, skbVars,
                 cmdVars, histVars>>

PollCommit(c) ==
  /\ ppc[c] = "reap"
  /\ ~ReapMore /\ rcount > 0
  /\ lastCmdConsumer' = rlast
  /\ rlast' = 0 /\ rcons' = 0 /\ rcount' = 0
  /\ GoTo(c, "wake")
  /\ UNCHANGED <<cmdProducer, cmdConsumer, desc, buf, txLock, pendVars,
                 netVars, tmoVars, xmitVars, sendVars, drainVars, again, intr,
                 irq, txExcl, skbVars, cmdVars, histVars>>

\* The queue is not stopped: nothing to wake.  The function's result, whether
\* the card finished more meanwhile, is not used by nx_nic_poll_sts.
PollNoWake(c) ==
  /\ ppc[c] = "wake"
  /\ ~(stopped /\ running)
  /\ txExcl' = None
  /\ GoTo(c, "complete")
  /\ UNCHANGED <<ringVars, txLock, pendVars, netVars, tmoVars, xmitVars,
                 sendVars, reapVars, drainVars, again, intr, irq, skbVars,
                 cmdVars, histVars>>

PollSeesStopped(c) ==
  /\ ppc[c] = "wake"
  /\ stopped /\ running
  /\ GoTo(c, "wakelock")
  /\ UNCHANGED <<ringVars, txLock, pendVars, netVars, tmoVars, xmitVars,
                 sendVars, reapVars, drainVars, again, intr, irq, txExcl,
                 skbVars, cmdVars, histVars>>

PollWake(c) ==
  /\ ppc[c] = "wakelock"
  /\ txLock = None
  /\ timeoutCount' = 0
  /\ stopped' = FALSE
  /\ txExcl' = None
  /\ GoTo(c, "complete")
  /\ UNCHANGED <<ringVars, txLock, pendVars, carrier, running, timeoutWork,
                 xmitVars, sendVars, reapVars, drainVars,
                 again, intr, irq, skbVars, cmdVars, histVars>>

\* All receive work done: NAPI completes and the interrupt is enabled.
\* Otherwise (more) the poll stays scheduled.
PollComplete(c, more) ==
  /\ ppc[c] = "complete"
  /\ again' = [again EXCEPT ![c] = more]
  /\ intr' = IF more THEN intr ELSE intr \cup {c}
  /\ GoTo(c, "pend")
  /\ UNCHANGED <<ringVars, txLock, pendVars, netVars, tmoVars, xmitVars,
                 sendVars, reapVars, drainVars, irq, txExcl, skbVars, cmdVars,
                 histVars>>

\* The poll function returns.
PollReturn(c) ==
  /\ GoTo(c, IF again[c] THEN "tx" ELSE "idle")
  /\ again' = [again EXCEPT ![c] = FALSE]

PollPendBusy(c) ==
  /\ ppc[c] = "pend"
  /\ txExcl # None
  /\ PollReturn(c)
  /\ UNCHANGED <<ringVars, txLock, pendVars, netVars, tmoVars, xmitVars,
                 sendVars, reapVars, drainVars, intr, irq, txExcl, skbVars,
                 cmdVars, histVars>>

PollPendTry(c) ==
  /\ ppc[c] = "pend"
  /\ txExcl = None
  /\ txExcl' = c
  /\ GoTo(c, "pendlock")
  /\ UNCHANGED <<ringVars, txLock, pendVars, netVars, tmoVars, xmitVars,
                 sendVars, reapVars, drainVars, again, intr, irq, skbVars,
                 cmdVars, histVars>>

PollNoPending(c) ==
  /\ ppc[c] = "pendlock"
  /\ txLock = None
  /\ pendCnt = 0
  /\ txExcl' = None
  /\ PollReturn(c)
  /\ UNCHANGED <<ringVars, txLock, pendVars, netVars, tmoVars, xmitVars,
                 sendVars, reapVars, drainVars, intr, irq, skbVars, cmdVars,
                 histVars>>

\* unm_proc_pending_cmd_desc measures the ring.
DrainBegin(c) ==
  /\ ppc[c] = "pendlock"
  /\ txLock = None
  /\ pendCnt > 0
  /\ txLock' = c
  /\ dprod' = cmdProducer
  /\ dlen' = FreeDescs
  /\ GoTo(c, "drain")
  /\ UNCHANGED <<ringVars, pendVars, netVars, tmoVars, xmitVars, sendVars,
                 reapVars, again, intr, irq, txExcl, skbVars, cmdVars,
                 histVars>>

\* Mutant of CurrBlockFits: only full blocks ever leave the queue.
CurrBlockFitsOnlyFull ==
  cmdList = <<>> /\ Len(currBlock) = BlockSize /\ BlockSize <= dlen

\* unm_dequeue_pending_cmd_desc: a full block needs room for BlockSize, the
\* current block, when no full one waits, room for what it holds.
FullBlockFits == cmdList # <<>> /\ BlockSize <= dlen
CurrBlockFits == cmdList = <<>> /\ currBlock # <<>> /\ Len(currBlock) <= dlen

MoveBlock(block) ==
  /\ desc' = Written(dprod, block)
  /\ buf' = Cleared(dprod, Len(block))
  /\ dprod' = Advance(dprod, Len(block))
  /\ dlen' = dlen - Len(block)
  /\ pendCnt' = pendCnt - Len(block)
  /\ freeBlocks' = freeBlocks + 1

DrainBlock(c) ==
  /\ ppc[c] = "drain"
  /\ dlen > 0
  /\ \/ /\ FullBlockFits
        /\ MoveBlock(Head(cmdList))
        /\ cmdList' = Tail(cmdList)
        /\ UNCHANGED currBlock
     \/ /\ CurrBlockFits
        /\ MoveBlock(currBlock)
        /\ currBlock' = <<>>
        /\ UNCHANGED cmdList
  /\ UNCHANGED <<cmdProducer, lastCmdConsumer, cmdConsumer, txLock, bugHit,
                 netVars, tmoVars, xmitVars, sendVars, reapVars, pollVars,
                 skbVars, cmdVars, histVars>>

DrainEnd(c) ==
  /\ ppc[c] = "drain"
  /\ dlen = 0 \/ ~(FullBlockFits \/ CurrBlockFits)
  /\ cmdProducer' = dprod
  /\ dprod' = 0 /\ dlen' = 0
  /\ txLock' = None /\ txExcl' = None
  /\ PollReturn(c)
  /\ UNCHANGED <<lastCmdConsumer, cmdConsumer, desc, buf, pendVars, netVars,
                 tmoVars, xmitVars, sendVars, reapVars, intr, irq, skbVars,
                 cmdVars, histVars>>

-----------------------------------------------------------------------------
(* The card, the link and the watchdog.                                    *)

\* The card executes the packet or command at its consumer index.
CardComplete ==
  /\ cmdConsumer # cmdProducer
  /\ \E n \in 1 .. Dist(cmdConsumer, cmdProducer) :
       /\ \A k \in 1 .. n - 1 : desc[Advance(cmdConsumer, k)] = Cont
       /\ \/ n = Dist(cmdConsumer, cmdProducer)
          \/ desc[Advance(cmdConsumer, n)] # Cont
       /\ cmdConsumer' = Advance(cmdConsumer, n)
  /\ executed' = IF desc[cmdConsumer] \in Commands THEN desc[cmdConsumer]
                                                  ELSE executed
  /\ irq' = TRUE
  /\ UNCHANGED <<cmdProducer, lastCmdConsumer, desc, buf, txLock, pendVars,
                 netVars, tmoVars, xmitVars, sendVars, reapVars, drainVars,
                 ppc, again, intr, txExcl, skbVars, accepted, histVars>>

\* A link event: advert_link_change.
LinkDown ==
  /\ running /\ carrier
  /\ downs < MaxDowns                \* bound
  /\ carrier' = FALSE /\ stopped' = TRUE
  /\ downs' = downs + 1
  /\ UNCHANGED <<ringVars, txLock, pendVars, running, tmoVars, xmitVars,
                 sendVars, reapVars, drainVars, pollVars, skbVars, cmdVars,
                 raced, unmapped, refreed>>

LinkUp ==
  /\ running /\ ~carrier
  /\ carrier' = TRUE /\ stopped' = FALSE
  /\ UNCHANGED <<ringVars, txLock, pendVars, running, tmoVars, xmitVars,
                 sendVars, reapVars, drainVars, pollVars, skbVars, cmdVars,
                 histVars>>

\* Mutant of TxTimeout: the work item is never scheduled.
TxTimeoutIgnored ==
  /\ running /\ carrier /\ stopped /\ ~timeoutWork
  /\ UNCHANGED <<ringVars, txLock, pendVars, netVars, tmoVars, xmitVars,
                 sendVars, reapVars, drainVars, pollVars, skbVars, cmdVars,
                 histVars>>

\* dev_watchdog finds the queue stopped for too long: unm_tx_timeout
\* schedules the work item.
TxTimeout ==
  /\ running /\ carrier /\ stopped /\ ~timeoutWork
  /\ timeoutWork' = TRUE
  /\ UNCHANGED <<ringVars, txLock, pendVars, netVars, timeoutCount,
                 xmitVars, sendVars, reapVars, drainVars,
                 pollVars, skbVars, cmdVars, histVars>>

\* unm_tx_timeout_task enables the interrupt of the first status ring and
\* wakes the queue without a look at the ring, or asks for a firmware reset
\* once the counter, which only PollWake resets, exceeds ResetThreshold.
\* The counter saturates one above the threshold (bound).
TxTimeoutTask ==
  /\ timeoutWork
  /\ timeoutWork' = FALSE
  /\ IF timeoutCount >= ResetThreshold
       THEN /\ timeoutCount' = ResetThreshold + 1
            /\ UNCHANGED <<stopped, intr>>
       ELSE /\ timeoutCount' = timeoutCount + 1
            /\ stopped' = FALSE
            /\ intr' = intr \cup {TxCpu}
  /\ UNCHANGED <<ringVars, txLock, pendVars, carrier, running, xmitVars,
                 sendVars, reapVars, drainVars, ppc, again, irq, txExcl,
                 skbVars, cmdVars, histVars>>

\* unm_nic_close: the kernel has waited for the transmit path, unm_nic_down
\* masks the interrupts, waits for the polls and the work items and, under
\* tx_lock, frees whatever the buffers hold.  With an LSA registered (it may be
\* at any close) the interrupts and the polls go on, and the buffers may be
\* freed under a poll that reaps them without tx_lock.
Close ==
  /\ running
  /\ downs < MaxDowns              \* bound
  /\ xpc = "idle" /\ txLock = None /\ ~timeoutWork
  /\ \/ UNCHANGED intr
     \/ intr' = {} /\ \A c \in Cpus : ppc[c] = "idle"
  /\ raced' = (raced \/ \E c \in Cpus : ppc[c] = "reap")
  /\ running' = FALSE /\ carrier' = FALSE /\ stopped' = TRUE
  /\ frees' = [s \in Skbs |->
                 frees[s] + Cardinality({i \in Slots : buf[i] = s})]
  /\ refreed' = refreed \cup {s \in unmapped : \E i \in Slots : buf[i] = s}
  /\ buf' = [i \in Slots |-> None]
  /\ downs' = downs + 1
  /\ UNCHANGED <<cmdProducer, lastCmdConsumer, cmdConsumer, desc, txLock,
                 pendVars, tmoVars, xmitVars, sendVars, reapVars, drainVars,
                 ppc, again, irq, txExcl, taken, cmdVars, unmapped>>

\* unm_nic_open of an interface that stayed attached: interrupts and queue
\* are enabled, the carrier waits for a link event.
Open ==
  /\ ~running
  /\ running' = TRUE /\ stopped' = FALSE
  /\ intr' = Cpus
  /\ UNCHANGED <<ringVars, txLock, pendVars, carrier, tmoVars, xmitVars,
                 sendVars, reapVars, drainVars, ppc, again, irq, txExcl,
                 skbVars, cmdVars, histVars>>

-----------------------------------------------------------------------------
XmitBegins ==
  \E s \in Skbs :
    \/ XmitPullFail(s)
    \/ XmitNoCarrier(s)
    \/ \E n \in FragDescs :
         XmitNoRoom(s, n) \/ \E h \in HeaderDescs : XmitStart(s, n, h)
XmitGoesOn == XmitMapFail \/ XmitPublish \/ XmitRequeue

SendBegins(t) == \E n \in MessageSizes : SendDirect(t, n) \/ SendReserve(t, n)
SendGoesOn(t) == SendPublish(t) \/ SendQueue(t)

PollGoesOn(c) ==
  \/ PollTxBusy(c) \/ PollTxBegin(c) \/ PollReap(c) \/ PollTxNothing(c)
  \/ PollCommit(c) \/ PollNoWake(c) \/ PollSeesStopped(c) \/ PollWake(c)
  \/ \E more \in BOOLEAN : PollComplete(c, more)
  \/ PollPendBusy(c) \/ PollPendTry(c) \/ PollNoPending(c)
  \/ DrainBegin(c) \/ DrainBlock(c) \/ DrainEnd(c)

Next ==
  \/ XmitBegins \/ XmitGoesOn
  \/ \E t \in Senders : SendBegins(t) \/ SendGoesOn(t)
  \/ \E c \in Cpus :
       PollStart(c) \/ PollAgain(c) \/ PollMissed(c) \/ PollGoesOn(c)
  \/ CardComplete
  \/ LinkDown \/ LinkUp
  \/ TxTimeout \/ TxTimeoutTask
  \/ Close \/ Open

Spec == Init /\ [][Next]_vars

\* Threads that run go on running and get a spinlock in the end, the card
\* works, a latched interrupt is delivered, timers and work items run.  No
\* packet, command, receive interrupt, link event or close has to come.
Fairness ==
  /\ WF_vars(XmitGoesOn)
  /\ \A t \in Senders : WF_vars(SendGoesOn(t))
  /\ \A c \in Cpus : SF_vars(PollGoesOn(c))
  /\ WF_vars(irq /\ (PollStart(TxCpu) \/ PollAgain(TxCpu)))
  /\ WF_vars(CardComplete)
  /\ WF_vars(TxTimeout) /\ WF_vars(TxTimeoutTask)

FairSpec == Spec /\ Fairness

-----------------------------------------------------------------------------
(* Properties.  Once tx_lock was released by a thread that did not hold it *)
(* (5506), or buffers were freed under a poll that reaps them (4938), they *)
(* claim nothing any more: what that costs is PendingBlockReserved.        *)

\* Types; every index stays inside the ring, also where it wraps.
TypeOK ==
  /\ cmdProducer \in Slots /\ lastCmdConsumer \in Slots
  /\ cmdConsumer \in Slots /\ xprod \in Slots /\ rlast \in Slots
  /\ rcons \in Slots /\ dprod \in Slots /\ dlen \in Slots
  /\ desc \in [Slots -> Descs]
  /\ buf \in [Slots -> Skbs \cup {None}]
  /\ txLock \in {None, Xmit} \cup Senders \cup Cpus
  /\ txExcl \in {None} \cup Cpus
  /\ pendCnt \in Nat /\ freeBlocks \in Nat
  /\ cmdList \in Seq(Seq(Commands)) /\ currBlock \in Seq(Commands)
  /\ stopped \in BOOLEAN /\ carrier \in BOOLEAN /\ running \in BOOLEAN
  /\ timeoutWork \in BOOLEAN /\ irq \in BOOLEAN /\ bugHit \in BOOLEAN
  /\ timeoutCount \in 0 .. ResetThreshold + 1
  /\ intr \subseteq Cpus
  /\ xpc \in {"idle", "filled", "full"} /\ xskb \in Skbs \cup {None}
  /\ xpc = "filled" => xskb \in Skbs
  /\ spc \in [Senders -> {"idle", "filled", "reserved"}]
  /\ sprod \in [Senders -> Slots]
  /\ slen \in [Senders -> MessageSizes \cup {0}]
  /\ ppc \in [Cpus -> {"idle", "tx", "reap", "wake", "wakelock", "complete",
                       "pend", "pendlock", "drain"}]
  /\ again \in [Cpus -> BOOLEAN]
  /\ rcount \in 0 .. MaxStatusHandle
  /\ frees \in [Skbs -> Nat] /\ taken \subseteq Skbs
  /\ accepted \in 0 .. MaxCommands /\ executed \in 0 .. MaxCommands
  /\ downs \in 0 .. MaxDowns /\ raced \in BOOLEAN
  /\ unmapped \subseteq Skbs /\ refreed \subseteq Skbs

\* tx_lock is held by the one thread that is between its spin_lock and its
\* spin_unlock, and tx_cpu_excl by the poll that is inside either of the two
\* sections of nx_nic_poll_sts: no path releases a lock it does not hold.
LockDiscipline ==
  /\ xpc # "idle" <=> txLock = Xmit
  /\ \A t \in Senders : spc[t] # "idle" <=> txLock = t
  /\ \A c \in Cpus : ppc[c] = "drain" <=> txLock = c
  /\ \A c \in Cpus :
       ppc[c] \in {"reap", "wake", "wakelock", "pendlock", "drain"}
         <=> txExcl = c

\* The indices keep their order around the ring, seen from lastCmdConsumer:
\* the reaper never passes what it read of the card's index, the card never
\* passes the producer, and what a thread has written but not yet published
\* never reaches a descriptor that is not reaped yet (the space checks at
\* 5552, 8575 and 8153).
InOrder(i, j) == Dist(lastCmdConsumer, i) <= Dist(lastCmdConsumer, j)
CardInOrder == InOrder(cmdConsumer, cmdProducer)
ReapInOrder == \A c \in Cpus : ppc[c] = "reap" =>
  InOrder(rlast, rcons) /\ InOrder(rcons, cmdConsumer)
XmitInOrder == xpc = "filled" =>
  InOrder(cmdProducer, xprod) /\ xprod # cmdProducer
SendInOrder == \A t \in Senders : spc[t] = "filled" =>
  InOrder(cmdProducer, sprod[t]) /\ sprod[t] # cmdProducer
DrainInOrder == \A c \in Cpus : ppc[c] = "drain" =>
  /\ InOrder(cmdProducer, dprod)
  /\ Dist(lastCmdConsumer, dprod) + dlen < MaxTxDescCount
RingInOrder == CardInOrder /\ ReapInOrder /\ XmitInOrder /\ SendInOrder
                 /\ DrainInOrder
NoOverrun == raced \/ RingInOrder

\* The counter of waiting commands that decides whether a new command may
\* overtake them is the number that wait; only the last block is partly
\* filled (unm_dequeue_pending_cmd_desc, nx_queue_pend_cmd_desc).
PendingCounted ==
  /\ \A k \in 1 .. Len(cmdList) : Len(cmdList[k]) = BlockSize
  /\ Len(currBlock) < BlockSize
  /\ pendCnt = BlockSize * Len(cmdList) + Len(currBlock)

\* The branch of nx_queue_pend_cmd_desc marked "This should never happen",
\* which loses an accepted command, is not reached.
PendingBlockReserved == ~bugHit

\* It is not until a failed pull releases the lock of another thread: the block
\* that nx_make_available_pend_cmd_desc saw or allocated is there to be filled.
BlockReserved == raced \/ PendingBlockReserved

\* The descriptors the card has still to execute.
InFlight ==
  {i \in Slots : Dist(cmdConsumer, i) < Dist(cmdConsumer, cmdProducer)}

\* While the interface is up no packet is freed that the card still has to
\* read (unm_process_cmd_ring runs without tx_lock).
NoFreeInFlight ==
  [][running /\ running' /\ ~raced' =>
       \A s \in Skbs : frees'[s] > frees[s] =>
         \A i \in InFlight : desc[i] # s]_vars

\* Every packet the driver took is freed once or sits in exactly one buffer
\* of the ring that will be reaped: none is leaked, none freed twice, except
\* one whose mapping failed: its slot at the producer still points to it, and
\* a close that comes before the slot is used again frees it once more.
Holding(s) ==
  LET top == IF xpc = "filled" THEN xprod ELSE cmdProducer
  IN {i \in Slots : buf[i] = s /\ InOrder(i, top) /\ i # top}
SkbAccounted ==
  raced \/ \A s \in taken :
    frees[s] + Cardinality(Holding(s)) = IF s \in refreed THEN 2 ELSE 1

\* A stopped queue is woken as long as the link is up, even when the reaper
\* looked just before the queue was stopped; otherwise the timeouts have gone
\* on until a firmware reset was requested.
ResetRequested == timeoutCount > ResetThreshold
QueueRestarts ==
  (stopped /\ running /\ carrier) ~>
    (~stopped \/ ~running \/ ~carrier \/ ResetRequested \/ raced)

\* Up to where the ring is written, published or not.
Top ==
  IF xpc = "filled" THEN xprod
  ELSE IF txLock \in Senders /\ spc[txLock] = "filled" THEN sprod[txLock]
  ELSE IF txLock \in Cpus THEN dprod
  ELSE cmdProducer

\* The commands that the card has to execute, or will have, in the order of
\* their descriptors, and those in the blocks.
RingCommands ==
  LET places == {k \in 0 .. Dist(cmdConsumer, Top) - 1 :
                   desc[Advance(cmdConsumer, k)] \in Commands}
      upTo(k) == Cardinality({j \in places : j <= k})
  IN [n \in 1 .. Cardinality(places) |->
        desc[Advance(cmdConsumer, CHOOSE k \in places : upTo(k) = n)]]
BlockCommands ==
  LET full == BlockSize * Len(cmdList)
  IN [k \in 1 .. full + Len(currBlock) |->
        IF k > full THEN currBlock[k - full]
        ELSE cmdList[((k - 1) \div BlockSize) + 1][((k - 1) % BlockSize) + 1]]

Channel == INSTANCE CommandChannel WITH
  sent <- accepted,
  queue <- RingCommands \o BlockCommands,
  delivered <- executed

\* The ring, the blocks of waiting commands and the two paths into the ring
\* together are one FIFO channel: no command is lost, repeated or overtaken,
\* whichever path it takes (MustQueue, DrainBlock), before a race.
CommandOrder ==
  Channel!Init /\
  [][raced' \/ Channel!Next]_<<accepted, RingCommands \o BlockCommands, executed>>

=============================================================================
