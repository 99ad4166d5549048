------------------------------ MODULE Contexts ------------------------------
(***************************************************************************)
(* The receive and transmit contexts of a function (driver/nxhal.c,        *)
(* driver/unm_nic_main.c): the table rx_ctxs with its counter and its bit  *)
(* map of net queues, the default contexts, the attach and detach of the   *)
(* interface, the net queues that come and go meanwhile, and the recovery  *)
(* of both after a firmware reset.  Every create and destroy is a command  *)
(* to the card through the Mailbox, shared with the other callers.         *)
(*                                                                         *)
(* One thread of the driver, Host, does all of it (rtnl or the kernel's    *)
(* net queue lock); multi_ctx is on (the ESX builds), the card is a P3     *)
(* with firmware 4 and without PexQ.                                       *)
(***************************************************************************)
EXTENDS Mailbox

CONSTANTS
  NumRx,  \* alloc_rx_ctxs: num_rx_queues + 1
  Host    \* the caller that is the driver's thread

Ids == 0 .. NumRx - 1
NoCtx == NumRx

CreateRx(i) == [cmd |-> "create_rx", id |-> i]
DestroyRx(i) == [cmd |-> "destroy_rx", id |-> i]
SetMtu(i) == [cmd |-> "set_mtu", id |-> i]
CreateTx == [cmd |-> "create_tx", id |-> 0]
DestroyTx == [cmd |-> "destroy_tx", id |-> 0]

ASSUME ContextsAssumption ==
  /\ NumRx \in Nat \ {0} /\ Host \in Callers
  /\ {CreateTx} \cup {CreateRx(i) : i \in Ids} \subseteq Transfers
  /\ {DestroyTx} \cup {DestroyRx(i) : i \in Ids \cup {NoCtx}} \subseteq Sets
  /\ {SetMtu(i) : i \in Ids \cup {NoCtx}} \subseteq Sets
  /\ \A o \in Queries \cup Limits :
       o.cmd \notin {"create_rx", "destroy_rx", "create_tx", "destroy_tx"}

VARIABLES
  rx,       \* rx_ctxs: none, allocated, or active after the card's answer
  active,   \* active_rx_ctxs
  queues,   \* rx_ctxs_state: the contexts of net queues
  defRx,    \* default_rx_ctx
  tx,       \* tx_ctxs[0]
  defTx,    \* default_tx_ctx is set
  up,       \* is_up is ADAPTER_UP_MAGIC
  host,     \* the driver's thread
  cardRx, cardTx  \* the contexts that the card has

table == <<rx, active, queues, defRx>>
txVars == <<tx, defTx>>
cardVars == <<cardRx, cardTx>>
ctxVars == <<table, txVars, up, host, cardVars>>
vars == <<mailbox, ctxVars>>

IdleHost == [pc |-> "idle", i |-> 0, why |-> "none", fw |-> TRUE,
             reset |-> FALSE, saved |-> {}, todo |-> 0]

CtxInit ==
  /\ Init
  /\ rx = [i \in Ids |-> "none"] /\ active = 0
  /\ queues = {} /\ defRx = NoCtx
  /\ tx = "none" /\ defTx = FALSE /\ up = FALSE
  /\ host = IdleHost
  /\ cardRx = {} /\ cardTx = FALSE

HostAt(l) == host.pc = l
HostGoto(l) == host' = [host EXCEPT !.pc = l]

\* The thread sends a command and waits; the command has ended with code rc.
Send(o, l) == Issue(Host, o) /\ HostGoto(l)
Ended(l, rc) == HostAt(l) /\ caller[Host].rcode = rc /\ Return(Host)

-----------------------------------------------------------------------------
(* nx_nic_create_rx_ctx, in the name of an attach, of the kernel's net     *)
(* queues, or of the net queues' recovery after a reset.                   *)

OpenIds == {i \in Ids : rx[i] = "none" /\ i \notin queues}

\* Where the caller goes on when there is no context.
CreateFails ==
  HostGoto(CASE host.why = "attach" -> "free"
             [] host.why = "queue" -> "idle"
             [] host.why = "reset" -> "next")

CreateAlloc ==
  /\ HostAt("create")
  /\ \E i \in OpenIds :
       /\ \A j \in OpenIds : i <= j
       /\ rx' = [rx EXCEPT ![i] = "allocated"]
       /\ host' = [host EXCEPT !.pc = "dma", !.i = i]
  /\ active' = active + 1
  /\ UNCHANGED <<mailbox, queues, defRx, txVars, up, cardVars>>

\* No open id, or no memory for the context or its rings.
CreateNoMemory ==
  /\ HostAt("create")
  /\ CreateFails
  /\ UNCHANGED <<mailbox, table, txVars, up, cardVars>>

CreateSend ==
  /\ HostAt("dma")
  /\ Send(CreateRx(host.i), "creating")
  /\ UNCHANGED <<table, txVars, up, cardVars>>

Created == IF host.why = "attach" THEN "tx" ELSE "mtu"

\* Without memory for the request retval stays what it was, success.
CreateNoDma ==
  /\ HostAt("dma")
  /\ HostGoto(Created)
  /\ UNCHANGED <<mailbox, table, txVars, up, cardVars>>

CreateOk ==
  /\ Ended("creating", "ok")
  /\ rx' = [rx EXCEPT ![host.i] = "active"]
  /\ defRx' = IF defRx = NoCtx THEN host.i ELSE defRx
  /\ HostGoto(Created)
  /\ UNCHANGED <<active, queues, txVars, up, cardVars>>

\* nx_fw_cmd_create_rx_ctx_free
FreeRx(i) ==
  /\ rx' = [rx EXCEPT ![i] = "none"]
  /\ active' = active - 1

CreateRefused(rc) ==
  /\ rc # "ok" /\ Ended("creating", rc)
  /\ FreeRx(host.i)
  /\ CreateFails
  /\ UNCHANGED <<queues, defRx, txVars, up, cardVars>>

-----------------------------------------------------------------------------
(* Attach: unm_nic_hw_resources and the rest of unm_nic_attach.            *)

Attach ==
  /\ HostAt("idle") /\ ~up
  /\ host' = [host EXCEPT !.pc = "create", !.why = "attach"]
  /\ UNCHANGED <<mailbox, table, txVars, up, cardVars>>

\* unm_nic_new_tx_context_prepare
TxSend ==
  /\ HostAt("tx") /\ tx = "none"
  /\ tx' = "allocated"
  /\ Send(CreateTx, "txing")
  /\ UNCHANGED <<table, defTx, up, cardVars>>

TxNoDma ==
  /\ HostAt("tx") /\ tx = "none"
  /\ tx' = "allocated"
  /\ HostGoto("rest")
  /\ UNCHANGED <<mailbox, table, defTx, up, cardVars>>

\* Mutant of Undo: the memory is freed and the card not told.
UndoFrees == host' = [host EXCEPT !.pc = "free", !.i = 0, !.fw = TRUE]

\* The receive context is destroyed again, the transmit context there is none.
Undo == host' = [host EXCEPT !.pc = "destroy", !.i = 0, !.fw = TRUE]

TxNoMemory ==
  /\ HostAt("tx")
  /\ Undo
  /\ UNCHANGED <<mailbox, table, txVars, up, cardVars>>

TxOk ==
  /\ Ended("txing", "ok")
  /\ tx' = "active" /\ defTx' = TRUE
  /\ HostGoto("rest")
  /\ UNCHANGED <<table, up, cardVars>>

TxRefused(rc) ==
  /\ rc # "ok" /\ Ended("txing", rc)
  /\ tx' = "none"
  /\ Undo
  /\ UNCHANGED <<table, defTx, up, cardVars>>

\* Buffers and interrupt: what fails takes everything down again.
AttachRest(ok) ==
  /\ HostAt("rest")
  /\ IF ok THEN HostGoto(IF host.reset THEN "queues" ELSE "idle") ELSE Undo
  /\ up' = ok
  /\ UNCHANGED <<mailbox, table, txVars, cardVars>>

-----------------------------------------------------------------------------
(* The kernel's net queues: nx_nic_multictx_alloc_rx_ctx and               *)
(* nx_nic_multictx_free_rx_ctx.                                            *)

QueueAlloc ==
  /\ HostAt("idle") /\ up
  /\ host' = [host EXCEPT !.pc = "create", !.why = "queue"]
  /\ UNCHANGED <<mailbox, table, txVars, up, cardVars>>

\* The id by which the card knows a context, zero if it has never answered.
ContextId(i) == IF rx[i] = "active" THEN i ELSE NoCtx

QueueMtu ==
  /\ HostAt("mtu")
  /\ Send(SetMtu(ContextId(host.i)), "mtuing")
  /\ UNCHANGED <<table, txVars, up, cardVars>>

QueueMtuEnd(rc) ==
  /\ Ended("mtuing", rc)
  /\ HostGoto("irq")
  /\ UNCHANGED <<table, txVars, up, cardVars>>

QueueEnd == HostGoto(IF host.why = "reset" THEN "next" ELSE "idle")

QueueReady ==
  /\ HostAt("irq")
  /\ queues' = queues \cup {host.i}
  /\ QueueEnd
  /\ UNCHANGED <<mailbox, rx, active, defRx, txVars, up, cardVars>>

\* Without an interrupt the caller gets no id, and the context stays.
QueueNoIrq ==
  /\ HostAt("irq")
  /\ QueueEnd
  /\ UNCHANGED <<mailbox, table, txVars, up, cardVars>>

\* The kernel frees the queues that it was given.
QueueFree(i) ==
  /\ HostAt("idle") /\ i \in queues /\ rx[i] # "none"
  /\ Issue(Host, DestroyRx(ContextId(i)))
  /\ host' = [host EXCEPT !.pc = "freeing", !.i = i]
  /\ UNCHANGED <<table, txVars, up, cardVars>>

\* Mutant of Undefault: the default context is left as it is.
UndefaultNot(i) == defRx

\* nx_fw_cmd_destroy_rx_ctx looks for no other context to be the default.
Undefault(i) == IF defRx = i THEN NoCtx ELSE defRx

QueueFreed(rc) ==
  /\ Ended("freeing", rc)
  /\ defRx' = Undefault(host.i)
  /\ FreeRx(host.i)
  /\ queues' = queues \ {host.i}
  /\ HostGoto("idle")
  /\ UNCHANGED <<txVars, up, cardVars>>

-----------------------------------------------------------------------------
(* Detach: unm_nic_detach, unm_nic_free_ring_context_in_fw and             *)
(* unm_nic_free_ring_context.                                              *)

Detach ==
  /\ HostAt("idle")
  /\ host' = [host EXCEPT !.pc = IF up THEN "destroy" ELSE "free",
                          !.i = 0, !.fw = TRUE]
  /\ UNCHANGED <<mailbox, table, txVars, up, cardVars>>

\* The loop runs to active_rx_ctxs.
DestroySend ==
  /\ HostAt("destroy") /\ host.i < active /\ rx[host.i] # "none" /\ host.fw
  /\ Send(DestroyRx(ContextId(host.i)), "destroying")
  /\ UNCHANGED <<table, txVars, up, cardVars>>

Destroyed ==
  /\ defRx' = Undefault(host.i)
  /\ host' = [host EXCEPT !.pc = "destroy", !.i = @ + 1]
  /\ UNCHANGED <<rx, active, queues, txVars, up, cardVars>>

DestroyEnd(rc) == Ended("destroying", rc) /\ Destroyed

DestroyNoFw ==
  /\ HostAt("destroy") /\ host.i < active /\ rx[host.i] # "none" /\ ~host.fw
  /\ Destroyed
  /\ UNCHANGED mailbox

\* A free entry is passed over without a step to the next one.
DestroyHole ==
  /\ HostAt("destroy") /\ host.i < active /\ rx[host.i] = "none"
  /\ UNCHANGED vars

DestroyTxSend ==
  /\ HostAt("destroy") /\ host.i >= active /\ tx # "none" /\ host.fw
  /\ Send(DestroyTx, "txdestroying")
  /\ UNCHANGED <<table, txVars, up, cardVars>>

DestroyTxEnd(rc) ==
  /\ Ended("txdestroying", rc)
  /\ tx' = "none" /\ defTx' = FALSE
  /\ HostGoto("free")
  /\ UNCHANGED <<table, up, cardVars>>

DestroyTxNoFw ==
  /\ HostAt("destroy") /\ host.i >= active /\ (tx = "none" \/ ~host.fw)
  /\ tx' = "none" /\ defTx' = FALSE
  /\ HostGoto("free")
  /\ UNCHANGED <<mailbox, table, up, cardVars>>

\* Where a recovery goes on.
AfterFree ==
  IF ~host.reset THEN "idle" ELSE IF host.why = "attach" THEN "queues" ELSE "up"

FreeAll ==
  /\ HostAt("free")
  /\ rx' = [i \in Ids |-> "none"] /\ active' = 0
  /\ up' = FALSE
  /\ HostGoto(AfterFree)
  /\ UNCHANGED <<mailbox, queues, defRx, txVars, cardVars>>

-----------------------------------------------------------------------------
(* A firmware reset: detach without commands, attach if the port is open,  *)
(* and nx_reset_netq_rx_queues.                                            *)

\* The card has stopped and forgets; commands under way stay unanswered.
Reset ==
  /\ HostAt("idle")
  /\ cardRx' = {} /\ cardTx' = FALSE /\ card' = Idle
  /\ host' = [host EXCEPT !.pc = IF up THEN "destroy" ELSE "free", !.i = 0,
                          !.fw = FALSE, !.reset = TRUE, !.why = "none"]
  /\ UNCHANGED <<sem, regs, caller, late, table, txVars, up>>

ResetAttach(portUp) ==
  /\ HostAt("up")
  /\ host' = [host EXCEPT !.pc = IF portUp THEN "create" ELSE "queues",
                          !.why = "attach"]
  /\ UNCHANGED <<mailbox, table, txVars, up, cardVars>>

\* Mutant of Inverted: the bit map is left as it is.
InvertedNot == queues

\* Only the ids of queues are open.
Inverted == Ids \ queues

QueuesStart ==
  /\ HostAt("queues")
  /\ host' = [host EXCEPT !.pc = "next", !.why = "reset", !.saved = queues,
                          !.todo = Cardinality(queues)]
  /\ queues' = Inverted
  /\ UNCHANGED <<mailbox, rx, active, defRx, txVars, up, cardVars>>

QueuesNext ==
  /\ HostAt("next") /\ host.todo > 0
  /\ host' = [host EXCEPT !.pc = "create", !.todo = @ - 1]
  /\ UNCHANGED <<mailbox, table, txVars, up, cardVars>>

QueuesEnd ==
  /\ HostAt("next") /\ host.todo = 0
  /\ queues' = host.saved
  /\ host' = [host EXCEPT !.pc = "idle", !.reset = FALSE, !.saved = {}]
  /\ UNCHANGED <<mailbox, rx, active, defRx, txVars, up, cardVars>>

-----------------------------------------------------------------------------
(* The card and the other callers.                                         *)

\* The card creates and destroys contexts when it answers well.
CardDoes(ok) ==
  LET o == card.op IN
  /\ CardAnswer(ok)
  /\ cardRx' = CASE ok /\ o.cmd = "create_rx" -> cardRx \cup {o.id}
                 [] ok /\ o.cmd = "destroy_rx" -> cardRx \ {o.id}
                 [] OTHER -> cardRx
  /\ cardTx' = IF ok /\ o \in {CreateTx, DestroyTx} THEN o = CreateTx ELSE cardTx
  /\ UNCHANGED <<table, txVars, up, host>>

CallerStep(c) == Command(c) /\ UNCHANGED ctxVars

CardSteps ==
  \/ CardTake /\ UNCHANGED ctxVars
  \/ \E ok \in BOOLEAN : CardDoes(ok)

OtherIssues ==
  \E c \in Callers \ {Host}, o \in Queries \cup Limits :
    Issue(c, o) /\ UNCHANGED ctxVars

OtherReturns == \E c \in Callers \ {Host} : Return(c) /\ UNCHANGED ctxVars

HostBegins ==
  \/ Attach \/ QueueAlloc \/ Detach \/ Reset
  \/ \E i \in Ids : QueueFree(i)

HostGoesOn ==
  \/ CreateAlloc \/ CreateNoMemory \/ CreateSend \/ CreateNoDma \/ CreateOk
  \/ TxSend \/ TxNoDma \/ TxNoMemory \/ TxOk
  \/ QueueMtu \/ QueueReady \/ QueueNoIrq
  \/ DestroySend \/ DestroyNoFw \/ DestroyHole \/ DestroyTxSend \/ DestroyTxNoFw
  \/ FreeAll \/ QueuesStart \/ QueuesNext \/ QueuesEnd
  \/ \E b \in BOOLEAN : AttachRest(b) \/ ResetAttach(b)
  \/ \E rc \in {"ok", "fail", "timeout"} :
       \/ CreateRefused(rc) \/ TxRefused(rc) \/ QueueMtuEnd(rc) \/ QueueFreed(rc)
       \/ DestroyEnd(rc) \/ DestroyTxEnd(rc)

CtxNext ==
  \/ HostBegins \/ HostGoesOn \/ CardSteps \/ OtherIssues \/ OtherReturns
  \/ \E c \in Callers : CallerStep(c)

\* Every thread goes on with what it has begun; the card need not.
CtxFairness == WF_vars(HostGoesOn) /\ \A c \in Callers : WF_vars(CallerStep(c))

CtxSpec == CtxInit /\ [][CtxNext]_vars /\ CtxFairness

-----------------------------------------------------------------------------
(* Properties.                                                             *)

\* What validate_dev_for_cmd lets the commands of the filters go by: the default
\* contexts exist, and active_rx_ctxs is the number of the contexts in the table.
DefaultsLive ==
  /\ active = Cardinality({i \in Ids : rx[i] # "none"})
  /\ defRx # NoCtx => rx[defRx] = "active"
  /\ defTx => tx = "active"

\* The card has no context whose rings have been freed.
CardBacked ==
  /\ cardRx \subseteq {i \in Ids : rx[i] # "none"}
  /\ cardTx => tx # "none"

\* Between two operations the ids of the net queues are those of the contexts
\* beyond the first.
QueuesKnown ==
  HostAt("idle") => queues = {i \in Ids \ {0} : rx[i] # "none"}
=============================================================================
