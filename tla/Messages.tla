------------------------------ MODULE Messages ------------------------------
(***************************************************************************)
(* What the card and the driver tell each other beside packets and CDRP    *)
(* commands: requests go to the card through the command ring, and its     *)
(* answers come in messages of the status rings, whose polls hand them to  *)
(* the waiting calls (EventWait) and to large receive offload (Lro).  A    *)
(* reset replaces the rings and wakes all who wait.                        *)
(***************************************************************************)
EXTENDS StatusRing, EventWait, Lro

CONSTANTS
  Lengths,     \* descriptors of an answer
  Contexts,    \* rings whose context may be destroyed while others live (netqueue)
  MaxMessages, \* bound: messages of the card
  MaxResets,   \* bound: resets of the card, and destructions of contexts
  MaxCmds      \* bound: requests in the command ring

ASSUME MessagesAssumption ==
  /\ Polls = Rings /\ Contexts \subseteq Rings
  /\ Lengths \subseteq 1 .. Slots - 1
  /\ {MaxMessages, MaxResets, MaxCmds} \subseteq Nat

VARIABLES
  cmds,      \* requests in the command ring
  asks,      \* requests of calls that the card works on
  offloaded, \* flows the card has, each for a context
  due,       \* messages the card will send
  found,     \* the entry the poll of a ring is about to wake, and the answer
  resets,
  removed    \* history: flows whose context was destroyed while the card or a message
             \*   knew of them

cardMind == <<cmds, asks, offloaded, due>>
otherVars == <<resets, removed>>
msgVars == <<ringVars, waitVars, lroVars, cardMind, found, otherVars>>

Answer(q, l) == [kind |-> "answer", call |-> q.call, id |-> q.id, len |-> l]
Gone(f, l) == [kind |-> "gone", flow |-> f, len |-> l]

Init ==
  /\ StatusInit /\ WaitInit /\ LroInit
  /\ cmds = <<>> /\ asks = {} /\ offloaded = {} /\ due = {}
  /\ found = [r \in Rings |-> NoCall]
  /\ resets = 0 /\ removed = {}

Total == Cardinality(UNION {{<<r, n>> : n \in DOMAIN sent[r]} : r \in Rings})
-----------------------------------------------------------------------------
(* The card.                                                               *)

\* It takes the requests in order: works on the waiters', offloads a flow or says it
\* cannot, drops all flows.
CardTakes ==
  /\ cmds # <<>> /\ cmds' = Tail(cmds)
  /\ LET q == Head(cmds) IN
     \E l \in Lengths :
       \/ /\ q.kind = "ask" /\ asks' = asks \cup {q}
          /\ UNCHANGED <<offloaded, due>>
       \/ /\ q.kind = "add" /\ offloaded' = offloaded \cup {[flow |-> q.flow, ctx |-> q.ctx]}
          /\ UNCHANGED <<asks, due>>
       \/ /\ q.kind = "add" /\ due' = due \cup {Gone(q.flow, l)}
          /\ UNCHANGED <<asks, offloaded>>
       \/ /\ q.kind = "cleanup" /\ offloaded' = {}
          /\ due' = due \cup {Gone(e.flow, l) : e \in offloaded}
          /\ UNCHANGED asks
  /\ UNCHANGED <<ringVars, waitVars, lroVars, found, otherVars>>

CardDrops(e) ==
  /\ e \in offloaded /\ offloaded' = offloaded \ {e}
  /\ \E l \in Lengths : due' = due \cup {Gone(e.flow, l)}
  /\ UNCHANGED <<ringVars, waitVars, lroVars, cmds, asks, found, otherVars>>

CardAnswers(q) ==
  /\ asks' = asks \ {q}
  /\ \E l \in Lengths : due' = due \cup {Answer(q, l)}
  /\ UNCHANGED <<ringVars, waitVars, lroVars, cmds, offloaded, found, otherVars>>

CardSends(r) ==
  /\ Total < MaxMessages
  /\ \/ \E m \in due : CardBegins(r, m) /\ due' = due \ {m}
     \/ \E f \in Flows : CardBegins(r, [kind |-> "packet", flow |-> f, len |-> 1])
                         /\ UNCHANGED due
  /\ UNCHANGED <<waitVars, lroVars, cmds, asks, offloaded, found, otherVars>>

CardGoesOn(r) ==
  /\ CardWrites(r)
  /\ UNCHANGED <<waitVars, lroVars, cardMind, found, otherVars>>
-----------------------------------------------------------------------------
(* The polls: rpc is "idle", "poll", "wake" or "offload".                  *)

Poll(r) ==
  /\ PollBegins(r) \/ PollStops(r)
  /\ UNCHANGED <<waitVars, lroVars, cardMind, found, otherVars>>

To(r, l) == rpc' = [rpc EXCEPT ![r] = l]

\* unm_process_rcv and nx_try_initiate_lro, which looks at every so manyth packet.
TakePacket(r, m) ==
  /\ m.kind = "packet"
  /\ \/ To(r, "poll") /\ UNCHANGED lroVars
     \/ To(r, "poll") /\ LroDeclines(m.flow)
     \/ To(r, "offload") /\ LroBegins(r, m.flow)
  /\ UNCHANGED <<waitVars, found>>

\* nx_status_msg_nic_response_handler and nx_os_event_wakeup_on_response.
TakeGone(r, m) ==
  /\ m.kind = "gone" /\ To(r, "poll") /\ LroResponse(m.flow)
  /\ UNCHANGED <<waitVars, found>>

TakeAnswer(r, m) ==
  /\ m.kind = "answer" /\ To(r, "wake")
  /\ \E c \in Found(m.id) : found' = [found EXCEPT ![r] = c]
  /\ UNCHANGED <<waitVars, lroVars>>

\* What the first descriptor of a message that is taken whole says.
Take(r) ==
  /\ TakeMessage(r)
  /\ LET m == sent[r][First(r).m] IN
     TakePacket(r, m) \/ TakeGone(r, m) \/ TakeAnswer(r, m)
  /\ UNCHANGED <<cardMind, otherVars>>

Wake(r) ==
  /\ rpc[r] = "wake" /\ To(r, "poll")
  /\ Wakes(found[r], sent[r][Len(handled[r])].call)
  /\ found' = [found EXCEPT ![r] = NoCall]
  /\ UNCHANGED <<desc, cardSide, pollSide, bits, list, wpc, comp, seen, waitHistory,
                 lroVars, cardMind, otherVars>>

\* The request of nx_initiate_lro; the command ring may be full.
Offload(r) ==
  /\ rpc[r] = "offload" /\ To(r, "poll")
  /\ \/ /\ Len(cmds) < MaxCmds /\ LroSent(r)
        /\ cmds' = Append(cmds, [kind |-> "add", flow |-> hand[r], ctx |-> r])
     \/ LroSendFails(r) /\ UNCHANGED cmds
  /\ UNCHANGED <<desc, cardSide, pollSide, waitVars, asks, offloaded, due, found, otherVars>>
-----------------------------------------------------------------------------
(* The threads.                                                            *)

Wait(c) ==
  /\ \/ WaitStep(c) /\ UNCHANGED cmds
     \/ /\ RequestSent(c) /\ Len(cmds) < MaxCmds
        /\ cmds' = Append(cmds, [kind |-> "ask", call |-> c, id |-> comp[c]])
  /\ UNCHANGED <<ringVars, lroVars, asks, offloaded, due, found, otherVars>>

\* nx_write_lro_state; the request to drop all flows comes first.
SetState(on) ==
  /\ LroSetState(on)
  /\ IF on THEN UNCHANGED cmds
     ELSE Len(cmds) < MaxCmds /\ cmds' = Append(cmds, [kind |-> "cleanup"])
  /\ UNCHANGED <<ringVars, waitVars, asks, offloaded, due, found, otherVars>>

Known(r) ==
  {e.flow : e \in {x \in offloaded \cup table : x.ctx = r}}

\* nx_nic_multictx_free_rx_ctx, from the destruction in the card on; the poll of its
\* ring may still run.
DestroyCtx(r) ==
  /\ r \in Contexts /\ resets < MaxResets /\ resets' = resets + 1
  /\ LroDeleteCtx(r)
  /\ offloaded' = {e \in offloaded : e.ctx # r}
  /\ removed' = removed \cup Known(r)
  /\ UNCHANGED <<ringVars, waitVars, cmds, asks, due, found>>

\* A reset: polls are off, requests and messages are lost, and what the card knew.
Reset ==
  /\ resets < MaxResets /\ resets' = resets + 1
  /\ \A r \in Rings : rpc[r] = "idle"
  /\ DetachWakes /\ LroRenewed /\ RingsRenewed
  /\ cmds' = <<>> /\ asks' = {} /\ offloaded' = {} /\ due' = {}
  /\ UNCHANGED <<found, removed>>

Next ==
  \/ CardTakes \/ Reset
  \/ \E e \in offloaded : CardDrops(e)
  \/ \E c \in Calls : Wait(c)
  \/ \E q \in asks : CardAnswers(q)
  \/ \E r \in Rings :
       CardSends(r) \/ CardGoesOn(r) \/ Poll(r) \/ Take(r) \/ Wake(r) \/ Offload(r)
         \/ DestroyCtx(r)
  \/ \E on \in BOOLEAN : SetState(on)

Spec == Init /\ [][Next]_msgVars
-----------------------------------------------------------------------------
\* Every entry of the pool is in the table once or on the free list once, and the pool
\* counts the former (nx_mem_pool_free and nx_mem_pool_destroy call BUG otherwise).
\* Only where the context of a flow was destroyed is an entry ever freed twice
\* (nx_initiate_lro, when its request fails).
PoolExact ==
  IF twice = 0 THEN allocated = Cardinality(table) /\ free + allocated = MaxLro
  ELSE removed # {}

\* What the driver's table says is what the card does: every flow the card offloads, or
\* is asked to, has an entry, and every entry is of a flow that a poll is about to ask
\* for, that the card has or was asked for, or whose end a message will tell - but for
\* flows of destroyed contexts (nx_initiate_lro, nx_handle_lro_response,
\* nx_lro_delete_ctx_lro and the cleanup around a reset).
TableMatches ==
  LET known == {e.flow : e \in offloaded}
                 \cup {cmds[k].flow : k \in {j \in DOMAIN cmds : cmds[j].kind = "add"}}
      ending == {m.flow : m \in {x \in due : x.kind = "gone"}}
                 \cup UNION {{sent[r][k].flow : k \in {j \in DOMAIN sent[r] :
                        j > Len(handled[r]) /\ sent[r][j].kind = "gone"}} : r \in Rings}
      Like(f) == {g \in Flows : <<f, g>> \in SameKey}
  IN \A f \in Flows :
       Like(f) \cap removed = {} =>
         /\ f \in known => \E e \in table : e.flow = f
         /\ (\E e \in table : e.flow = f) =>
              f \in known \cup ending \cup {hand[r] : r \in Rings}

\* The three records of a flow - pool, table and card - agree.
FlowsMatch == PoolExact /\ TableMatches
=============================================================================
