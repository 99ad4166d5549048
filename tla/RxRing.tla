------------------------------- MODULE RxRing -------------------------------
(***************************************************************************)
(* Receive buffers of one rds ring (driver/unm_nic_main.c).  The driver    *)
(* owns MaxRxDescCount buffers.  A buffer is posted to the card in a       *)
(* descriptor of the ring, comes back in a message of a status ring, is    *)
(* put on the free list of the poll that handled the message, moves from   *)
(* there to the ring's shared free list, and is posted again by the one    *)
(* thread that owns the ring's posting flag.                               *)
(*                                                                         *)
(* The threads are Cpus, the polls of the status rings (process_rxbuffer,  *)
(* unm_process_rcv, nx_post_freed_rxbufs), and Opener, the thread that     *)
(* brings the interface up and fills the ring (unm_post_rx_buffers).  The  *)
(* card is the environment: it takes published descriptors in order, one   *)
(* for a packet or several for a chained LRO packet, and sends a message   *)
(* to any status ring.                                                     *)
(***************************************************************************)
EXTENDS Naturals, Sequences, FiniteSets

CONSTANTS
  MaxRxDescCount,  \* descriptors and buffers of the ring
  PostThreshold,   \* NX_NIC_RX_POST_THRES
  MaxChain,        \* buffers of a chained LRO packet (bound)
  Cpus, Opener,    \* threads
  OpenMayFail      \* may an allocation fail while the interface is opened?

Threads == Cpus \cup {Opener}
Buffers == 0 .. MaxRxDescCount - 1

ASSUME RingAssumption ==
  /\ MaxRxDescCount \in Nat \ {0}
  /\ PostThreshold \in Nat
  /\ MaxChain \in Nat \ {0}
  /\ Opener \notin Cpus
  /\ OpenMayFail \in BOOLEAN

VARIABLES
  desc,          \* referenceHandle of each descriptor of the ring
  producer,      \* host_rds_ring->producer
  cardCons,      \* the next descriptor the card takes
  published,     \* descriptors the producer register shows, not taken yet
  hasSkb,        \* buffer->skb # NULL, and buffer->state = BUSY
  allocFailures, \* host_rds_ring->alloc_failures
  shared, sharedCount,  \* host_rds_ring->free_rxbufs: list and count
  posting,       \* host_rds_ring->posting
  local, localCount,    \* host_sds_ring->free_rbufs: list and count
  messages,      \* messages of each status ring, each a sequence of buffers
  pc,            \* where each thread is
  cur,           \* buffers of the message a poll is working on
  toPost, toPostCount,  \* free_list of nx_post_rx_descriptors
  prod, count    \* its locals producer and count

cardVars == <<desc, cardCons, published, messages>>
sharedVars == <<shared, sharedCount, posting>>
localVars == <<local, localCount>>
postVars == <<toPost, toPostCount, prod, count>>
vars == <<cardVars, producer, hasSkb, allocFailures, sharedVars, localVars,
          pc, cur, postVars>>

GoTo(t, l) == pc' = [pc EXCEPT ![t] = l]

\* The descriptor n places after i (get_next_index,
\* get_index_range).
Advance(i, n) == (i + n) % MaxRxDescCount

AllBuffers == [k \in 1 .. MaxRxDescCount |-> k - 1]

\* initialize_adapter_sw: every buffer is free, empty and in the shared list.
Init ==
  /\ desc = [i \in Buffers |-> 0]
  /\ producer = 0 /\ cardCons = 0 /\ published = 0
  /\ hasSkb = [b \in Buffers |-> FALSE]
  /\ allocFailures = 0
  /\ shared = AllBuffers /\ sharedCount = MaxRxDescCount
  /\ posting = FALSE
  /\ local = [c \in Cpus |-> <<>>] /\ localCount = [c \in Cpus |-> 0]
  /\ messages = [c \in Cpus |-> <<>>]
  /\ pc = [t \in Threads |-> IF t = Opener THEN "open" ELSE "idle"]
  /\ cur = [c \in Cpus |-> <<>>]
  /\ toPost = [t \in Threads |-> <<>>]
  /\ toPostCount = [t \in Threads |-> 0]
  /\ prod = [t \in Threads |-> 0] /\ count = [t \in Threads |-> 0]

-----------------------------------------------------------------------------
(* nx_post_rx_descriptors, run by the thread that set posting.             *)

\* The section under buf_post_lock: the whole shared list becomes the
\* thread's own, and posting is set.
Take(t, list, n) ==
  /\ toPost' = [toPost EXCEPT ![t] = list]
  /\ toPostCount' = [toPostCount EXCEPT ![t] = n]
  /\ shared' = <<>> /\ sharedCount' = 0
  /\ posting' = TRUE
  /\ prod' = [prod EXCEPT ![t] = producer]
  /\ count' = [count EXCEPT ![t] = 0]
  /\ GoTo(t, "post")

\* The buffer has an skb, or one is allocated for it now.
MayPost(t, ok) == hasSkb[Head(toPost[t])] \/ ok

\* alloc_failures after a buffer got its skb at last.
Undo(n) == IF n > 0 THEN n - 1 ELSE 0

PostOne(t, ok) ==
  LET b == Head(toPost[t]) IN
  /\ pc[t] = "post" /\ toPost[t] # <<>>
  /\ MayPost(t, ok)
  /\ desc' = [desc EXCEPT ![prod[t]] = b]
  /\ prod' = [prod EXCEPT ![t] = Advance(@, 1)]
  /\ count' = [count EXCEPT ![t] = @ + 1]
  /\ toPost' = [toPost EXCEPT ![t] = Tail(@)]
  /\ allocFailures' = IF hasSkb[b] THEN allocFailures ELSE Undo(allocFailures)
  /\ hasSkb' = [hasSkb EXCEPT ![b] = @ \/ ok]
  /\ UNCHANGED <<cardCons, published, messages, producer, sharedVars,
                 localVars, pc, cur, toPostCount>>

\* Mutant of PostPutBack: the leftovers are not put back.
PostPutBackDrops(t) ==
  /\ pc[t] = "post"
  /\ toPost[t] # <<>> =>
       ~hasSkb[Head(toPost[t])] /\ (t = Opener => OpenMayFail)
  /\ toPost' = [toPost EXCEPT ![t] = <<>>]
  /\ toPostCount' = [toPostCount EXCEPT ![t] = 0]
  /\ GoTo(t, "publish")
  /\ UNCHANGED <<cardVars, producer, hasSkb, allocFailures, sharedVars,
                 localVars, cur, prod, count>>

\* The list is done, or the allocation for its first buffer fails: what is
\* left, buffers with an skb behind the first one too, goes to the tail of
\* the shared list under buf_post_lock.
PostPutBack(t) ==
  LET left == toPostCount[t] - count[t] IN
  /\ pc[t] = "post"
  /\ toPost[t] # <<>> =>
       ~hasSkb[Head(toPost[t])] /\ (t = Opener => OpenMayFail)
  /\ shared' = shared \o toPost[t]
  /\ sharedCount' = IF toPost[t] = <<>> THEN sharedCount
                                        ELSE sharedCount + left
  /\ toPost' = [toPost EXCEPT ![t] = <<>>]
  /\ toPostCount' = [toPostCount EXCEPT ![t] = 0]
  /\ GoTo(t, "publish")
  /\ UNCHANGED <<cardVars, producer, hasSkb, allocFailures, posting,
                 localVars, cur, prod, count>>

\* Mutant of PostPublish: the host's producer index is not stored.
PostPublishForgets(t) ==
  /\ pc[t] = "publish"
  /\ published' = published + count[t]
  /\ prod' = [prod EXCEPT ![t] = 0] /\ count' = [count EXCEPT ![t] = 0]
  /\ GoTo(t, "done")
  /\ UNCHANGED <<desc, cardCons, messages, producer, hasSkb, allocFailures,
                 sharedVars, localVars, cur, toPost, toPostCount>>

\* The host's index and, when something was written, the card's register.
PostPublish(t) ==
  /\ pc[t] = "publish"
  /\ producer' = prod[t]
  /\ published' = published + count[t]
  /\ prod' = [prod EXCEPT ![t] = 0] /\ count' = [count EXCEPT ![t] = 0]
  /\ GoTo(t, "done")
  /\ UNCHANGED <<desc, cardCons, messages, hasSkb, allocFailures, sharedVars,
                 localVars, cur, toPost, toPostCount>>

\* Mutant of PostDone: the flag stays set.
PostDoneKeepsFlag(t) ==
  /\ pc[t] = "done"
  /\ GoTo(t, IF t = Opener THEN "opened" ELSE "idle")
  /\ UNCHANGED <<cardVars, producer, hasSkb, allocFailures, sharedVars,
                 localVars, cur, postVars>>

\* posting is cleared without the lock, with no second look at the shared
\* list, to which other polls may have added meanwhile.
PostDone(t) ==
  /\ pc[t] = "done"
  /\ posting' = FALSE
  /\ GoTo(t, IF t = Opener THEN "opened" ELSE "idle")
  /\ UNCHANGED <<cardVars, producer, hasSkb, allocFailures, shared,
                 sharedCount, localVars, cur, postVars>>

\* unm_post_rx_buffers, before interrupts are enabled.
Open ==
  /\ pc[Opener] = "open"
  /\ IF posting \/ shared = <<>>
       THEN /\ GoTo(Opener, "opened")
            /\ UNCHANGED <<sharedVars, postVars>>
       ELSE Take(Opener, shared, sharedCount)
  /\ UNCHANGED <<cardVars, producer, hasSkb, allocFailures, localVars, cur>>

\* The interface is detached after its polls have stopped: the skbs are
\* freed (nx_free_rx_resources), and attaching it again initialises the ring.
Detach ==
  /\ pc[Opener] = "opened"
  /\ \A c \in Cpus : pc[c] = "idle"
  /\ desc' = [i \in Buffers |-> 0]
  /\ producer' = 0 /\ cardCons' = 0 /\ published' = 0
  /\ hasSkb' = [b \in Buffers |-> FALSE] /\ allocFailures' = 0
  /\ shared' = AllBuffers /\ sharedCount' = MaxRxDescCount
  /\ local' = [c \in Cpus |-> <<>>] /\ localCount' = [c \in Cpus |-> 0]
  /\ messages' = [c \in Cpus |-> <<>>]
  /\ GoTo(Opener, "open")
  /\ UNCHANGED <<posting, cur, postVars>>

-----------------------------------------------------------------------------
(* unm_process_rcv_ring: the messages, then nx_post_freed_rxbufs.          *)

\* The poll of a status ring runs, for whatever reason it was scheduled.
PollStart(c) ==
  /\ pc[Opener] = "opened"
  /\ pc[c] = "idle"
  /\ GoTo(c, "rcv")
  /\ UNCHANGED <<cardVars, producer, hasSkb, allocFailures, sharedVars,
                 localVars, cur, postVars>>

\* Fewer than PostThreshold buffers are not known to lack an skb.
LowOnBuffers == MaxRxDescCount < allocFailures + PostThreshold

\* The buffer goes to the poll's own free list.
FreeBuffer(c, b) ==
  /\ local' = [local EXCEPT ![c] = Append(@, b)]
  /\ localCount' = [localCount EXCEPT ![c] = @ + 1]

\* A packet in one buffer while buffers are low: it is not delivered and its
\* buffer keeps the skb.
RcvRecycle(c) ==
  /\ pc[c] = "rcv" /\ cur[c] = <<>> /\ messages[c] # <<>>
  /\ Len(Head(messages[c])) = 1
  /\ LowOnBuffers
  /\ FreeBuffer(c, Head(Head(messages[c])))
  /\ messages' = [messages EXCEPT ![c] = Tail(@)]
  /\ UNCHANGED <<desc, cardCons, published, producer, hasSkb, allocFailures,
                 sharedVars, pc, cur, postVars>>

\* The poll works on a message whose packet is delivered.
Accept(c) ==
  /\ pc[c] = "rcv" /\ cur[c] = <<>>
  /\ cur' = [cur EXCEPT ![c] = Head(messages[c])]
  /\ messages' = [messages EXCEPT ![c] = Tail(@)]
  /\ UNCHANGED <<desc, cardCons, published, producer, hasSkb, allocFailures,
                 sharedVars, localVars, pc, postVars>>

RcvPacket(c) ==
  /\ messages[c] # <<>> /\ Len(Head(messages[c])) = 1
  /\ ~LowOnBuffers
  /\ Accept(c)

\* A chained LRO packet is delivered without a look at the counter.
RcvChained(c) ==
  /\ messages[c] # <<>> /\ Len(Head(messages[c])) > 1
  /\ Accept(c)

\* process_rxbuffer: the skb goes to the stack and the buffer gets a new one,
\* unless the allocation fails, which is counted.
RcvBuffer(c, ok) ==
  LET b == Head(cur[c]) IN
  /\ pc[c] = "rcv" /\ cur[c] # <<>>
  /\ hasSkb' = [hasSkb EXCEPT ![b] = ok]
  /\ allocFailures' = IF ok THEN allocFailures ELSE allocFailures + 1
  /\ FreeBuffer(c, b)
  /\ cur' = [cur EXCEPT ![c] = Tail(@)]
  /\ UNCHANGED <<cardVars, producer, sharedVars, pc, postVars>>

\* The budget is used or no message is ready.
RcvEnd(c) ==
  /\ pc[c] = "rcv" /\ cur[c] = <<>>
  /\ GoTo(c, "free")
  /\ UNCHANGED <<cardVars, producer, hasSkb, allocFailures, sharedVars,
                 localVars, cur, postVars>>

\* Neither list holds a buffer: the shared one is looked at without the lock.
PostSkip(c) ==
  /\ pc[c] = "free"
  /\ sharedCount = 0 /\ localCount[c] = 0
  /\ GoTo(c, "idle")
  /\ UNCHANGED <<cardVars, producer, hasSkb, allocFailures, sharedVars,
                 localVars, cur, postVars>>

\* Mutant of MayTake: posting is not looked at.
MayTakeAlways(n) == n > 0

\* Nobody posts, and there is something to post.
MayTake(n) == ~posting /\ n > 0

\* The shared count after the splice of the poll's own list.
Added(c) == sharedCount + localCount[c]

\* Under buf_post_lock the poll's list is spliced into the shared one, which
\* the poll takes as a whole unless somebody else is posting.
PostSplice(c) ==
  /\ pc[c] = "free"
  /\ sharedCount > 0 \/ localCount[c] > 0
  /\ IF MayTake(Added(c))
       THEN Take(c, shared \o local[c], Added(c))
       ELSE /\ shared' = shared \o local[c]
            /\ sharedCount' = Added(c)
            /\ GoTo(c, "idle")
            /\ UNCHANGED <<posting, postVars>>
  /\ local' = [local EXCEPT ![c] = <<>>]
  /\ localCount' = [localCount EXCEPT ![c] = 0]
  /\ UNCHANGED <<cardVars, producer, hasSkb, allocFailures, cur>>

-----------------------------------------------------------------------------
\* The card fills n buffers and tells status ring c.
CardReceive(c, n) ==
  /\ n <= published
  /\ messages' = [messages EXCEPT ![c] =
       Append(@, [k \in 1..n |-> desc[Advance(cardCons, k - 1)]])]
  /\ cardCons' = Advance(cardCons, n)
  /\ published' = published - n
  /\ UNCHANGED <<desc, producer, hasSkb, allocFailures, sharedVars, localVars,
                 pc, cur, postVars>>

Post(t) ==
  \/ \E ok \in BOOLEAN : PostOne(t, ok)
  \/ PostPutBack(t) \/ PostPublish(t) \/ PostDone(t)

PollGoesOn(c) ==
  \/ RcvRecycle(c) \/ RcvPacket(c) \/ RcvChained(c) \/ RcvEnd(c)
  \/ \E ok \in BOOLEAN : RcvBuffer(c, ok)
  \/ PostSkip(c) \/ PostSplice(c) \/ Post(c)

Next ==
  \/ Open \/ Post(Opener) \/ Detach
  \/ \E c \in Cpus : PollStart(c) \/ PollGoesOn(c)
  \/ \E c \in Cpus, n \in 1 .. MaxChain : CardReceive(c, n)

Spec == Init /\ [][Next]_vars

\* Polls that run go on running.  No poll has to start, no packet has to come.
Fairness == \A c \in Cpus : WF_vars(PollGoesOn(c))

FairSpec == Spec /\ Fairness

-----------------------------------------------------------------------------
(* Properties.                                                             *)

PostingPcs == {"post", "publish", "done"}

\* Types of the rings, the lists and the counts.
TypeOK ==
  /\ desc \in [Buffers -> Buffers]
  /\ producer \in Buffers /\ cardCons \in Buffers /\ published \in Nat
  /\ hasSkb \in [Buffers -> BOOLEAN]
  /\ allocFailures \in Nat
  /\ shared \in Seq(Buffers) /\ sharedCount \in Nat
  /\ posting \in BOOLEAN
  /\ local \in [Cpus -> Seq(Buffers)] /\ localCount \in [Cpus -> Nat]
  /\ messages \in [Cpus -> Seq(Seq(Buffers))]
  /\ pc \in [Threads -> {"open", "opened", "idle", "rcv", "free"}
                          \cup PostingPcs]
  /\ cur \in [Cpus -> Seq(Buffers)]
  /\ toPost \in [Threads -> Seq(Buffers)]
  /\ toPostCount \in [Threads -> Nat]
  /\ prod \in [Threads -> Buffers] /\ count \in [Threads -> Nat]

\* One thread at a time posts to the ring, and posting says whether one does,
\* although it is cleared outside of buf_post_lock (line 7780).
OnePoster ==
  /\ posting <=> \E t \in Threads : pc[t] \in PostingPcs
  /\ \A t, u \in Threads :
       pc[t] \in PostingPcs /\ pc[u] \in PostingPcs => t = u

\* The counts that nx_post_freed_rxbufs reads, partly without a lock, are the
\* lengths of the lists, and what a poster still has is what it took less
\* what it posted.
CountsMatch ==
  /\ sharedCount = Len(shared)
  /\ \A c \in Cpus : localCount[c] = Len(local[c])
  /\ \A t \in Threads : pc[t] = "post" =>
       toPostCount[t] = Len(toPost[t]) + count[t]

\* The buffers in descriptors that are written and not taken by the card.
OnRing ==
  LET unpublished == IF posting
        THEN count[CHOOSE t \in Threads : pc[t] \in PostingPcs] ELSE 0
  IN [k \in 1 .. published + unpublished |-> desc[Advance(cardCons, k - 1)]]

Elements(s) == {s[k] : k \in DOMAIN s}

\* Buffers that hold a packet for the host, and those free to be posted.
Filled ==
  UNION {Elements(cur[c]) \cup UNION {Elements(m) : m \in Elements(messages[c])}
         : c \in Cpus}
Free ==
  Elements(shared) \cup (UNION {Elements(toPost[t]) : t \in Threads})
                   \cup (UNION {Elements(local[c]) : c \in Cpus})

\* A buffer the card may write to, or reports as written, has an skb: the
\* branch of process_rxbuffer marked "This should not happen and if it does,
\* it is serious" (line 7046) is unreachable.
PostedHasSkb == \A b \in Elements(OnRing) \cup Filled : hasSkb[b]

\* alloc_failures never exceeds the number of buffers without an skb, so no
\* packet is dropped for a shortage that is not there, and ring_size -
\* alloc_failures does not wrap (line 7161).
AllocFailuresReal ==
  allocFailures <= Cardinality({b \in Buffers : ~hasSkb[b]})

\* A buffer in the shared list is taken to be posted in the end, as long as
\* the polls keep coming: a poll that finds posting set relies on the poster's
\* clearing it and on a later poll (nx_post_freed_rxbufs).
SharedListServed ==
  (\A c \in Cpus : []<>(pc[c] = "rcv")) =>
    \A b \in Buffers : b \in Elements(shared) ~> b \notin Elements(shared)

\* Where the buffer is: each place is a list and a position in it.
Positions(b, s) == {k \in DOMAIN s : s[k] = b}
Places(b) ==
  {<<"ring", k>> : k \in Positions(b, OnRing)}
    \cup {<<"shared", k>> : k \in Positions(b, shared)}
    \cup (UNION {{<<"toPost", t, k>> : k \in Positions(b, toPost[t])} : t \in Threads})
    \cup (UNION {{<<"local", c, k>> : k \in Positions(b, local[c])} : c \in Cpus})
    \cup (UNION {{<<"cur", c, k>> : k \in Positions(b, cur[c])} : c \in Cpus})
    \cup (UNION {UNION {{<<"message", c, m, k>> : k \in Positions(b, messages[c][m])}
                        : m \in DOMAIN messages[c]} : c \in Cpus})

\* Every buffer is in exactly one place: on the ring, in a message, with a
\* poll, in a free list or with the poster.  None is lost when the posting
\* stops half way, none is posted twice (nx_post_rx_descriptors,
\* nx_post_freed_rxbufs).  One that the card may write to, or reports as
\* written, has an skb, and the shortage counted for the others is real.
BufferAccounted ==
  /\ \A b \in Buffers : Cardinality(Places(b)) = 1
  /\ PostedHasSkb
  /\ AllocFailuresReal

Pool == INSTANCE BufferPool WITH free <- Free, ring <- OnRing, filled <- Filled

\* The receive side implements the pool: a descriptor is not overwritten
\* before the card took it, and the card sees the buffers in posting order.
BuffersGoRound == Pool!Spec

=============================================================================
