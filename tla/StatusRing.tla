----------------------------- MODULE StatusRing -----------------------------
(***************************************************************************)
(* The status rings (unm_process_rcv_ring of driver/unm_nic_main.c).  The  *)
(* card writes messages of one or several descriptors, one descriptor      *)
(* after the other, and hands each over by its owner bits.  The poll of a  *)
(* ring reads a message only once its last descriptor is the host's, gives *)
(* all of its descriptors back, and tells the card by the consumer         *)
(* register when it stops.  What a message makes the driver do is left to  *)
(* the module that extends this one.                                       *)
(***************************************************************************)
EXTENDS Naturals, Sequences

CONSTANTS
  Rings,
  Slots,    \* MaxRxDescCount
  Budget    \* work_to_do of a poll

Indices == 0 .. Slots - 1

ASSUME StatusAssumption == Slots \in Nat \ {0} /\ Budget \in Nat \ {0}

VARIABLES
  desc,      \* of each ring, each descriptor: owner, message (its number), part
  cardProd,  \* the card's place, and the part of its last message it writes next
  cardPart,  \*   (0: none)
  register,  \* host_sds_consumer
  consumer,  \* host_sds_ring->consumer, during a poll its local copy
  count,     \* its local count
  rpc,       \* where the poll of the ring is
  sent,      \* history: the messages of the card
  handled    \* history: the descriptors of each message that was read

cardSide == <<cardProd, cardPart, sent>>
pollSide == <<register, consumer, count, handled>>
ringVars == <<desc, cardSide, pollSide, rpc>>

Step(i, n) == (i + n) % Slots

StatusInit ==
  /\ desc = [r \in Rings |-> [i \in Indices |-> [host |-> FALSE, m |-> 0, part |-> 0]]]
  /\ cardProd = [r \in Rings |-> 0] /\ cardPart = [r \in Rings |-> 0]
  /\ register = [r \in Rings |-> 0] /\ consumer = [r \in Rings |-> 0]
  /\ count = [r \in Rings |-> 0] /\ rpc = [r \in Rings |-> "idle"]
  /\ sent = [r \in Rings |-> <<>>] /\ handled = [r \in Rings |-> <<>>]

\* The card keeps one descriptor free.  A message is a record with its number of
\* descriptors, len, and what it says.
CardRoom(r) == (register[r] + Slots - cardProd[r] - 1) % Slots

CardBegins(r, m) ==
  /\ cardPart[r] = 0 /\ CardRoom(r) >= m.len
  /\ sent' = [sent EXCEPT ![r] = Append(@, m)]
  /\ cardPart' = [cardPart EXCEPT ![r] = 1]
  /\ UNCHANGED <<desc, cardProd, pollSide, rpc>>

CardWrites(r) ==
  LET m == Len(sent[r]) IN
  /\ cardPart[r] # 0
  /\ desc' = [desc EXCEPT ![r][cardProd[r]] =
                [host |-> TRUE, m |-> m, part |-> cardPart[r]]]
  /\ cardProd' = [cardProd EXCEPT ![r] = Step(@, 1)]
  /\ cardPart' = [cardPart EXCEPT ![r] = IF @ = sent[r][m].len THEN 0 ELSE @ + 1]
  /\ UNCHANGED <<sent, pollSide, rpc>>
-----------------------------------------------------------------------------
PollBegins(r) ==
  /\ rpc[r] = "idle" /\ \E i \in Indices : desc[r][i].host
  /\ rpc' = [rpc EXCEPT ![r] = "poll"]
  /\ count' = [count EXCEPT ![r] = 0]
  /\ UNCHANGED <<desc, cardSide, register, consumer, handled>>

First(r) == desc[r][consumer[r]]

\* descCnt of the descriptor; in one that is not the first of a message, any data.
DescCnt(r) == IF First(r).part = 1 THEN sent[r][First(r).m].len ELSE 1

\* Mutant of Ready: that the first descriptor is the host's is enough.
ReadyAtOnce(r) == First(r).host

\* The first and the last descriptor of the message are the host's.
Ready(r) == First(r).host /\ desc[r][Step(consumer[r], DescCnt(r) - 1)].host

\* The last descriptor of several is of no use but for its owner.
Read(r) ==
  [k \in 1 .. (IF DescCnt(r) = 1 THEN 1 ELSE DescCnt(r) - 1) |->
     LET d == desc[r][Step(consumer[r], k - 1)] IN <<d.m, d.part>>]

\* Takes the message at the consumer, its descriptors going back to the card; the
\* conjunct Does says what its handler does.
TakeMessage(r) ==
  /\ rpc[r] = "poll" /\ count[r] < Budget /\ Ready(r)
  /\ handled' = [handled EXCEPT ![r] = Append(@, Read(r))]
  /\ desc' = [desc EXCEPT ![r] =
                [i \in Indices |->
                   IF \E k \in 0 .. DescCnt(r) - 1 : i = Step(consumer[r], k)
                   THEN [@[i] EXCEPT !.host = FALSE] ELSE @[i]]]
  /\ consumer' = [consumer EXCEPT ![r] = Step(@, DescCnt(r))]
  /\ count' = [count EXCEPT ![r] = @ + 1]
  /\ UNCHANGED <<cardSide, register>>

\* A chained packet that is there in part changes what the poll returns, but not
\* whether that is less than its budget, which alone matters.
PollStops(r) ==
  /\ rpc[r] = "poll" /\ (count[r] = Budget \/ ~Ready(r))
  /\ register' = IF count[r] > 0 THEN [register EXCEPT ![r] = consumer[r]] ELSE register
  /\ rpc' = [rpc EXCEPT ![r] = "idle"]
  /\ UNCHANGED <<desc, cardSide, consumer, count, handled>>

\* The rings of a new receive context: nothing in them is left.
RingsRenewed ==
  /\ desc' = [r \in Rings |-> [i \in Indices |-> [host |-> FALSE, m |-> 0, part |-> 0]]]
  /\ cardProd' = [r \in Rings |-> 0] /\ cardPart' = [r \in Rings |-> 0]
  /\ register' = [r \in Rings |-> 0] /\ consumer' = [r \in Rings |-> 0]
  /\ sent' = [r \in Rings |-> <<>>] /\ handled' = [r \in Rings |-> <<>>]
  /\ UNCHANGED <<count, rpc>>
-----------------------------------------------------------------------------
\* The driver handles the messages of each ring whole, once, and in the order in
\* which the card wrote them, however little of a message there is when it looks
\* (unm_process_rcv_ring, and the owner bits it leaves behind).
WholeMessages ==
  \A r \in Rings :
    /\ Len(handled[r]) <= Len(sent[r])
    /\ \A n \in DOMAIN handled[r] :
         LET len == sent[r][n].len IN
         handled[r][n] = [k \in 1 .. (IF len = 1 THEN 1 ELSE len - 1) |-> <<n, k>>]
=============================================================================
