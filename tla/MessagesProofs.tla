--------------------------- MODULE MessagesProofs ---------------------------
(***************************************************************************)
(* Proofs about Messages, of its parts StatusRing, EventWait and Lro.      *)
(*                                                                         *)
(* A status ring holds, from the consumer to the producer of the card, the *)
(* parts of the messages that follow the last one handled, in order and    *)
(* without a gap; so when the last descriptor of a message is the host's,  *)
(* all of the message is there.                                            *)
(*                                                                         *)
(* As long as no two threads met in the map of ids or in the list, the ids *)
(* in use share no bit, each waiting call stands in the list once, and a   *)
(* call that gave its id back stands behind the one that took it since.    *)
(* A call has one request or answer under way, and waits with its id until *)
(* it is woken or gives up; so the first entry with the id of an answer is *)
(* that of the call which asked.                                           *)
(*                                                                         *)
(* The entries of the table of flows have their keys alone, so that what   *)
(* removes a key removes one entry.  A flow has an entry just while one    *)
(* poll, request, offload or message speaks of it, unless a context was    *)
(* destroyed with a flow of its key.                                       *)
(***************************************************************************)
EXTENDS Messages, TLAPS, FiniteSetTheorems

\* The descriptors from one index to another.
Dist(i, j) == (j + Slots - i) % Slots

\* What a whole message reads as.
Whole(n, len) == [k \in 1 .. (IF len = 1 THEN 1 ELSE len - 1) |-> <<n, k>>]
Reads == {Whole(n, len) : n \in Nat, len \in Nat}

Reqs == [kind : {"ask"}, call : Calls, id : Nat]
            \cup [kind : {"add"}, flow : Flows \cup {NoFlow}, ctx : Rings]
            \cup [kind : {"cleanup"}]
Msgs == [kind : {"answer"}, call : Calls, id : Nat, len : 1 .. Slots - 1]
        \cup [kind : {"gone"}, flow : Flows \cup {NoFlow}, len : 1 .. Slots - 1]
        \cup [kind : {"packet"}, flow : Flows, len : 1 .. Slots - 1]

RingTypes ==
  /\ desc \in [Rings -> [Indices -> [host : BOOLEAN, m : Nat, part : Nat]]]
  /\ cardProd \in [Rings -> Indices] /\ cardPart \in [Rings -> Nat]
  /\ register \in [Rings -> Indices] /\ consumer \in [Rings -> Indices]
  /\ count \in [Rings -> Nat]
  /\ rpc \in [Rings -> {"idle", "poll", "wake", "offload"}]
  /\ sent \in [Rings -> Seq(Msgs)] /\ handled \in [Rings -> Seq(Reads)]

CardTypes ==
  /\ cmds \in Seq(Reqs) /\ asks \subseteq {q \in Reqs : q.kind = "ask"}
  /\ offloaded \subseteq [flow : Flows \cup {NoFlow}, ctx : Rings] /\ due \subseteq Msgs
  /\ hand \in [Rings -> Flows \cup {NoFlow}] /\ comp \in [Calls -> Nat]

\* What the card writes next.
NextMsg(r) == IF cardPart[r] = 0 THEN Len(sent[r]) + 1 ELSE Len(sent[r])
NextPart(r) == IF cardPart[r] = 0 THEN 1 ELSE cardPart[r]
Left(r) == IF cardPart[r] = 0 THEN 0 ELSE sent[r][Len(sent[r])].len - cardPart[r] + 1

At(r, i) == Dist(consumer[r], i)
Ahead(r) == At(r, cardProd[r])
LenOf(r, i) == sent[r][desc[r][i].m].len

\* The descriptors of the host are those from consumer to producer, parts of messages
\* of the card.
HostParts(r) ==
  \A i \in Indices :
    /\ desc[r][i].host <=> At(r, i) < Ahead(r)
    /\ desc[r][i].host => /\ desc[r][i].m \in 1 .. Len(sent[r])
                          /\ desc[r][i].part \in 1 .. LenOf(r, i)

\* They follow each other, within a message and from one to the next.
Consecutive(r) ==
  \A i, j \in Indices :
    desc[r][i].host /\ desc[r][j].host /\ At(r, i) <= At(r, j) =>
      LET n == At(r, j) - At(r, i) IN
      /\ desc[r][i].part + n <= LenOf(r, i) =>
           desc[r][j].m = desc[r][i].m /\ desc[r][j].part = desc[r][i].part + n
      /\ n = 1 /\ desc[r][i].part = LenOf(r, i) =>
           desc[r][j].m = desc[r][i].m + 1 /\ desc[r][j].part = 1

\* They begin with the message after the last that was handled, and end before what
\* the card writes next.
Begins(r) ==
  /\ desc[r][consumer[r]].host => /\ desc[r][consumer[r]].m = Len(handled[r]) + 1
                                  /\ desc[r][consumer[r]].part = 1
  /\ Ahead(r) = 0 => NextMsg(r) = Len(handled[r]) + 1 /\ NextPart(r) = 1
Ends(r) ==
  \A i \in Indices :
    desc[r][i].host /\ At(r, i) + 1 = Ahead(r) =>
      /\ desc[r][i].part = LenOf(r, i) => NextMsg(r) = desc[r][i].m + 1 /\ NextPart(r) = 1
      /\ desc[r][i].part < LenOf(r, i) =>
           NextMsg(r) = desc[r][i].m /\ NextPart(r) = desc[r][i].part + 1

\* There is room for what the card still writes of its message.
Room(r) ==
  /\ Dist(register[r], consumer[r]) + Ahead(r) + Left(r) <= Slots - 1
  /\ cardPart[r] # 0 => Len(sent[r]) > 0 /\ cardPart[r] <= sent[r][Len(sent[r])].len

Handled(r) ==
  /\ Len(handled[r]) <= Len(sent[r])
  /\ \A n \in DOMAIN handled[r] : handled[r][n] = Whole(n, sent[r][n].len)

RingOK(r) ==
  HostParts(r) /\ Consecutive(r) /\ Begins(r) /\ Ends(r) /\ Room(r) /\ Handled(r)

RingInv == RingTypes /\ CardTypes /\ \A r \in Rings : RingOK(r)
-----------------------------------------------------------------------------
(* The calls that wait.                                                    *)

\* Calls whose id the map shows, and calls with an entry in the list.
Holding == {c \in Calls : wpc[c] \in {"link", "send", "wait", "clear"}} \cup abandoned
Linked == {c \in Calls : wpc[c] \in {"send", "wait", "clear", "unlink"}} \cup abandoned

WaitTypes ==
  /\ list \in Seq(Calls)
  /\ wpc \in [Calls -> {"new", "mark", "link", "send", "wait", "clear", "unlink", "returned"}]
  /\ woken \in [Calls -> SUBSET Calls]
  /\ DOMAIN seen = Calls /\ \A c \in Calls : wpc[c] = "link" => seen[c] \in Seq(Calls)
  /\ found \in [Rings -> Calls \cup {NoCall}]
  /\ abandoned \subseteq Calls /\ \A c \in abandoned : wpc[c] = "returned"
  /\ gaveUp \subseteq Calls
  /\ \A c \in gaveUp : wpc[c] \in {"clear", "unlink", "returned"}

\* The ids that are held are in the map, nothing else is, and no two share a bit; the id
\* a call is about to mark was free when it looked.
IdsTrue ==
  /\ bits = UNION {IdBits(comp[c]) : c \in Holding}
  /\ \A c, d \in Holding : c # d => IdBits(comp[c]) \cap IdBits(comp[d]) = {}
  /\ \A c \in Calls : wpc[c] = "mark" => IdBits(comp[c]) \cap seen[c] = {}

\* The list has each entry once.
ListTrue ==
  /\ {list[k] : k \in DOMAIN list} = Linked
  /\ \A j, k \in DOMAIN list : list[j] = list[k] => j = k

\* A call that gave its id back, its entry still in the list, stands behind the one that
\* has the id now.
ListOrder ==
  \A j, k \in DOMAIN list :
    j < k /\ wpc[list[j]] = "unlink" /\ list[k] \in Holding => comp[list[j]] # comp[list[k]]

WaitInv == WaitTypes /\ (raced \/ (IdsTrue /\ ListTrue /\ ListOrder))

\* What is under way for a call: its request in the command ring, or with the card, or
\* the answer the card will send, or the one no poll has taken or a poll is about to give.
InCmds(d) == {k \in DOMAIN cmds : cmds[k].kind = "ask" /\ cmds[k].call = d}
InAsks(d) == {q \in asks : q.call = d}
InDue(d) == {m \in due : m.kind = "answer" /\ m.call = d}
Open(r) == {n \in DOMAIN sent[r] : /\ sent[r][n].kind = "answer"
                                   /\ \/ n > Len(handled[r])
                                      \/ n = Len(handled[r]) /\ rpc[r] = "wake"}
InSent(d) == {p \in Rings \X Nat : p[2] \in Open(p[1]) /\ sent[p[1]][p[2]].call = d}

AtMostOne(S) == \A x, y \in S : x = y
Alone(K, A, D, S) ==
  /\ AtMostOne(K) /\ AtMostOne(A) /\ AtMostOne(D) /\ AtMostOne(S)
  /\ K # {} => A = {} /\ D = {} /\ S = {}
  /\ A # {} => D = {} /\ S = {}
  /\ D # {} => S = {}

\* It is of a call that waits with this id, unless the call gave up; the call was not
\* given its answer.
Awaited(d, id) ==
  d \notin woken[d] /\ (d \in gaveUp \/ (wpc[d] = "wait" /\ comp[d] = id))

UnderWay(d, id) ==
  \/ \E k \in DOMAIN cmds : cmds[k].kind = "ask" /\ cmds[k].call = d /\ cmds[k].id = id
  \/ \E q \in asks : q.call = d /\ q.id = id
  \/ \E m \in due : m.kind = "answer" /\ m.call = d /\ m.id = id
  \/ \E r \in Rings : \E n \in Open(r) : sent[r][n].call = d /\ sent[r][n].id = id

AllAwaited == \A d \in Calls, id \in Nat : UnderWay(d, id) => Awaited(d, id)

\* The entry a poll is about to wake is that of the answer.
FoundRight ==
  \A r \in Rings : rpc[r] = "wake" =>
    /\ Len(handled[r]) \in Open(r)
    /\ LET d == sent[r][Len(handled[r])].call IN
       raced \/ found[r] \in {NoCall, d} \cup abandoned \/ d \in gaveUp

AllAlone == \A d \in Calls : Alone(InCmds(d), InAsks(d), InDue(d), InSent(d))
WokenLate == \A d \in Calls : d \in woken[d] => wpc[d] \in {"wait", "clear", "unlink", "returned"}

AnswerInv == AllAlone /\ WokenLate /\ AllAwaited /\ FoundRight /\ RightWaiter
-----------------------------------------------------------------------------
(* Places of a ring.                                                       *)

LEMMA DistIs ==
  ASSUME NEW i \in Indices, NEW j \in Indices
  PROVE  /\ i <= j => Dist(i, j) = j - i
         /\ j < i => Dist(i, j) = j + Slots - i
         /\ Dist(i, j) \in Nat /\ Dist(i, j) < Slots
<1>0. /\ i \in Nat /\ i < Slots /\ j \in Nat /\ j < Slots
      /\ Slots \in Nat /\ Slots > 0
  BY StatusAssumption DEF Indices
<1>1. Dist(i, j) \in Nat /\ Dist(i, j) < Slots
  BY <1>0 DEF Dist
<1>2. i <= j => Dist(i, j) = j - i
  <2> SUFFICES ASSUME i <= j PROVE (j + Slots - i) % Slots = j - i
    BY DEF Dist
  <2>1. j + Slots - i = Slots + (j - i) /\ j - i \in Nat /\ j - i < Slots
    BY <1>0
  <2>2. \A x \in Nat : x < Slots => (Slots + x) % Slots = x
    BY <1>0
  <2> QED BY <2>1, <2>2
<1>3. j < i => Dist(i, j) = j + Slots - i
  BY <1>0 DEF Dist
<1> QED BY <1>1, <1>2, <1>3

LEMMA StepIs ==
  ASSUME NEW i \in Indices, NEW n \in Nat, n < Slots
  PROVE  /\ i + n < Slots => Step(i, n) = i + n
         /\ i + n >= Slots => Step(i, n) = i + n - Slots
         /\ Step(i, n) \in Indices
         /\ Dist(i, Step(i, n)) = n
<1>0. i \in Nat /\ i < Slots /\ Slots \in Nat /\ Slots > 0
  BY StatusAssumption DEF Indices
<1>1. i + n < Slots => Step(i, n) = i + n
  BY <1>0 DEF Step
<1>2. i + n >= Slots => Step(i, n) = i + n - Slots
  BY <1>0 DEF Step
<1>3. Step(i, n) \in Indices
  BY <1>1, <1>2, StatusAssumption DEF Indices
<1>4. Dist(i, Step(i, n)) = n
  <2> DEFINE j == Step(i, n)
             d == Dist(i, j)
  <2>1. /\ i + n < Slots => j = i + n
        /\ i + n >= Slots => j = i + n - Slots
    BY <1>1, <1>2
  <2>2. /\ i <= j => d = j - i
        /\ j < i => d = j + Slots - i
    BY <1>3, DistIs
  <2> HIDE DEF j, d
  <2>3. d = n
    BY <1>0, <2>1, <2>2
  <2> QED BY <2>3 DEF d, j
<1> QED BY <1>1, <1>2, <1>3, <1>4

\* The index a number of steps away is the only one at that distance.
LEMMA StepOnly ==
  ASSUME NEW i \in Indices, NEW j \in Indices
  PROVE  /\ Step(i, Dist(i, j)) = j
         /\ \A k \in Indices : Dist(i, j) = Dist(i, k) => j = k
<1>1. Step(i, Dist(i, j)) = j
  <2> DEFINE d == Dist(i, j)
  <2>1. d \in Nat /\ d < Slots /\ (i <= j => d = j - i) /\ (j < i => d = j + Slots - i)
    BY DistIs
  <2>2. /\ i + d < Slots => Step(i, d) = i + d
        /\ i + d >= Slots => Step(i, d) = i + d - Slots
    BY <2>1, StepIs
  <2> QED BY <2>1, <2>2, StatusAssumption DEF Indices
<1>2. ASSUME NEW k \in Indices, Dist(i, j) = Dist(i, k) PROVE j = k
  <2> DEFINE d == Dist(i, j)
  <2>1. (i <= j => d = j - i) /\ (j < i => d = j + Slots - i)
    BY DistIs
  <2>2. (i <= k => d = k - i) /\ (k < i => d = k + Slots - i)
    BY <1>2, DistIs
  <2> HIDE DEF d
  <2> QED BY <2>1, <2>2, StatusAssumption DEF Indices
<1> QED BY <1>1, <1>2

\* Distances add up as long as they stay within the ring.
LEMMA DistAdds ==
  ASSUME NEW i \in Indices, NEW j \in Indices, NEW k \in Indices
  PROVE  /\ Dist(i, j) + Dist(j, k) < Slots => Dist(i, k) = Dist(i, j) + Dist(j, k)
         /\ Dist(i, j) <= Dist(i, k) => Dist(j, k) = Dist(i, k) - Dist(i, j)
         /\ Dist(i, k) < Dist(i, j) => Dist(j, k) = Dist(i, k) + Slots - Dist(i, j)
         /\ Dist(i, i) = 0
<1> DEFINE a == Dist(i, j)
           b == Dist(j, k)
           e == Dist(i, k)
<1>1. a \in Nat /\ a < Slots /\ (i <= j => a = j - i) /\ (j < i => a = j + Slots - i)
  BY DistIs
<1>2. b \in Nat /\ b < Slots /\ (j <= k => b = k - j) /\ (k < j => b = k + Slots - j)
  BY DistIs
<1>3. e \in Nat /\ e < Slots /\ (i <= k => e = k - i) /\ (k < i => e = k + Slots - i)
  BY DistIs
<1>4. Dist(i, i) = 0
  BY DistIs DEF Indices
<1> HIDE DEF a, b, e
<1>5. i \in Nat /\ j \in Nat /\ k \in Nat /\ Slots \in Nat
  BY StatusAssumption DEF Indices
<1>6. /\ a + b < Slots => e = a + b
      /\ a <= e => b = e - a
      /\ e < a => b = e + Slots - a
  BY <1>1, <1>2, <1>3, <1>5
<1> QED BY <1>4, <1>6 DEF a, b, e

\* A step of one ring leaves the others as they are.
SameRing(r) ==
  /\ desc'[r] = desc[r] /\ cardProd'[r] = cardProd[r] /\ cardPart'[r] = cardPart[r]
  /\ consumer'[r] = consumer[r] /\ sent'[r] = sent[r] /\ handled'[r] = handled[r]

LEMMA SameRingOK ==
  ASSUME NEW r \in Rings, RingOK(r), SameRing(r), register'[r] = register[r]
  PROVE  RingOK(r)'
BY SMTT(30) DEF SameRing, RingOK, HostParts, Consecutive, Begins, Ends, Room, Handled, NextMsg, NextPart,
       Left, At, Ahead, LenOf

\* What the invariant says of the numbers of a ring.
LEMMA RingNumbers ==
  ASSUME RingTypes, NEW r \in Rings
  PROVE  /\ Len(sent[r]) \in Nat /\ Len(handled[r]) \in Nat /\ cardPart[r] \in Nat
         /\ \A n \in 1 .. Len(sent[r]) : sent[r][n].len \in 1 .. Slots - 1
         /\ consumer[r] \in Indices /\ cardProd[r] \in Indices /\ register[r] \in Indices
         /\ \A i \in Indices : /\ desc[r][i].m \in Nat /\ desc[r][i].part \in Nat
                               /\ desc[r][i].host \in BOOLEAN
                               /\ At(r, i) \in Nat /\ At(r, i) < Slots
         /\ Ahead(r) \in Nat /\ Ahead(r) < Slots
         /\ At(r, consumer[r]) = 0
<1>1. consumer[r] \in Indices /\ cardProd[r] \in Indices /\ register[r] \in Indices
  BY DEF RingTypes
<1>2. \A n \in 1 .. Len(sent[r]) : sent[r][n].len \in 1 .. Slots - 1
  <2> SUFFICES ASSUME NEW n \in 1 .. Len(sent[r]) PROVE sent[r][n].len \in 1 .. Slots - 1
    OBVIOUS
  <2>1. sent[r][n] \in Msgs
    BY DEF RingTypes
  <2> QED BY <2>1 DEF Msgs
<1>3. \A i \in Indices : At(r, i) \in Nat /\ At(r, i) < Slots
  BY <1>1, DistIs DEF At
<1>4. At(r, consumer[r]) = 0
  BY <1>1, DistAdds DEF At
<1>5. Len(sent[r]) \in Nat /\ Len(handled[r]) \in Nat /\ cardPart[r] \in Nat
  BY DEF RingTypes
<1>6. \A i \in Indices : /\ desc[r][i].m \in Nat /\ desc[r][i].part \in Nat
                         /\ desc[r][i].host \in BOOLEAN
  BY DEF RingTypes
<1> QED BY <1>1, <1>2, <1>3, <1>4, <1>5, <1>6 DEF Ahead

\* The card begins a message only if all of it has room.
LEMMA BeginsKeepsRing ==
  ASSUME RingTypes, NEW r \in Rings, RingOK(r), NEW m \in Msgs, CardBegins(r, m)
  PROVE  RingOK(r)'
<1>0. /\ m.len \in Nat /\ m.len >= 1 /\ Slots \in Nat
  BY StatusAssumption DEF Msgs
<1>1. /\ cardPart[r] = 0 /\ cardPart'[r] = 1
      /\ sent'[r] = Append(sent[r], m)
      /\ Len(sent'[r]) = Len(sent[r]) + 1 /\ sent'[r][Len(sent[r]) + 1] = m
      /\ \A n \in 1 .. Len(sent[r]) : sent'[r][n] = sent[r][n]
      /\ UNCHANGED <<desc, cardProd, register, consumer, handled>>
  BY DEF CardBegins, RingTypes, pollSide
<1>2. /\ NextMsg(r)' = NextMsg(r) /\ NextPart(r)' = NextPart(r)
      /\ Ahead(r)' = Ahead(r) /\ \A i \in Indices : At(r, i)' = At(r, i)
  BY <1>1, RingNumbers DEF NextMsg, NextPart, Ahead, At
<1>3. HostParts(r)'
  BY <1>1, <1>2, RingNumbers DEF RingOK, HostParts, LenOf
<1>4. \A i \in Indices : desc[r][i].host => LenOf(r, i)' = LenOf(r, i)
  BY <1>1 DEF RingOK, HostParts, LenOf
<1>5. Consecutive(r)'
  BY <1>1, <1>2, <1>4 DEF RingOK, Consecutive
<1>6. Begins(r)' /\ Ends(r)'
  BY <1>1, <1>2, <1>4 DEF RingOK, Begins, Ends
<1>7. Room(r)'
  <2>1. Left(r)' = m.len /\ Left(r) = 0
    BY <1>0, <1>1, RingNumbers DEF Left
  <2>2. CardRoom(r) >= m.len
    BY DEF CardBegins
  <2>3. CardRoom(r) = Slots - 1 - Dist(register[r], cardProd[r])
    <3> DEFINE a == register[r]
               b == cardProd[r]
    <3>1. a \in Indices /\ b \in Indices
      BY RingNumbers
    <3> HIDE DEF a, b
    <3>2. (a + Slots - b - 1) % Slots = Slots - 1 - Dist(a, b)
      <4>1. a <= b => (a + Slots - b - 1) % Slots = a + Slots - b - 1
        BY <3>1, StatusAssumption DEF Indices
      <4>2. b < a => (a + Slots - b - 1) % Slots = a - b - 1
        BY <3>1, StatusAssumption DEF Indices
      <4> DEFINE d == Dist(a, b)
      <4>3. (a <= b => d = b - a) /\ (b < a => d = b + Slots - a)
        BY <3>1, DistIs
      <4> HIDE DEF d
      <4>4. a <= b => Slots - 1 - d = a + Slots - b - 1
        BY <3>1, <4>3, StatusAssumption DEF Indices
      <4>5. b < a => Slots - 1 - d = a - b - 1
        BY <3>1, <4>3, StatusAssumption DEF Indices
      <4>6. a <= b \/ b < a
        BY <3>1 DEF Indices
      <4> QED BY <4>1, <4>2, <4>4, <4>5, <4>6 DEF d
    <3> QED BY <3>2 DEF CardRoom, a, b
  <2>4. Dist(register[r], consumer[r]) + Ahead(r) <= Slots - 1
    BY <2>1, RingNumbers, DistIs, StatusAssumption DEF RingOK, Room
  <2>5. Dist(register[r], cardProd[r]) = Dist(register[r], consumer[r]) + Ahead(r)
    BY <1>0, <2>4, RingNumbers, DistAdds, DistIs DEF Ahead, At
  <2>6. Dist(register[r], consumer[r]) \in Nat
    BY RingNumbers, DistIs
  <2>7. Dist(register[r], consumer[r]) + Ahead(r) + m.len <= Slots - 1
    BY <1>0, <2>2, <2>3, <2>5, <2>6, RingNumbers
  <2> QED BY <1>0, <1>1, <1>2, <2>1, <2>7, RingNumbers DEF Room
<1>8. Handled(r)'
  BY <1>1, RingNumbers DEF RingOK, Handled
<1> QED BY <1>3, <1>5, <1>6, <1>7, <1>8 DEF RingOK

\* The card writes the next part into the descriptor after the last.
LEMMA WritesKeepsRing ==
  ASSUME RingTypes, NEW r \in Rings, RingOK(r), CardWrites(r)
  PROVE  RingOK(r)'
<1> DEFINE m == Len(sent[r])
           p == cardProd[r]
           len == sent[r][m].len
           part == cardPart[r]
<1>1. /\ part \in Nat /\ part > 0 /\ m \in Nat /\ m > 0 /\ part <= len
      /\ len \in 1 .. Slots - 1 /\ Slots \in Nat /\ p \in Indices
      /\ NextMsg(r) = m /\ NextPart(r) = part /\ Left(r) = len - part + 1
  <2>1. part # 0 /\ part \in Nat /\ m \in Nat /\ p \in Indices
    BY RingNumbers DEF CardWrites
  <2>2. m > 0 /\ part <= len
    BY <2>1 DEF RingOK, Room
  <2>3. len \in 1 .. Slots - 1
    BY <2>1, <2>2, RingNumbers
  <2>4. NextMsg(r) = m /\ NextPart(r) = part /\ Left(r) = len - part + 1
    BY <2>1 DEF NextMsg, NextPart, Left
  <2> QED BY <2>1, <2>2, <2>3, <2>4, StatusAssumption
<1>2. /\ desc'[r][p] = [host |-> TRUE, m |-> m, part |-> part]
      /\ \A i \in Indices \ {p} : desc'[r][i] = desc[r][i]
      /\ cardProd'[r] = Step(p, 1)
      /\ part = len => cardPart'[r] = 0
      /\ part # len => cardPart'[r] = part + 1
      /\ UNCHANGED <<sent, register, consumer, handled>>
  BY <1>1 DEF CardWrites, RingTypes, pollSide
<1>3. /\ Ahead(r) + 1 <= Slots - 1 /\ Ahead(r) \in Nat
      /\ Dist(register[r], consumer[r]) \in Nat
      /\ Dist(register[r], consumer[r]) + Ahead(r) + (len - part + 1) <= Slots - 1
  BY SMTT(30), <1>1, RingNumbers, DistIs DEF RingOK, Room
<1>4. Ahead(r)' = Ahead(r) + 1
  <2>1. 1 < Slots /\ Dist(p, Step(p, 1)) = 1 /\ Step(p, 1) \in Indices
    BY <1>1, StepIs
  <2>2. Dist(consumer[r], p) + Dist(p, Step(p, 1)) < Slots
    BY <1>1, <1>3, <2>1 DEF Ahead, At
  <2>3. Dist(consumer[r], Step(p, 1)) = Dist(consumer[r], p) + 1
    BY <1>1, <2>1, <2>2, RingNumbers, DistAdds
  <2> QED BY <1>2, <2>3 DEF Ahead, At
<1>5. /\ \A i \in Indices : At(r, i)' = At(r, i) /\ At(r, i) \in Nat
      /\ At(r, p) = Ahead(r) /\ \A i \in Indices \ {p} : At(r, i) # Ahead(r)
  BY <1>1, <1>2, RingNumbers, StepOnly DEF At, Ahead
<1>6. /\ ~desc[r][p].host
      /\ \A i \in Indices : desc[r][i].host => LenOf(r, i)' = LenOf(r, i) /\ LenOf(r, i) \in Nat
      /\ \A i \in Indices : i = p => LenOf(r, i)' = len
  <2>1. ~desc[r][p].host
    BY <1>1, <1>3, <1>5 DEF RingOK, HostParts
  <2>2. ASSUME NEW i \in Indices, desc[r][i].host
        PROVE  LenOf(r, i)' = LenOf(r, i) /\ LenOf(r, i) \in Nat
    <3>1. i # p /\ desc[r][i].m \in 1 .. Len(sent[r])
      BY <2>1, <2>2 DEF RingOK, HostParts
    <3>2. sent[r][desc[r][i].m].len \in 1 .. Slots - 1
      BY <3>1, RingNumbers
    <3> QED BY SMTT(30), <1>1, <1>2, <3>1, <3>2 DEF LenOf
  <2>3. desc'[r][p].m = m
    BY <1>2
  <2>4. \A i \in Indices : i = p => LenOf(r, i)' = len
    BY <1>2, <2>3 DEF LenOf
  <2> QED BY <2>1, <2>2, <2>4
<1>7. HostParts(r)'
  <2>1. HostParts(r)
    BY DEF RingOK
  <2>2. ASSUME NEW i \in Indices
        PROVE  /\ desc'[r][i].host <=> At(r, i) < Ahead(r) + 1
               /\ desc'[r][i].host => /\ desc'[r][i].m \in 1 .. Len(sent[r])
                                      /\ desc'[r][i].part \in 1 .. LenOf(r, i)'
    <3>1. CASE i = p
      <4>1. desc'[r][i].host /\ desc'[r][i].m = m /\ desc'[r][i].part = part
        BY <1>2, <3>1
      <4>2. At(r, i) = Ahead(r) /\ LenOf(r, i)' = len
        BY <1>5, <1>6, <3>1
      <4> QED BY <1>1, <1>3, <4>1, <4>2
    <3>2. CASE i # p
      <4>1. desc'[r][i] = desc[r][i] /\ At(r, i) # Ahead(r) /\ At(r, i) \in Nat
        BY <1>2, <1>5, <3>2
      <4> QED BY <1>3, <1>6, <2>1, <4>1 DEF HostParts
    <3> QED BY <3>1, <3>2
  <2> QED BY <1>2, <1>4, <1>5, <2>2 DEF HostParts
<1>8. Consecutive(r)'
  <2> SUFFICES ASSUME NEW i \in Indices, NEW j \in Indices,
                      desc'[r][i].host, desc'[r][j].host, At(r, i) <= At(r, j),
                      NEW n \in Nat, n = At(r, j) - At(r, i)
               PROVE  /\ desc'[r][i].part + n <= LenOf(r, i)' =>
                           /\ desc'[r][j].m = desc'[r][i].m
                           /\ desc'[r][j].part = desc'[r][i].part + n
                      /\ n = 1 /\ desc'[r][i].part = LenOf(r, i)' =>
                           desc'[r][j].m = desc'[r][i].m + 1 /\ desc'[r][j].part = 1
    <3>1. \A i, j \in Indices : At(r, i) <= At(r, j) => At(r, j) - At(r, i) \in Nat
      BY <1>5
    <3> QED BY <1>5, <3>1 DEF Consecutive
  <2>1. CASE i = p
    <3>1. At(r, i) = Ahead(r) /\ At(r, j) < Ahead(r) + 1 /\ At(r, j) \in Nat
      BY <1>4, <1>5, <1>7, <2>1 DEF HostParts
    <3>2. j = p /\ n = 0
      BY <1>3, <1>5, <2>1, <3>1
    <3> QED BY <1>1, <1>2, <2>1, <3>2
  <2>2. CASE i # p /\ j # p
    <3>1. desc'[r][i] = desc[r][i] /\ desc'[r][j] = desc[r][j]
      BY <1>2, <2>2
    <3>2. LenOf(r, i)' = LenOf(r, i)
      BY <1>6, <3>1
    <3> QED BY <3>1, <3>2 DEF RingOK, Consecutive
  <2>3. CASE i # p /\ j = p
    <3>1. desc'[r][i] = desc[r][i] /\ desc[r][i].host
      BY <1>2, <2>3
    <3>2. /\ LenOf(r, i)' = LenOf(r, i) /\ LenOf(r, i) \in Nat
          /\ desc[r][i].part \in Nat /\ desc[r][i].m \in Nat
      BY <1>6, <3>1, RingNumbers
    <3>3. /\ At(r, i) < Ahead(r) /\ n = Ahead(r) - At(r, i) /\ n >= 1
          /\ At(r, i) \in Nat /\ Ahead(r) \in Nat
      BY <1>3, <1>5, <2>3, <3>1 DEF RingOK, HostParts
    <3> DEFINE k == Step(consumer[r], Ahead(r) - 1)
    <3>4. k \in Indices /\ At(r, k) = Ahead(r) - 1
      <4>1. Ahead(r) - 1 \in Nat /\ Ahead(r) - 1 < Slots
        BY SMTT(30), <1>1, <1>3, <3>3
      <4> QED BY <4>1, RingNumbers, StepIs DEF At
    <3> HIDE DEF k
    <3>5. /\ desc[r][k].host /\ At(r, k) - At(r, i) = n - 1 /\ At(r, i) <= At(r, k)
          /\ At(r, k) + 1 = Ahead(r)
          /\ desc[r][k].part \in Nat
      <4>1. /\ At(r, k) < Ahead(r) /\ At(r, k) - At(r, i) = n - 1 /\ At(r, i) <= At(r, k)
            /\ At(r, k) + 1 = Ahead(r)
        BY <3>3, <3>4
      <4> QED BY <3>4, <4>1, RingNumbers DEF RingOK, HostParts
    <3>6. desc[r][i].part + (n - 1) <= LenOf(r, i) =>
            desc[r][k].m = desc[r][i].m /\ desc[r][k].part = desc[r][i].part + (n - 1)
      BY <3>1, <3>4, <3>5 DEF RingOK, Consecutive
    <3>7. /\ desc[r][k].part = LenOf(r, k) => m = desc[r][k].m + 1 /\ part = 1
          /\ desc[r][k].part < LenOf(r, k) => m = desc[r][k].m /\ part = desc[r][k].part + 1
      BY <1>1, <3>4, <3>5 DEF RingOK, Ends
    <3>8. desc'[r][j].m = m /\ desc'[r][j].part = part
      BY <1>2, <2>3
    <3>9. ASSUME desc[r][i].part + n <= LenOf(r, i)
          PROVE  m = desc[r][i].m /\ part = desc[r][i].part + n
      <4>1. desc[r][i].part + (n - 1) <= LenOf(r, i)
        BY <3>2, <3>3, <3>9
      <4>2. LenOf(r, k) = LenOf(r, i)
        BY <3>6, <4>1 DEF LenOf
      <4>3. desc[r][k].m = desc[r][i].m /\ desc[r][k].part = desc[r][i].part + (n - 1)
        BY <3>6, <4>1
      <4>4. desc[r][k].part < LenOf(r, k) /\ desc[r][k].part + 1 = desc[r][i].part + n
        BY <3>2, <3>3, <3>9, <4>2, <4>3
      <4> QED BY <3>7, <4>3, <4>4
    <3>10. ASSUME n = 1, desc[r][i].part = LenOf(r, i)
           PROVE  m = desc[r][i].m + 1 /\ part = 1
      <4>1. k = i
        BY <3>3, <3>4, <3>10, RingNumbers, StepOnly DEF At
      <4> QED BY <3>7, <3>10, <4>1
    <3> QED BY <3>1, <3>2, <3>8, <3>9, <3>10
  <2> QED BY <2>1, <2>2, <2>3
<1>9. Begins(r)'
  <2>1. CASE consumer[r] = p
    <3>1. Ahead(r) = 0
      BY <1>5, <2>1, RingNumbers
    <3>2. m = Len(handled[r]) + 1 /\ part = 1
      BY <1>1, <3>1 DEF RingOK, Begins
    <3> QED BY <1>2, <1>4, <2>1, <3>1, <3>2 DEF Begins
  <2>2. CASE consumer[r] # p
    <3>1. desc'[r][consumer[r]] = desc[r][consumer[r]]
      BY <1>2, <2>2, RingNumbers
    <3> QED BY <1>2, <1>3, <1>4, <3>1 DEF RingOK, Begins
  <2> QED BY <2>1, <2>2
<1>10. Ends(r)'
  <2> SUFFICES ASSUME NEW i \in Indices, At(r, i) + 1 = Ahead(r) + 1
               PROVE  /\ desc'[r][i].part = LenOf(r, i)' =>
                           NextMsg(r)' = desc'[r][i].m + 1 /\ NextPart(r)' = 1
                      /\ desc'[r][i].part < LenOf(r, i)' =>
                           NextMsg(r)' = desc'[r][i].m /\ NextPart(r)' = desc'[r][i].part + 1
    BY <1>4, <1>5 DEF Ends
  <2>1. i = p
    BY <1>3, <1>5
  <2>2. desc'[r][i].part = part /\ desc'[r][i].m = m /\ LenOf(r, i)' = len
    <3>1. desc'[r][p].part = part /\ desc'[r][p].m = m
      BY <1>2
    <3> QED BY <1>6, <2>1, <3>1
  <2>3. part = len => NextMsg(r)' = m + 1 /\ NextPart(r)' = 1
    BY <1>2 DEF NextMsg, NextPart
  <2>4. part # len => NextMsg(r)' = m /\ NextPart(r)' = part + 1
    BY <1>1, <1>2 DEF NextMsg, NextPart
  <2> QED BY <1>1, <2>2, <2>3, <2>4
<1>11. Room(r)'
  <2>1. Left(r)' = len - part
    <3>1. CASE part = len
      BY <1>1, <1>2, <3>1 DEF Left
    <3>2. CASE part # len
      BY <1>1, <1>2, <3>2 DEF Left
    <3> QED BY <3>1, <3>2
  <2>2. Dist(register[r], consumer[r]) + (Ahead(r) + 1) + (len - part) <= Slots - 1
    BY <1>1, <1>3
  <2>3. cardPart'[r] # 0 => cardPart'[r] <= len
    BY <1>1, <1>2
  <2> QED BY <1>1, <1>2, <1>4, <2>1, <2>2, <2>3 DEF Room
<1>12. Handled(r)'
  BY <1>2 DEF RingOK, Handled
<1> QED BY <1>7, <1>8, <1>9, <1>10, <1>11, <1>12 DEF RingOK

\* When the last descriptor of the message at the consumer is the host's, they all are,
\* and what is read is the next message, whole.
LEMMA MessageIsThere ==
  ASSUME RingTypes, NEW r \in Rings, RingOK(r), Ready(r)
  PROVE  LET n == Len(handled[r]) + 1
             len == sent[r][n].len
         IN /\ n \in 1 .. Len(sent[r]) /\ len \in 1 .. Slots - 1
            /\ First(r).m = n /\ DescCnt(r) = len /\ len <= Ahead(r)
            /\ \A i \in Indices : At(r, i) < len =>
                 desc[r][i].m = n /\ desc[r][i].part = At(r, i) + 1
            /\ Read(r) = Whole(n, len)
<1> DEFINE n == Len(handled[r]) + 1
           len == sent[r][n].len
           c == consumer[r]
<1>1. /\ c \in Indices /\ At(r, c) = 0 /\ Slots \in Nat /\ Slots > 0
      /\ Len(handled[r]) \in Nat /\ Len(sent[r]) \in Nat
      /\ desc[r][c].host /\ First(r) = desc[r][c]
  BY RingNumbers, StatusAssumption DEF Ready, First
<1>2. First(r).m = n /\ First(r).part = 1 /\ n \in 1 .. Len(sent[r])
  BY <1>1 DEF RingOK, Begins, HostParts
<1>3. DescCnt(r) = len /\ LenOf(r, c) = len /\ len \in 1 .. Slots - 1
  BY <1>1, <1>2, RingNumbers DEF DescCnt, LenOf
<1> HIDE DEF n, len, c
<1>4. \A k \in 0 .. len - 1 : Step(c, k) \in Indices /\ At(r, Step(c, k)) = k
  <2> SUFFICES ASSUME NEW k \in 0 .. len - 1
               PROVE  Step(c, k) \in Indices /\ At(r, Step(c, k)) = k
    OBVIOUS
  <2>1. k \in Nat /\ k < Slots
    BY <1>1, <1>3
  <2> QED BY <1>1, <2>1, StepIs DEF At, c
<1>5. len <= Ahead(r)
  <2>1. Step(c, len - 1) \in Indices /\ At(r, Step(c, len - 1)) = len - 1
    BY <1>1, <1>3, <1>4
  <2>2. desc[r][Step(c, len - 1)].host
    BY <1>3 DEF Ready, c
  <2>3. len - 1 < Ahead(r)
    BY <2>1, <2>2 DEF RingOK, HostParts
  <2> QED BY <1>1, <1>3, <2>3, RingNumbers
<1>6. ASSUME NEW i \in Indices, At(r, i) < len
      PROVE  desc[r][i].m = n /\ desc[r][i].part = At(r, i) + 1
  <2>1. At(r, i) \in Nat /\ At(r, i) < Ahead(r)
    BY <1>1, <1>3, <1>5, <1>6, RingNumbers
  <2>2. desc[r][i].host
    BY <2>1 DEF RingOK, HostParts
  <2>3. At(r, c) <= At(r, i) /\ At(r, i) - At(r, c) = At(r, i)
    BY <1>1, <2>1
  <2>4. desc[r][c].part = 1 /\ desc[r][c].m = n /\ desc[r][c].part + At(r, i) <= LenOf(r, c)
    BY <1>1, <1>2, <1>3, <1>6, <2>1
  <2>5. Consecutive(r)
    BY DEF RingOK
  <2>6. desc[r][i].m = desc[r][c].m /\ desc[r][i].part = desc[r][c].part + At(r, i)
    BY <1>1, <2>2, <2>3, <2>4, <2>5 DEF Consecutive
  <2> QED BY <2>1, <2>4, <2>6
<1>7. Read(r) = Whole(n, len)
  <2> DEFINE top == IF len = 1 THEN 1 ELSE len - 1
  <2>1. \A k \in 1 .. top : k - 1 \in 0 .. len - 1
    BY <1>1, <1>3
  <2>2. ASSUME NEW k \in 1 .. top
        PROVE  <<desc[r][Step(c, k - 1)].m, desc[r][Step(c, k - 1)].part>> = <<n, k>>
    <3>1. Step(c, k - 1) \in Indices /\ At(r, Step(c, k - 1)) = k - 1 /\ k - 1 < len
      BY <1>1, <1>3, <1>4, <2>1
    <3>2. /\ desc[r][Step(c, k - 1)].m = n
          /\ desc[r][Step(c, k - 1)].part = (k - 1) + 1
      BY <1>6, <3>1
    <3>3. (k - 1) + 1 = k
      BY <1>1, <1>3
    <3> QED BY <3>2, <3>3
  <2> QED BY <1>3, <2>2 DEF Read, Whole, c
<1> QED BY <1>2, <1>3, <1>5, <1>6, <1>7 DEF n, len

\* Taking it gives back its descriptors and no other.
LEMMA TakeKeepsRing ==
  ASSUME RingTypes, NEW r \in Rings, RingOK(r), TakeMessage(r)
  PROVE  RingOK(r)' /\ Read(r) \in Reads
<1> DEFINE n == Len(handled[r]) + 1
           len == sent[r][n].len
           c == consumer[r]
           d == consumer'[r]
<1>1. /\ n \in 1 .. Len(sent[r]) /\ len \in 1 .. Slots - 1
      /\ DescCnt(r) = len /\ len <= Ahead(r)
      /\ \A i \in Indices : At(r, i) < len =>
           desc[r][i].m = n /\ desc[r][i].part = At(r, i) + 1
      /\ Read(r) = Whole(n, len)
  BY MessageIsThere DEF TakeMessage
<1>2. /\ c \in Indices /\ At(r, c) = 0 /\ Slots \in Nat /\ Slots > 0 /\ cardProd[r] \in Indices
      /\ Len(handled[r]) \in Nat /\ Len(sent[r]) \in Nat /\ len \in Nat /\ len < Slots
      /\ Ahead(r) \in Nat /\ Ahead(r) < Slots /\ register[r] \in Indices
      /\ \A i \in Indices : At(r, i) \in Nat /\ At(r, i) < Slots
  BY SMTT(30), <1>1, RingNumbers, StatusAssumption
<1>3. /\ handled'[r] = Append(handled[r], Whole(n, len))
      /\ d = Step(c, len)
      /\ UNCHANGED <<cardProd, cardPart, sent, register>>
  <2>1. handled'[r] = Append(handled[r], Whole(n, len))
    BY <1>1 DEF TakeMessage, RingTypes
  <2>2. d = Step(c, len)
    BY <1>1 DEF TakeMessage, RingTypes
  <2> QED BY <2>1, <2>2 DEF TakeMessage, cardSide
<1>4. d \in Indices /\ At(r, d) = len
  <2>1. c \in Indices /\ len \in Nat /\ len < Slots /\ d = Step(c, len)
    BY <1>2, <1>3
  <2> HIDE DEF len
  <2>2. Step(c, len) \in Indices /\ Dist(c, Step(c, len)) = len
    BY <2>1, StepIs
  <2> QED BY <2>1, <2>2 DEF At
<1>5. \A i \in Indices :
        /\ At(r, i) < len => ~desc'[r][i].host
        /\ At(r, i) >= len => desc'[r][i] = desc[r][i]
        /\ desc'[r][i].m = desc[r][i].m /\ desc'[r][i].part = desc[r][i].part
  <2> SUFFICES ASSUME NEW i \in Indices
               PROVE  /\ At(r, i) < len => ~desc'[r][i].host
                      /\ At(r, i) >= len => desc'[r][i] = desc[r][i]
                      /\ desc'[r][i].m = desc[r][i].m /\ desc'[r][i].part = desc[r][i].part
    OBVIOUS
  <2> DEFINE back == \E k \in 0 .. len - 1 : i = Step(c, k)
  <2>1. desc'[r][i] = IF back THEN [desc[r][i] EXCEPT !.host = FALSE] ELSE desc[r][i]
    BY <1>1 DEF TakeMessage, RingTypes
  <2>2. desc[r][i] \in [host : BOOLEAN, m : Nat, part : Nat]
    BY DEF RingTypes
  <2>3. back => At(r, i) < len
    <3>1. ASSUME NEW k \in 0 .. len - 1, i = Step(c, k) PROVE At(r, i) < len
      <4>1. k \in Nat /\ k < Slots /\ k < len
        BY SMTT(30), <1>2
      <4> QED BY <1>2, <3>1, <4>1, StepIs DEF At
    <3> QED BY <3>1
  <2>4. At(r, i) < len => back
    <3>1. i = Step(c, At(r, i))
      BY <1>2, StepOnly DEF At
    <3>2. At(r, i) < len => At(r, i) \in 0 .. len - 1
      BY <1>2
    <3> QED BY <3>1, <3>2
  <2> HIDE DEF back
  <2>5. CASE back
    <3>1. ~(At(r, i) >= len)
      BY <1>2, <2>3, <2>5
    <3> QED BY <2>1, <2>2, <2>5, <3>1
  <2>6. CASE ~back
    <3>1. ~(At(r, i) < len)
      BY <2>4, <2>6
    <3> QED BY <2>1, <2>6, <3>1
  <2> QED BY <2>5, <2>6
<1>6. \A i \in Indices :
        /\ At(r, i) >= len => At(r, i)' = At(r, i) - len
        /\ At(r, i) < len => At(r, i)' = At(r, i) + Slots - len
        /\ At(r, i)' \in Nat
  <2> SUFFICES ASSUME NEW i \in Indices
               PROVE  /\ At(r, i) >= len => Dist(d, i) = At(r, i) - len
                      /\ At(r, i) < len => Dist(d, i) = At(r, i) + Slots - len
                      /\ Dist(d, i) \in Nat
    BY DEF At
  <2> DEFINE a == Dist(c, i)
  <2>1. /\ Dist(c, d) = len /\ a = At(r, i)
    BY <1>4 DEF At
  <2>2. /\ len <= a => Dist(d, i) = a - len
        /\ a < len => Dist(d, i) = a + Slots - len
    BY SMTT(30), <1>2, <1>4, <2>1, DistAdds
  <2>3. Dist(d, i) \in Nat
    BY <1>4, DistIs
  <2> HIDE DEF a
  <2> QED BY <1>2, <2>1, <2>2, <2>3
<1>7. Ahead(r)' = Ahead(r) - len
  BY <1>1, <1>2, <1>3, <1>6 DEF Ahead, At
<1>8. \A i \in Indices : LenOf(r, i)' = LenOf(r, i)
  BY <1>3, <1>5 DEF LenOf
<1>9. \A i \in Indices : desc'[r][i].host =>
        At(r, i) >= len /\ desc[r][i].host /\ At(r, i)' = At(r, i) - len
  <2> SUFFICES ASSUME NEW i \in Indices, desc'[r][i].host
               PROVE  At(r, i) >= len /\ desc[r][i].host /\ At(r, i)' = At(r, i) - len
    OBVIOUS
  <2>1. ~(At(r, i) < len)
    BY <1>5
  <2>2. At(r, i) >= len
    BY <1>2, <2>1
  <2>3. desc'[r][i] = desc[r][i] /\ At(r, i)' = At(r, i) - len
    BY <1>5, <1>6, <2>2
  <2> QED BY <2>2, <2>3
<1>10. NextMsg(r)' = NextMsg(r) /\ NextPart(r)' = NextPart(r) /\ Left(r)' = Left(r)
  BY <1>3 DEF NextMsg, NextPart, Left
<1>11. Len(handled'[r]) = n
  BY <1>2, <1>3 DEF RingTypes
<1>12. ASSUME NEW e \in Indices, At(r, e) = len - 1
       PROVE  desc[r][e].host /\ desc[r][e].m = n /\ desc[r][e].part = len /\ LenOf(r, e) = len
  <2>1. At(r, e) < len /\ At(r, e) < Ahead(r) /\ At(r, e) + 1 = len
    BY SMTT(30), <1>1, <1>2, <1>12
  <2>2. desc[r][e].host
    BY <2>1 DEF RingOK, HostParts
  <2>3. desc[r][e].m = n /\ desc[r][e].part = len
    BY <1>1, <2>1
  <2> QED BY <2>2, <2>3 DEF LenOf
<1>13. PICK e \in Indices : At(r, e) = len - 1
  <2>1. len - 1 \in Nat /\ len - 1 < Slots
    <3>1. len \in 1 .. Slots - 1 /\ Slots \in Nat
      BY <1>1, <1>2
    <3> HIDE DEF len
    <3> QED BY <3>1
  <2>2. c \in Indices
    BY <1>2
  <2> HIDE DEF len
  <2>3. Step(c, len - 1) \in Indices /\ Dist(c, Step(c, len - 1)) = len - 1
    BY <2>1, <2>2, StepIs
  <2> QED BY <2>3 DEF At
<1>14. HostParts(r)'
  <2> SUFFICES ASSUME NEW i \in Indices
               PROVE  /\ desc'[r][i].host <=> At(r, i)' < Ahead(r)'
                      /\ desc'[r][i].host => /\ desc'[r][i].m \in 1 .. Len(sent[r])
                                             /\ desc'[r][i].part \in 1 .. LenOf(r, i)'
    BY <1>3 DEF HostParts
  <2>1. HostParts(r)
    BY DEF RingOK
  <2>2. CASE At(r, i) >= len
    <3>1. desc'[r][i] = desc[r][i] /\ At(r, i)' = At(r, i) - len
      BY <1>5, <1>6, <2>2
    <3>2. At(r, i) - len < Ahead(r) - len <=> At(r, i) < Ahead(r)
      BY SMTT(30), <1>2
    <3> QED BY <1>7, <1>8, <2>1, <3>1, <3>2 DEF HostParts
  <2>3. CASE At(r, i) < len
    <3>1. ~desc'[r][i].host /\ At(r, i)' = At(r, i) + Slots - len
      BY <1>5, <1>6, <2>3
    <3>2. ~(At(r, i) + Slots - len < Ahead(r) - len)
      BY SMTT(30), <1>2
    <3> QED BY <1>7, <3>1, <3>2
  <2> QED BY SMTT(30), <1>2, <2>2, <2>3
<1>15. Consecutive(r)'
  <2> SUFFICES ASSUME NEW i \in Indices, NEW j \in Indices,
                      desc'[r][i].host, desc'[r][j].host, At(r, i)' <= At(r, j)'
               PROVE  LET k == At(r, j)' - At(r, i)' IN
                      /\ desc'[r][i].part + k <= LenOf(r, i)' =>
                           /\ desc'[r][j].m = desc'[r][i].m
                           /\ desc'[r][j].part = desc'[r][i].part + k
                      /\ k = 1 /\ desc'[r][i].part = LenOf(r, i)' =>
                           desc'[r][j].m = desc'[r][i].m + 1 /\ desc'[r][j].part = 1
    BY DEF Consecutive
  <2>1. /\ desc[r][i].host /\ desc[r][j].host
        /\ At(r, i)' = At(r, i) - len /\ At(r, j)' = At(r, j) - len
    BY <1>9
  <2>2. At(r, j)' - At(r, i)' = At(r, j) - At(r, i) /\ At(r, i) <= At(r, j)
    BY SMTT(30), <1>2, <2>1
  <2>3. /\ desc'[r][i].m = desc[r][i].m /\ desc'[r][i].part = desc[r][i].part
        /\ desc'[r][j].m = desc[r][j].m /\ desc'[r][j].part = desc[r][j].part
        /\ LenOf(r, i)' = LenOf(r, i)
    BY <1>5, <1>8
  <2>4. Consecutive(r)
    BY DEF RingOK
  <2> DEFINE k == At(r, j) - At(r, i)
  <2>5. /\ desc[r][i].part + k <= LenOf(r, i) =>
             desc[r][j].m = desc[r][i].m /\ desc[r][j].part = desc[r][i].part + k
        /\ k = 1 /\ desc[r][i].part = LenOf(r, i) =>
             desc[r][j].m = desc[r][i].m + 1 /\ desc[r][j].part = 1
    BY <2>1, <2>2, <2>4 DEF Consecutive
  <2> QED BY <2>2, <2>3, <2>5
<1>16. Begins(r)'
  <2>1. ASSUME desc'[r][d].host
        PROVE  desc'[r][d].m = n + 1 /\ desc'[r][d].part = 1
    <3>1. desc[r][d].host /\ At(r, e) <= At(r, d) /\ At(r, d) - At(r, e) = 1
      <4>1. desc[r][d].host
        BY <1>4, <1>9, <2>1
      <4>2. At(r, e) <= At(r, d) /\ At(r, d) - At(r, e) = 1
        BY SMTT(30), <1>2, <1>4, <1>13
      <4> QED BY <4>1, <4>2
    <3>2. Consecutive(r)
      BY DEF RingOK
    <3>3. desc[r][d].m = desc[r][e].m + 1 /\ desc[r][d].part = 1
      BY <1>4, <1>12, <1>13, <3>1, <3>2 DEF Consecutive
    <3> QED BY <1>4, <1>5, <1>12, <1>13, <3>3
  <2>2. ASSUME Ahead(r)' = 0
        PROVE  NextMsg(r)' = n + 1 /\ NextPart(r)' = 1
    <3>1. At(r, e) + 1 = Ahead(r)
      BY SMTT(30), <1>2, <1>7, <1>13, <2>2
    <3>2. Ends(r)
      BY DEF RingOK
    <3>3. NextMsg(r) = desc[r][e].m + 1 /\ NextPart(r) = 1
      BY <1>12, <1>13, <3>1, <3>2 DEF Ends
    <3> QED BY <1>10, <1>12, <1>13, <3>3
  <2> QED BY <1>11, <2>1, <2>2 DEF Begins
<1>17. Ends(r)'
  <2> SUFFICES ASSUME NEW i \in Indices, desc'[r][i].host, At(r, i)' + 1 = Ahead(r)'
               PROVE  /\ desc'[r][i].part = LenOf(r, i)' =>
                           NextMsg(r)' = desc'[r][i].m + 1 /\ NextPart(r)' = 1
                      /\ desc'[r][i].part < LenOf(r, i)' =>
                           NextMsg(r)' = desc'[r][i].m /\ NextPart(r)' = desc'[r][i].part + 1
    BY DEF Ends
  <2>1. desc[r][i].host /\ At(r, i) + 1 = Ahead(r)
    <3>1. desc[r][i].host /\ At(r, i)' = At(r, i) - len
      BY <1>9
    <3>2. At(r, i) - len + 1 = Ahead(r) - len
      BY <1>7, <3>1
    <3>3. At(r, i) \in Nat /\ Ahead(r) \in Nat /\ len \in Nat
      BY <1>2
    <3> HIDE DEF len
    <3>4. At(r, i) + 1 = Ahead(r)
      BY <3>2, <3>3
    <3> QED BY <3>1, <3>4
  <2>2. Ends(r)
    BY DEF RingOK
  <2>3. /\ desc[r][i].part = LenOf(r, i) => NextMsg(r) = desc[r][i].m + 1 /\ NextPart(r) = 1
        /\ desc[r][i].part < LenOf(r, i) =>
             NextMsg(r) = desc[r][i].m /\ NextPart(r) = desc[r][i].part + 1
    BY <2>1, <2>2 DEF Ends
  <2>4. desc'[r][i].m = desc[r][i].m /\ desc'[r][i].part = desc[r][i].part
    BY <1>5
  <2> QED BY <1>8, <1>10, <2>3, <2>4
<1>18. Room(r)'
  <2> DEFINE x == Dist(register[r], c)
             y == Dist(register[r], d)
  <2>0. cardPart[r] # 0 => Len(sent[r]) > 0 /\ cardPart[r] <= sent[r][Len(sent[r])].len
    BY DEF RingOK, Room
  <2>1. x + Ahead(r) + Left(r) <= Slots - 1 /\ x \in Nat /\ Left(r) \in Nat
    <3>1. CASE cardPart[r] = 0
      BY <1>2, <3>1, DistIs DEF Left, RingOK, Room
    <3>2. CASE cardPart[r] # 0
      <4>1. /\ sent[r][Len(sent[r])].len \in Nat /\ cardPart[r] \in Nat
            /\ cardPart[r] <= sent[r][Len(sent[r])].len
        BY <1>2, <2>0, <3>2, RingNumbers
      <4>2. Left(r) \in Nat
        BY <3>2, <4>1 DEF Left
      <4> QED BY <1>2, <4>2, DistIs DEF RingOK, Room
    <3> QED BY <3>1, <3>2
  <2>2. Dist(c, d) = len
    BY <1>4 DEF At
  <2> HIDE DEF x
  <2>3. x + len < Slots
    <3>1. len <= Ahead(r) /\ len \in Nat /\ Ahead(r) \in Nat /\ Slots \in Nat
      BY <1>1, <1>2
    <3> HIDE DEF len
    <3> QED BY <2>1, <3>1
  <2>4. y = x + len
    BY <1>2, <1>4, <2>2, <2>3, DistAdds DEF x
  <2>5. y + (Ahead(r) - len) + Left(r) <= Slots - 1
    BY SMTT(30), <1>1, <1>2, <2>1, <2>4
  <2>6. Dist(register[r], consumer[r])' = y
    BY <1>3
  <2> QED BY <1>3, <1>7, <1>10, <2>0, <2>5, <2>6 DEF Room
<1>19. Handled(r)'
  <2>1. Handled(r)
    BY DEF RingOK
  <2>2. /\ DOMAIN handled'[r] = 1 .. n /\ handled'[r][n] = Whole(n, len)
        /\ \A k \in 1 .. Len(handled[r]) : handled'[r][k] = handled[r][k]
        /\ DOMAIN handled[r] = 1 .. Len(handled[r])
        /\ \A k \in 1 .. n : k = n \/ k \in 1 .. Len(handled[r])
    <3>1. handled[r] \in Seq(Reads)
      BY DEF RingTypes
    <3>2. handled'[r] = Append(handled[r], Whole(n, len)) /\ Len(handled[r]) \in Nat
      BY <1>2, <1>3
    <3>3. \A k \in 1 .. n : k = n \/ k \in 1 .. Len(handled[r])
      BY <3>2
    <3>4. len \in Nat /\ n \in Nat
      BY <1>2
    <3> HIDE DEF len
    <3>5. Whole(n, len) \in Reads
      BY <3>4 DEF Reads
    <3> QED BY <3>1, <3>2, <3>3, <3>5
  <2>3. \A k \in DOMAIN handled'[r] : handled'[r][k] = Whole(k, sent[r][k].len)
    BY <2>1, <2>2 DEF Handled
  <2>4. n <= Len(sent[r])
    BY <1>1
  <2> QED BY <1>3, <1>11, <2>3, <2>4 DEF Handled
<1>20. Read(r) \in Reads
  <2>1. n \in Nat /\ len \in Nat
    BY <1>2
  <2> HIDE DEF n, len
  <2>2. Whole(n, len) \in Reads
    BY <2>1 DEF Reads
  <2> QED BY <1>1, <2>2
<1> QED BY <1>14, <1>15, <1>16, <1>17, <1>18, <1>19, <1>20 DEF RingOK

\* A poll that begins or stops changes at most what the card knows of the consumer.
LEMMA PollKeepsRing ==
  ASSUME RingTypes, NEW r \in Rings, RingOK(r), PollBegins(r) \/ PollStops(r)
  PROVE  RingOK(r)'
<1>1. SameRing(r) /\ register'[r] \in {register[r], consumer[r]}
  BY DEF PollBegins, PollStops, SameRing, cardSide, RingTypes
<1>2. CASE register'[r] = register[r]
  BY <1>1, <1>2, SameRingOK
<1>3. CASE register'[r] = consumer[r]
  <2>1. HostParts(r)' /\ Consecutive(r)' /\ Begins(r)' /\ Ends(r)' /\ Handled(r)'
    BY <1>1 DEF SameRing, RingOK, HostParts, Consecutive, Begins, Ends, Handled, NextMsg,
                NextPart, At, Ahead, LenOf
  <2>2. /\ Dist(register[r], consumer[r]) \in Nat
        /\ Dist(consumer[r], consumer[r]) = 0
        /\ Ahead(r) \in Nat /\ Slots \in Nat
    BY RingNumbers, DistIs, DistAdds, StatusAssumption
  <2>3. /\ Dist(register[r], consumer[r]) + Ahead(r) + Left(r) <= Slots - 1
        /\ Left(r) \in Int
        /\ cardPart[r] # 0 => Len(sent[r]) > 0 /\ cardPart[r] <= sent[r][Len(sent[r])].len
    <3>1. Left(r) \in Int
      <4>1. CASE cardPart[r] = 0
        BY <4>1 DEF Left
      <4>2. CASE cardPart[r] # 0
        <5>1. sent[r][Len(sent[r])].len \in Nat /\ cardPart[r] \in Nat
          BY <4>2, RingNumbers, StatusAssumption DEF RingOK, Room
        <5> QED BY <4>2, <5>1 DEF Left
      <4> QED BY <4>1, <4>2
    <3> QED BY <3>1 DEF RingOK, Room
  <2>4. 0 + Ahead(r) + Left(r) <= Slots - 1
    BY <2>2, <2>3
  <2>5. /\ Ahead(r)' = Ahead(r) /\ Left(r)' = Left(r)
        /\ Dist(register[r], consumer[r])' = 0
    BY <1>1, <1>3, <2>2 DEF SameRing, Ahead, At, Left
  <2>6. Room(r)'
    BY <1>1, <2>3, <2>4, <2>5 DEF SameRing, Room
  <2> QED BY <2>1, <2>6 DEF RingOK
<1> QED BY <1>1, <1>2, <1>3

\* Rings with nothing in them: the first, and those of a new context.
LEMMA FirstRing ==
  ASSUME NEW r \in Rings, StatusInit
  PROVE  RingOK(r)
<1>1. /\ cardProd[r] = 0 /\ cardPart[r] = 0 /\ register[r] = 0
      /\ consumer[r] = 0 /\ sent[r] = <<>> /\ handled[r] = <<>>
      /\ \A i \in Indices : ~desc[r][i].host
  BY DEF StatusInit
<1>2. 0 \in Indices /\ Slots \in Nat /\ Slots > 0
  BY StatusAssumption DEF Indices
<1>3. Dist(0, 0) = 0 /\ \A i \in Indices : Dist(0, i) \in Nat
  BY <1>2, DistAdds, DistIs
<1>4. /\ Ahead(r) = 0 /\ Len(sent[r]) = 0 /\ Len(handled[r]) = 0
      /\ \A i \in Indices : At(r, i) \in Nat
  BY <1>1, <1>3 DEF Ahead, At
<1>5. HostParts(r)
  BY <1>1, <1>4 DEF HostParts
<1>6. Consecutive(r)
  BY <1>1 DEF Consecutive
<1>7. Begins(r) /\ Ends(r)
  BY <1>1, <1>2, <1>4 DEF Begins, Ends, NextMsg, NextPart
<1>8. Room(r)
  BY <1>1, <1>2, <1>3, <1>4 DEF Room, Left
<1>9. Handled(r)
  BY <1>1, <1>4 DEF Handled
<1> QED BY <1>5, <1>6, <1>7, <1>8, <1>9 DEF RingOK

LEMMA RenewedRing ==
  ASSUME NEW r \in Rings, RingsRenewed
  PROVE  RingOK(r)'
<1>1. /\ cardProd'[r] = 0 /\ cardPart'[r] = 0 /\ register'[r] = 0
      /\ consumer'[r] = 0 /\ sent'[r] = <<>> /\ handled'[r] = <<>>
      /\ \A i \in Indices : ~desc'[r][i].host
  BY DEF RingsRenewed
<1>2. 0 \in Indices /\ Slots \in Nat /\ Slots > 0
  BY StatusAssumption DEF Indices
<1>3. Dist(0, 0) = 0 /\ \A i \in Indices : Dist(0, i) \in Nat
  BY <1>2, DistAdds, DistIs
<1>4. /\ Ahead(r)' = 0 /\ Len(sent'[r]) = 0 /\ Len(handled'[r]) = 0
      /\ \A i \in Indices : At(r, i)' \in Nat
  BY <1>1, <1>3 DEF Ahead, At
<1>5. HostParts(r)'
  BY <1>1, <1>4 DEF HostParts
<1>6. Consecutive(r)'
  BY <1>1 DEF Consecutive
<1>7. Begins(r)' /\ Ends(r)'
  BY <1>1, <1>2, <1>4 DEF Begins, Ends, NextMsg, NextPart
<1>8. Room(r)'
  BY <1>1, <1>2, <1>3, <1>4 DEF Room, Left
<1>9. Handled(r)'
  BY <1>1, <1>4 DEF Handled
<1> QED BY <1>5, <1>6, <1>7, <1>8, <1>9 DEF RingOK

-----------------------------------------------------------------------------
(* Every step.                                                             *)

\* The rings stay, but for where the poll is.
Untouched == UNCHANGED <<desc, cardSide, pollSide>>

\* A packet begins only where a ring has room for one descriptor.
LEMMA PacketIs ==
  ASSUME RingTypes, NEW r \in Rings, NEW f \in Flows,
         CardBegins(r, [kind |-> "packet", flow |-> f, len |-> 1])
  PROVE  [kind |-> "packet", flow |-> f, len |-> 1] \in Msgs
<1>1. CardRoom(r) >= 1
  BY DEF CardBegins
<1> DEFINE a == register[r]
           b == cardProd[r]
<1>2. a \in Indices /\ b \in Indices
  BY RingNumbers
<1> HIDE DEF a, b
<1>3. a + Slots - b - 1 \in Int /\ Slots \in Nat /\ Slots > 0
  BY <1>2, StatusAssumption DEF Indices
<1>4. (a + Slots - b - 1) % Slots \in 0 .. Slots - 1
  BY <1>3
<1>5. 1 \in 1 .. Slots - 1
  BY <1>1, <1>3, <1>4 DEF CardRoom, a, b
<1> QED BY <1>5 DEF Msgs

\* What a step does to the rings.
LEMMA RingSteps ==
  ASSUME RingTypes, CardTypes, [Next]_msgVars
  PROVE  \/ Untouched
         \/ RingsRenewed
         \/ \E r \in Rings : \E m \in Msgs : CardBegins(r, m)
         \/ \E r \in Rings : \/ CardWrites(r) \/ PollBegins(r) \/ PollStops(r)
                             \/ TakeMessage(r)
<1>1. CASE UNCHANGED msgVars
  BY <1>1 DEF msgVars, ringVars, Untouched
<1>2. CASE CardTakes \/ (\E e \in offloaded : CardDrops(e)) \/ (\E q \in asks : CardAnswers(q))
             \/ (\E c \in Calls : Wait(c)) \/ (\E on \in BOOLEAN : SetState(on))
  BY <1>2 DEF CardTakes, CardDrops, CardAnswers, Wait, SetState, ringVars, Untouched
<1>3. CASE \E r \in Rings : Wake(r) \/ Offload(r) \/ DestroyCtx(r)
  BY <1>3 DEF Wake, Offload, DestroyCtx, ringVars, Untouched
<1>4. ASSUME NEW r \in Rings, CardSends(r)
      PROVE  \E m \in Msgs : CardBegins(r, m)
  <2>1. ASSUME NEW m \in due, CardBegins(r, m) PROVE \E x \in Msgs : CardBegins(r, x)
    BY <2>1 DEF CardTypes
  <2>2. ASSUME NEW f \in Flows, CardBegins(r, [kind |-> "packet", flow |-> f, len |-> 1])
        PROVE  \E x \in Msgs : CardBegins(r, x)
    BY <2>2, PacketIs
  <2> QED BY <1>4, <2>1, <2>2 DEF CardSends
<1>5. ASSUME NEW r \in Rings, CardGoesOn(r) \/ Poll(r) \/ Take(r)
      PROVE  CardWrites(r) \/ PollBegins(r) \/ PollStops(r) \/ TakeMessage(r)
  BY <1>5 DEF CardGoesOn, Poll, Take
<1>6. CASE Reset
  BY <1>6 DEF Reset
<1> QED BY <1>1, <1>2, <1>3, <1>4, <1>5, <1>6 DEF Next

LEMMA RingTypesKept ==
  ASSUME RingTypes, CardTypes, \A r \in Rings : RingOK(r), [Next]_msgVars,
         rpc' \in [Rings -> {"idle", "poll", "wake", "offload"}]
  PROVE  RingTypes'
<1>1. CASE Untouched
  BY <1>1 DEF Untouched, cardSide, pollSide, RingTypes
<1>2. CASE RingsRenewed
  BY <1>2, StatusAssumption DEF RingsRenewed, RingTypes, Indices
<1>3. ASSUME NEW r \in Rings, NEW m \in Msgs, CardBegins(r, m) PROVE RingTypes'
  BY <1>3 DEF CardBegins, pollSide, RingTypes
<1>4. ASSUME NEW r \in Rings, CardWrites(r) PROVE RingTypes'
  <2>1. Step(cardProd[r], 1) \in Indices
    <3> DEFINE b == cardProd[r]
    <3>1. b \in Indices
      BY RingNumbers
    <3> HIDE DEF b
    <3>2. b + 1 \in Int /\ Slots \in Nat /\ Slots > 0
      BY <3>1, StatusAssumption DEF Indices
    <3>3. (b + 1) % Slots \in 0 .. Slots - 1
      BY <3>2
    <3> QED BY <3>3 DEF Step, Indices, b
  <2>2. cardPart' \in [Rings -> Nat]
    BY <1>4 DEF CardWrites, RingTypes
  <2>3. desc' \in [Rings -> [Indices -> [host : BOOLEAN, m : Nat, part : Nat]]]
    <3>1. [host |-> TRUE, m |-> Len(sent[r]), part |-> cardPart[r]]
            \in [host : BOOLEAN, m : Nat, part : Nat]
      BY DEF RingTypes
    <3> QED BY <1>4, <3>1 DEF CardWrites, RingTypes
  <2> QED BY <1>4, <2>1, <2>2, <2>3 DEF CardWrites, pollSide, RingTypes
<1>5. ASSUME NEW r \in Rings, PollBegins(r) \/ PollStops(r) PROVE RingTypes'
  <2>1. register' \in [Rings -> Indices] /\ count' \in [Rings -> Nat]
    <3>1. CASE PollBegins(r)
      BY <3>1 DEF PollBegins, RingTypes
    <3>2. CASE PollStops(r)
      <4>1. register' = register \/ register' = [register EXCEPT ![r] = consumer[r]]
        BY <3>2 DEF PollStops
      <4> QED BY <3>2, <4>1 DEF PollStops, RingTypes
    <3> QED BY <1>5, <3>1, <3>2
  <2> QED BY <1>5, <2>1 DEF PollBegins, PollStops, cardSide, RingTypes
<1>6. ASSUME NEW r \in Rings, TakeMessage(r) PROVE RingTypes'
  <2>1. Read(r) \in Reads
    BY <1>6, TakeKeepsRing
  <2>2. handled' \in [Rings -> Seq(Reads)]
    BY <1>6, <2>1 DEF TakeMessage, RingTypes
  <2>3. desc' \in [Rings -> [Indices -> [host : BOOLEAN, m : Nat, part : Nat]]]
    <3> DEFINE new == [i \in Indices |->
                         IF \E k \in 0 .. DescCnt(r) - 1 : i = Step(consumer[r], k)
                         THEN [desc[r][i] EXCEPT !.host = FALSE] ELSE desc[r][i]]
    <3>1. new \in [Indices -> [host : BOOLEAN, m : Nat, part : Nat]]
      <4>1. ASSUME NEW i \in Indices
            PROVE  /\ desc[r][i] \in [host : BOOLEAN, m : Nat, part : Nat]
                   /\ [desc[r][i] EXCEPT !.host = FALSE] \in [host : BOOLEAN, m : Nat, part : Nat]
        <5>1. desc[r][i] \in [host : BOOLEAN, m : Nat, part : Nat]
          BY DEF RingTypes
        <5> HIDE DEF RingTypes
        <5> DEFINE x == desc[r][i]
        <5>2. x \in [host : BOOLEAN, m : Nat, part : Nat]
          BY <5>1
        <5> HIDE DEF x
        <5>3. [x EXCEPT !.host = FALSE] \in [host : BOOLEAN, m : Nat, part : Nat]
          BY <5>2
        <5> QED BY <5>1, <5>3 DEF x
      <4> QED BY <4>1
    <3>2. desc' = [desc EXCEPT ![r] = new]
      BY <1>6 DEF TakeMessage
    <3> HIDE DEF new
    <3> QED BY <3>1, <3>2 DEF RingTypes
  <2>4. consumer' \in [Rings -> Indices]
    <3>1. DescCnt(r) \in Nat /\ DescCnt(r) < Slots
      BY <1>6, MessageIsThere, StatusAssumption DEF TakeMessage
    <3>2. Step(consumer[r], DescCnt(r)) \in Indices
      BY <3>1, StepIs DEF RingTypes
    <3> QED BY <1>6, <3>2 DEF TakeMessage, RingTypes
  <2>5. count' \in [Rings -> Nat]
    BY <1>6 DEF TakeMessage, RingTypes
  <2> QED BY <1>6, <2>2, <2>3, <2>4, <2>5 DEF TakeMessage, cardSide, RingTypes
<1> QED BY <1>1, <1>2, <1>3, <1>4, <1>5, <1>6, RingSteps

LEMMA PollPlaces ==
  ASSUME RingTypes, [Next]_msgVars
  PROVE  rpc' \in [Rings -> {"idle", "poll", "wake", "offload"}]
<1>1. CASE UNCHANGED rpc
  BY <1>1 DEF RingTypes
<1>2. ASSUME NEW r \in Rings, NEW l \in {"idle", "poll", "wake", "offload"}, To(r, l)
      PROVE  rpc' \in [Rings -> {"idle", "poll", "wake", "offload"}]
  BY <1>2 DEF To, RingTypes
<1>3. \/ UNCHANGED rpc
      \/ \E r \in Rings : \E l \in {"idle", "poll", "wake", "offload"} : To(r, l)
  <2>1. CASE UNCHANGED msgVars
    BY <2>1 DEF msgVars, ringVars
  <2>2. CASE CardTakes \/ (\E e \in offloaded : CardDrops(e)) \/ (\E q \in asks : CardAnswers(q))
             \/ (\E c \in Calls : Wait(c)) \/ (\E on \in BOOLEAN : SetState(on))
    BY <2>2 DEF CardTakes, CardDrops, CardAnswers, Wait, SetState, ringVars
  <2>3. CASE \E r \in Rings : CardSends(r) \/ CardGoesOn(r) \/ DestroyCtx(r)
    BY <2>3 DEF CardSends, CardGoesOn, DestroyCtx, CardBegins, CardWrites, ringVars
  <2>4. CASE Reset
    BY <2>4 DEF Reset, RingsRenewed
  <2>5. ASSUME NEW r \in Rings, Poll(r) \/ Take(r) \/ Wake(r) \/ Offload(r)
        PROVE  \E l \in {"idle", "poll", "wake", "offload"} : To(r, l)
    BY <2>5 DEF Poll, PollBegins, PollStops, Take, TakePacket, TakeGone, TakeAnswer, Wake,
                Offload, To
  <2> QED BY <2>1, <2>2, <2>3, <2>4, <2>5 DEF Next
<1> QED BY <1>1, <1>2, <1>3

\* Requests and messages say what they should.
LEMMA CardTypesKept ==
  ASSUME RingTypes, CardTypes, \A r \in Rings : RingOK(r), [Next]_msgVars
  PROVE  CardTypes'
<1>1. CASE UNCHANGED msgVars
  BY <1>1 DEF msgVars, cardMind, lroVars, waitVars, entryVars, CardTypes
<1>2. CASE CardTakes
  <2> DEFINE q == Head(cmds)
  <2>1. q \in Reqs /\ cmds' \in Seq(Reqs)
    BY <1>2 DEF CardTakes, CardTypes
  <2>2. UNCHANGED <<hand, comp>>
    BY <1>2 DEF CardTakes, lroVars, waitVars, entryVars
  <2>3. ASSUME q.kind = "add" PROVE q.flow \in Flows \cup {NoFlow} /\ q.ctx \in Rings
    BY <2>1, <2>3 DEF Reqs
  <2>4. ASSUME NEW f \in Flows \cup {NoFlow}, NEW l \in Lengths PROVE Gone(f, l) \in Msgs
    BY MessagesAssumption DEF Gone, Msgs
  <2>5. \A e \in offloaded : e.flow \in Flows \cup {NoFlow}
    BY DEF CardTypes
  <2>6. asks' \subseteq {x \in Reqs : x.kind = "ask"}
    BY <1>2, <2>1 DEF CardTakes, CardTypes
  <2>7. offloaded' \subseteq [flow : Flows \cup {NoFlow}, ctx : Rings]
    BY <1>2, <2>3 DEF CardTakes, CardTypes
  <2>8. due' \subseteq Msgs
    <3>1. \E l \in Lengths :
            \/ due' = due
            \/ q.kind = "add" /\ due' = due \cup {Gone(q.flow, l)}
            \/ due' = due \cup {Gone(e.flow, l) : e \in offloaded}
      BY <1>2 DEF CardTakes
    <3>2. due \subseteq Msgs
      BY DEF CardTypes
    <3> QED BY <2>3, <2>4, <2>5, <3>1, <3>2
  <2> QED BY <2>1, <2>2, <2>6, <2>7, <2>8 DEF CardTypes
<1>3. ASSUME NEW e \in offloaded, CardDrops(e) PROVE CardTypes'
  <2>1. \A l \in Lengths : Gone(e.flow, l) \in Msgs
    BY MessagesAssumption DEF Gone, Msgs, CardTypes
  <2> QED BY <1>3, <2>1 DEF CardDrops, CardTypes, lroVars, waitVars, entryVars
<1>4. ASSUME NEW q \in asks, CardAnswers(q) PROVE CardTypes'
  <2>1. \A l \in Lengths : Answer(q, l) \in Msgs
    BY MessagesAssumption DEF Answer, Msgs, Reqs, CardTypes
  <2> QED BY <1>4, <2>1 DEF CardAnswers, CardTypes, lroVars, waitVars, entryVars
<1>5. ASSUME NEW r \in Rings,
             CardSends(r) \/ CardGoesOn(r) \/ Poll(r) \/ Wake(r)
      PROVE  CardTypes'
  BY <1>5 DEF CardSends, CardGoesOn, Poll, Wake, CardTypes, cardMind, lroVars, waitVars, entryVars
<1>6. ASSUME NEW r \in Rings, Take(r) PROVE CardTypes'
  <2>1. UNCHANGED <<cmds, asks, offloaded, due, comp>>
    BY <1>6 DEF Take, cardMind, TakePacket, TakeGone, TakeAnswer, waitVars, entryVars
  <2>2. \/ UNCHANGED hand
        \/ \E f \in Flows : hand' = [hand EXCEPT ![r] = f]
    <3> DEFINE m == sent[r][First(r).m]
    <3>1. CASE TakePacket(r, m)
      <4>1. m.kind = "packet" => m.flow \in Flows
        <5>1. Ready(r) /\ RingOK(r)
          BY <1>6 DEF Take, TakeMessage
        <5>2. m \in Msgs
          BY <5>1, MessageIsThere DEF RingTypes
        <5> QED BY <5>2 DEF Msgs
      <4> QED BY <3>1, <4>1 DEF TakePacket, LroDeclines, LroBegins, lroVars
    <3>2. CASE TakeGone(r, m) \/ TakeAnswer(r, m)
      BY <3>2 DEF TakeGone, TakeAnswer, LroResponse, lroVars
    <3> QED BY <1>6, <3>1, <3>2 DEF Take
  <2> QED BY <2>1, <2>2 DEF CardTypes
<1>7. ASSUME NEW r \in Rings, Offload(r) PROVE CardTypes'
  <2>1. hand' = [hand EXCEPT ![r] = NoFlow] /\ UNCHANGED <<asks, offloaded, due, comp>>
    BY <1>7 DEF Offload, LroSent, LroSendFails, waitVars, entryVars
  <2>2. [kind |-> "add", flow |-> hand[r], ctx |-> r] \in Reqs
    BY DEF Reqs, CardTypes
  <2>3. cmds' \in Seq(Reqs)
    BY <1>7, <2>2 DEF Offload, CardTypes
  <2> QED BY <2>1, <2>3 DEF CardTypes
<1>8. ASSUME NEW r \in Rings, DestroyCtx(r) PROVE CardTypes'
  BY <1>8 DEF DestroyCtx, LroDeleteCtx, CardTypes, waitVars, entryVars
<1>9. ASSUME NEW c \in Calls, Wait(c) PROVE CardTypes'
  <2>1. UNCHANGED <<asks, offloaded, due, hand>>
    BY <1>9 DEF Wait, lroVars
  <2>2. comp' \in [Calls -> Nat]
    <3>1. UNCHANGED comp \/ \E i \in Nat : comp' = [comp EXCEPT ![c] = i]
      BY <1>9, WaitAssumption DEF Wait, WaitStep, SetupId, SetupMark, SetupLink, RequestFails,
           RequestSent, WaitEnds, WaitClears, WaitUnlinks, entryVars, FreeIds, Ids
    <3> QED BY <3>1 DEF CardTypes
  <2>3. [kind |-> "ask", call |-> c, id |-> comp[c]] \in Reqs
    BY DEF Reqs, CardTypes
  <2>4. cmds' \in Seq(Reqs)
    BY <1>9, <2>3 DEF Wait, CardTypes
  <2> QED BY <2>1, <2>2, <2>4 DEF CardTypes
<1>10. ASSUME NEW on \in BOOLEAN, SetState(on) PROVE CardTypes'
  <2>1. [kind |-> "cleanup"] \in Reqs
    BY DEF Reqs
  <2> QED BY SMTT(30), <1>10, <2>1 DEF SetState, LroSetState, CardTypes, waitVars, entryVars
<1>11. CASE Reset
  BY <1>11 DEF Reset, DetachWakes, LroRenewed, CardTypes
<1> QED BY <1>1, <1>2, <1>3, <1>4, <1>5, <1>6, <1>7, <1>8, <1>9, <1>10, <1>11 DEF Next

LEMMA RingInvInit == Init => RingInv
<1> SUFFICES ASSUME Init PROVE RingInv
  OBVIOUS
<1>1. RingTypes
  BY StatusAssumption DEF Init, StatusInit, RingTypes, Indices
<1>2. CardTypes
  BY MessagesAssumption DEF Init, LroInit, WaitInit, CardTypes
<1> QED BY <1>1, <1>2, FirstRing DEF Init, RingInv

LEMMA RingInvStep ==
  ASSUME RingInv, [Next]_msgVars
  PROVE  RingInv'
<1> USE DEF RingInv
<1>1. RingTypes' /\ CardTypes'
  BY RingTypesKept, CardTypesKept, PollPlaces
<1>2. ASSUME NEW r \in Rings PROVE RingOK(r)'
  <2>1. CASE SameRing(r) /\ register'[r] = register[r]
    BY <2>1, SameRingOK
  <2>2. CASE RingsRenewed
    BY <2>2, RenewedRing
  <2>3. CASE \/ \E m \in Msgs : CardBegins(r, m)
             \/ CardWrites(r) \/ PollBegins(r) \/ PollStops(r) \/ TakeMessage(r)
    BY <2>3, BeginsKeepsRing, WritesKeepsRing, PollKeepsRing, TakeKeepsRing
  <2>4. CASE Untouched
    BY <2>1, <2>4 DEF Untouched, cardSide, pollSide, SameRing
  <2>5. ASSUME NEW s \in Rings, s # r,
               \/ \E m \in Msgs : CardBegins(s, m)
               \/ CardWrites(s) \/ PollBegins(s) \/ PollStops(s) \/ TakeMessage(s)
        PROVE  SameRing(r) /\ register'[r] = register[r]
    BY <2>5 DEF CardBegins, CardWrites, PollBegins, PollStops, TakeMessage, pollSide, cardSide,
                SameRing, RingTypes
  <2> QED BY <2>1, <2>2, <2>3, <2>4, <2>5, RingSteps
<1> QED BY <1>1, <1>2

\* What WholeMessages says - each ring's messages are handled whole, once and in order -
\* holds for every number of rings, slots and descriptors of a message, whatever the
\* interleaving of card and polls (unm_process_rcv_ring).
THEOREM MessagesWhole == Spec => []WholeMessages
<1>1. RingInv => WholeMessages
  BY DEF RingInv, RingOK, Handled, Whole, WholeMessages
<1>2. RingInv /\ [Next]_msgVars => RingInv'
  BY RingInvStep
<1> QED BY <1>1, <1>2, RingInvInit, PTL DEF Spec
-----------------------------------------------------------------------------
(* The map of ids and the list of entries.                                 *)

LEMMA IdHasBits ==
  ASSUME NEW i \in Nat
  PROVE  IdBits(i) # {}
<1> DEFINE base == (i \div WordBits) * WordBits
           b == (i % WordBits) % IntBits
<1>1. b \in Nat /\ b < IntBits
  BY WaitAssumption
<1>2. b \in b .. WordBits - 1
  BY <1>1, WaitAssumption
<1> HIDE DEF base, b
<1>3. base + b \in {base + k : k \in IF b = IntBits - 1 THEN b .. WordBits - 1 ELSE {b}}
  BY <1>2
<1> QED BY <1>3 DEF IdBits, base, b

WaitCore == IdsTrue /\ ListTrue /\ ListOrder

LEMMA SameCore ==
  ASSUME WaitCore, UNCHANGED <<bits, list, wpc, comp, seen, abandoned>>
  PROVE  WaitCore'
BY DEF WaitCore, IdsTrue, ListTrue, ListOrder, Holding, Linked

\* The lowest free id is taken; it shares no bit with what the map has.
LEMMA SetupIdKeeps ==
  ASSUME WaitTypes, comp \in [Calls -> Nat], NEW c \in Calls, SetupId(c), WaitCore
  PROVE  WaitCore'
<1>1. /\ wpc[c] = "new" /\ wpc' = [wpc EXCEPT ![c] = wpc'[c]] /\ wpc'[c] \in {"mark", "returned"}
      /\ UNCHANGED <<bits, list, abandoned>>
  BY DEF SetupId, WaitGo, WaitTypes, waitHistory
<1>2. \A d \in Calls \ {c} : wpc'[d] = wpc[d] /\ comp'[d] = comp[d] /\ seen'[d] = seen[d]
  BY <1>1 DEF SetupId, WaitTypes
<1>3. c \notin Holding /\ c \notin Linked /\ Holding' = Holding /\ Linked' = Linked
  BY <1>1, <1>2 DEF Holding, Linked, WaitTypes
<1>4. wpc'[c] = "mark" => IdBits(comp'[c]) \cap seen'[c] = {}
  <2>1. ASSUME FreeIds(bits) # {}
        PROVE  IdBits(comp'[c]) \cap seen'[c] = {}
    <3>1. comp'[c] \in FreeIds(bits) /\ seen'[c] = bits
      BY <2>1 DEF SetupId, WaitTypes
    <3> QED BY <3>1 DEF FreeIds
  <2>2. ASSUME FreeIds(bits) = {} PROVE wpc'[c] # "mark"
    BY <2>2 DEF SetupId, WaitGo, WaitTypes
  <2> QED BY <2>1, <2>2
<1>5. \A d \in Holding : d \in Calls /\ d # c /\ comp'[d] = comp[d]
  BY <1>2, <1>3 DEF Holding, WaitTypes
<1>6. IdsTrue'
  <2>1. {IdBits(comp'[d]) : d \in Holding} = {IdBits(comp[d]) : d \in Holding}
    BY <1>5
  <2>2. bits' = UNION {IdBits(comp'[d]) : d \in Holding'}
    BY <1>1, <1>3, <2>1 DEF WaitCore, IdsTrue
  <2>3. \A x, y \in Holding' : x # y => IdBits(comp'[x]) \cap IdBits(comp'[y]) = {}
    BY <1>3, <1>5 DEF WaitCore, IdsTrue
  <2>4. \A x \in Calls : wpc'[x] = "mark" => IdBits(comp'[x]) \cap seen'[x] = {}
    BY <1>2, <1>4 DEF WaitCore, IdsTrue
  <2> QED BY <2>2, <2>3, <2>4 DEF IdsTrue
<1>7. ListTrue'
  BY <1>1, <1>3 DEF WaitCore, ListTrue
<1>8. \A k \in DOMAIN list : list[k] \in Calls /\ list[k] # c
  BY <1>3 DEF WaitCore, ListTrue, WaitTypes
<1>9. ListOrder'
  BY <1>1, <1>2, <1>3, <1>8 DEF WaitCore, ListOrder
<1> QED BY <1>6, <1>7, <1>9 DEF WaitCore

\* Its bit joins the map, unless another thread wrote the map in between.
LEMMA SetupMarkKeeps ==
  ASSUME WaitTypes, comp \in [Calls -> Nat], NEW c \in Calls, SetupMark(c), WaitCore,
         bits = seen[c]
  PROVE  WaitCore'
<1>1. /\ wpc[c] = "mark" /\ wpc' = [wpc EXCEPT ![c] = "link"]
      /\ bits' = bits \cup IdBits(comp[c])
      /\ UNCHANGED <<list, comp, abandoned>>
      /\ \A d \in Calls \ {c} : wpc'[d] = wpc[d] /\ seen'[d] = seen[d]
      /\ wpc'[c] = "link"
  BY DEF SetupMark, WaitGo, WaitTypes, entryVars
<1>2. c \notin Holding /\ Holding' = Holding \cup {c} /\ Linked' = Linked /\ c \notin Linked
  BY <1>1 DEF Holding, Linked, WaitTypes
<1>3. IdBits(comp[c]) \cap bits = {}
  BY <1>1 DEF WaitCore, IdsTrue
<1>4. \A d \in Holding : IdBits(comp[d]) \subseteq bits
  BY DEF WaitCore, IdsTrue
<1>5. IdsTrue'
  <2>1. bits' = UNION {IdBits(comp[d]) : d \in Holding \cup {c}}
    BY <1>1 DEF WaitCore, IdsTrue
  <2>2. \A x, y \in Holding \cup {c} : x # y => IdBits(comp[x]) \cap IdBits(comp[y]) = {}
    BY <1>3, <1>4 DEF WaitCore, IdsTrue
  <2>3. \A x \in Calls : wpc'[x] = "mark" => IdBits(comp'[x]) \cap seen'[x] = {}
    BY <1>1 DEF WaitCore, IdsTrue
  <2> QED BY <1>1, <1>2, <2>1, <2>2, <2>3 DEF IdsTrue
<1>6. ListTrue'
  BY <1>1, <1>2 DEF WaitCore, ListTrue
<1>7. \A k \in DOMAIN list : list[k] \in Calls /\ list[k] # c
  BY <1>2 DEF WaitCore, ListTrue, WaitTypes
<1>8. ListOrder'
  BY <1>1, <1>2, <1>7 DEF WaitCore, ListOrder
<1> QED BY <1>5, <1>6, <1>8 DEF WaitCore

\* The entry becomes the first of the list.
LEMMA SetupLinkKeeps ==
  ASSUME WaitTypes, comp \in [Calls -> Nat], NEW c \in Calls, SetupLink(c), WaitCore,
         list = seen[c]
  PROVE  WaitCore'
<1>1. /\ wpc[c] = "link" /\ wpc' = [wpc EXCEPT ![c] = "send"]
      /\ list' = <<c>> \o list
      /\ UNCHANGED <<bits, comp, abandoned>>
      /\ \A d \in Calls \ {c} : wpc'[d] = wpc[d] /\ seen'[d] = seen[d]
      /\ wpc'[c] = "send"
  BY DEF SetupLink, AddEntry, WaitGo, WaitTypes, entryVars
<1>2. c \in Holding /\ Holding' = Holding /\ c \notin Linked /\ Linked' = Linked \cup {c}
  BY <1>1 DEF Holding, Linked, WaitTypes
<1>3. /\ Len(list) \in Nat /\ DOMAIN list = 1 .. Len(list)
      /\ DOMAIN list' = 1 .. Len(list) + 1
      /\ list'[1] = c
      /\ \A k \in 2 .. Len(list) + 1 : list'[k] = list[k - 1] /\ k - 1 \in 1 .. Len(list)
      /\ \A k \in 1 .. Len(list) : list'[k + 1] = list[k] /\ k + 1 \in 2 .. Len(list) + 1
  <2>1. list \in Seq(Calls) /\ <<c>> \in Seq(Calls) /\ Len(<<c>>) = 1 /\ <<c>>[1] = c
    BY DEF WaitTypes
  <2>2. Len(list) \in Nat /\ DOMAIN list = 1 .. Len(list)
    BY <2>1
  <2>3. Len(list') = Len(list) + 1 /\ DOMAIN list' = 1 .. Len(list) + 1
    BY <1>1, <2>1, <2>2
  <2>4. list'[1] = c
    BY <1>1, <2>1, <2>2
  <2>5. \A k \in 2 .. Len(list) + 1 : list'[k] = list[k - 1]
    BY <1>1, <2>1, <2>2
  <2>6. \A k \in 1 .. Len(list) : k + 1 \in 2 .. Len(list) + 1 /\ k + 1 - 1 = k
    BY <2>2
  <2>7. \A k \in 2 .. Len(list) + 1 : k - 1 \in 1 .. Len(list)
    BY <2>2
  <2> QED BY <2>2, <2>3, <2>4, <2>5, <2>6, <2>7
<1>4. \A k \in 1 .. Len(list) + 1 : k = 1 \/ k \in 2 .. Len(list) + 1
  BY <1>3
<1>5. \A k \in 1 .. Len(list) : list[k] \in Calls /\ list[k] # c
  <2>1. ASSUME NEW k \in DOMAIN list PROVE list[k] \in Calls /\ list[k] # c
    BY <1>2 DEF WaitCore, ListTrue, WaitTypes
  <2> QED BY <1>3, <2>1
<1>6. IdsTrue'
  BY <1>1, <1>2 DEF WaitCore, IdsTrue
<1>7. ListTrue'
  <2>1. {list'[k] : k \in DOMAIN list'} = Linked \cup {c}
    <3>1. ASSUME NEW k \in DOMAIN list' PROVE list'[k] \in Linked \cup {c}
      <4>1. k = 1 \/ (k \in 2 .. Len(list) + 1 /\ list'[k] = list[k - 1] /\ k - 1 \in DOMAIN list)
        BY <1>3, <1>4
      <4> QED BY <1>3, <4>1 DEF WaitCore, ListTrue
    <3>2. ASSUME NEW x \in Linked PROVE \E k \in DOMAIN list' : list'[k] = x
      <4>1. PICK j \in DOMAIN list : list[j] = x
        BY DEF WaitCore, ListTrue
      <4>2. list'[j + 1] = x /\ j + 1 \in DOMAIN list'
        BY <1>3, <4>1
      <4> QED BY <4>2
    <3>3. 1 \in DOMAIN list' /\ list'[1] = c
      BY <1>3
    <3> QED BY <3>1, <3>2, <3>3
  <2>2. ASSUME NEW j \in DOMAIN list', NEW k \in DOMAIN list', list'[j] = list'[k]
        PROVE  j = k
    <3>0. ASSUME NEW i \in 2 .. Len(list) + 1 PROVE list'[i] # c
      <4>1. list'[i] = list[i - 1] /\ i - 1 \in 1 .. Len(list)
        BY <1>3
      <4>2. list[i - 1] # c
        BY <1>5, <4>1
      <4> QED BY <4>1, <4>2
    <3>1. CASE j = 1 \/ k = 1
      BY SMTT(30), <1>3, <1>4, <2>2, <3>0, <3>1
    <3>2. CASE j # 1 /\ k # 1
      <4>1. list[j - 1] = list[k - 1] /\ j - 1 \in DOMAIN list /\ k - 1 \in DOMAIN list
        BY <1>3, <1>4, <2>2, <3>2
      <4>2. j - 1 = k - 1
        BY <4>1 DEF WaitCore, ListTrue
      <4> QED BY <1>3, <4>2
    <3> QED BY <3>1, <3>2
  <2> QED BY <1>2, <2>1, <2>2 DEF ListTrue
<1>8. ListOrder'
  <2> SUFFICES ASSUME NEW j \in DOMAIN list', NEW k \in DOMAIN list', j < k,
                      wpc'[list'[j]] = "unlink", list'[k] \in Holding
               PROVE  comp'[list'[j]] # comp'[list'[k]]
    BY <1>2 DEF ListOrder
  <2>1. j # 1
    BY <1>1, <1>3
  <2>2. k # 1 /\ j - 1 < k - 1
    BY <1>3, <2>1
  <2>3. /\ list'[j] = list[j - 1] /\ j - 1 \in DOMAIN list
        /\ list'[k] = list[k - 1] /\ k - 1 \in DOMAIN list
    BY <1>3, <1>4, <2>1, <2>2
  <2>4. wpc[list[j - 1]] = "unlink"
    BY <1>1, <1>3, <1>5, <2>3
  <2> QED BY <1>1, <2>2, <2>3, <2>4 DEF WaitCore, ListOrder
<1> QED BY <1>6, <1>7, <1>8 DEF WaitCore

\* A call whose request is sent, fails, or is over, keeps id and entry.
LEMMA RequestKeeps ==
  ASSUME WaitTypes, NEW c \in Calls, RequestSent(c) \/ RequestFails(c) \/ WaitEnds(c), WaitCore
  PROVE  WaitCore'
<1>1. /\ wpc[c] \in {"send", "wait"} /\ UNCHANGED <<bits, list, comp, seen>>
      /\ \A d \in Calls \ {c} : wpc'[d] = wpc[d]
      /\ wpc'[c] \in {"wait", "clear", "returned"}
      /\ abandoned \subseteq abandoned' /\ abandoned' \subseteq abandoned \cup {c}
      /\ wpc'[c] = "returned" => c \in abandoned'
  BY DEF RequestSent, RequestFails, WaitEnds, WaitGo, WaitTypes, entryVars, waitHistory
<1>2. Holding' = Holding /\ Linked' = Linked
  BY <1>1 DEF Holding, Linked, WaitTypes
<1>3. \A d \in Calls : (wpc'[d] = "mark" <=> wpc[d] = "mark")
                         /\ (wpc'[d] = "unlink" <=> wpc[d] = "unlink")
  BY <1>1
<1>4. \A k \in DOMAIN list : list[k] \in Calls
  BY DEF WaitTypes
<1> QED BY <1>1, <1>2, <1>3, <1>4 DEF WaitCore, IdsTrue, ListTrue, ListOrder

\* The id leaves the map, and no other; who takes it next stands before the entry.
LEMMA WaitClearsKeeps ==
  ASSUME WaitTypes, comp \in [Calls -> Nat], NEW c \in Calls, WaitClears(c), WaitCore
  PROVE  WaitCore'
<1>1. /\ wpc[c] = "clear" /\ UNCHANGED <<list, comp, seen, abandoned>>
      /\ bits' = bits \ IdBits(comp[c])
      /\ \A d \in Calls \ {c} : wpc'[d] = wpc[d]
      /\ wpc'[c] = "unlink"
  BY DEF WaitClears, WaitGo, WaitTypes, entryVars, waitHistory
<1>2. c \in Holding /\ Holding' = Holding \ {c} /\ Linked' = Linked
  BY <1>1 DEF Holding, Linked, WaitTypes
<1>3. \A d \in Holding \ {c} : IdBits(comp[d]) \cap IdBits(comp[c]) = {}
  BY <1>2 DEF WaitCore, IdsTrue
<1>4. IdsTrue'
  <2>1. bits' = UNION {IdBits(comp[d]) : d \in Holding \ {c}}
    BY <1>1, <1>2, <1>3 DEF WaitCore, IdsTrue
  <2>2. \A x \in Calls : wpc'[x] = "mark" => IdBits(comp[x]) \cap seen[x] = {}
    BY <1>1 DEF WaitCore, IdsTrue
  <2>3. \A x, y \in Holding \ {c} : x # y => IdBits(comp[x]) \cap IdBits(comp[y]) = {}
    BY DEF WaitCore, IdsTrue
  <2> QED BY <1>1, <1>2, <2>1, <2>2, <2>3 DEF IdsTrue
<1>5. ListTrue'
  BY <1>1, <1>2 DEF WaitCore, ListTrue
<1>6. ListOrder'
  <2> SUFFICES ASSUME NEW j \in DOMAIN list, NEW k \in DOMAIN list, j < k,
                      wpc'[list[j]] = "unlink", list[k] \in Holding \ {c}
               PROVE  comp[list[j]] # comp[list[k]]
    BY <1>1, <1>2 DEF ListOrder
  <2>1. list[j] \in Calls
    BY DEF WaitTypes
  <2>2. CASE list[j] = c
    <3>1. IdBits(comp[c]) # {}
      BY IdHasBits
    <3> QED BY <1>3, <2>2, <3>1
  <2>3. CASE list[j] # c
    BY <1>1, <2>1, <2>3 DEF WaitCore, ListOrder
  <2> QED BY <2>2, <2>3
<1> QED BY <1>4, <1>5, <1>6 DEF WaitCore

\* Its own entry leaves the list, and the others keep their order.
LEMMA WaitUnlinksKeeps ==
  ASSUME WaitTypes, comp \in [Calls -> Nat], NEW c \in Calls, WaitUnlinks(c), WaitCore
  PROVE  WaitCore'
<1>1. /\ wpc[c] = "unlink" /\ UNCHANGED <<bits, seen, abandoned>>
      /\ \A d \in Calls \ {c} : wpc'[d] = wpc[d] /\ comp'[d] = comp[d]
      /\ wpc'[c] = "returned"
  BY DEF WaitUnlinks, WaitGo, WaitTypes, waitHistory
<1>2. /\ c \notin Holding /\ Holding' = Holding
      /\ c \in Linked /\ Linked' = Linked \ {c}
  BY <1>1 DEF Holding, Linked, WaitTypes
<1>3. \A d \in Holding : d \in Calls /\ comp'[d] = comp[d]
  BY <1>1, <1>2 DEF Holding, WaitTypes
<1>4. IdsTrue'
  <2>1. {IdBits(comp'[d]) : d \in Holding} = {IdBits(comp[d]) : d \in Holding}
    BY <1>3
  <2>2. \A x \in Calls : wpc'[x] = "mark" => IdBits(comp'[x]) \cap seen[x] = {}
    BY <1>1 DEF WaitCore, IdsTrue
  <2>3. \A x, y \in Holding : x # y => IdBits(comp'[x]) \cap IdBits(comp'[y]) = {}
    BY <1>3 DEF WaitCore, IdsTrue
  <2> QED BY <1>1, <1>2, <2>1, <2>2, <2>3 DEF WaitCore, IdsTrue
<1>5. c \in {list[k] : k \in DOMAIN list}
  BY <1>2 DEF WaitCore, ListTrue
<1>6. PICK i \in DOMAIN list :
        list[i] = c /\ list' = SubSeq(list, 1, i - 1) \o SubSeq(list, i + 1, Len(list))
  BY <1>5 DEF WaitUnlinks
<1>7. /\ Len(list) \in Nat /\ DOMAIN list = 1 .. Len(list) /\ i \in 1 .. Len(list)
      /\ DOMAIN list' = 1 .. Len(list) - 1
      /\ \A k \in 1 .. Len(list) - 1 :
           /\ k < i => list'[k] = list[k]
           /\ k >= i => list'[k] = list[k + 1]
  <2> DEFINE p == SubSeq(list, 1, i - 1)
             q == SubSeq(list, i + 1, Len(list))
  <2>1. list \in Seq(Calls) /\ Len(list) \in Nat /\ DOMAIN list = 1 .. Len(list)
        /\ i \in 1 .. Len(list)
    BY DEF WaitTypes
  <2>2. p \in Seq(Calls) /\ Len(p) = i - 1 /\ \A k \in 1 .. i - 1 : p[k] = list[k]
    BY <2>1
  <2>3. q \in Seq(Calls) /\ Len(q) = Len(list) - i
    BY <2>1
  <2>4. \A k \in 1 .. Len(list) - i : q[k] = list[k + i]
    BY <2>1, SMTT(30)
  <2> HIDE DEF p, q
  <2>5. list' = p \o q
    BY <1>6 DEF p, q
  <2>6. /\ Len(list') = Len(p) + Len(q)
        /\ DOMAIN list' = 1 .. Len(p) + Len(q)
        /\ \A k \in 1 .. Len(p) : list'[k] = p[k]
        /\ \A k \in Len(p) + 1 .. Len(p) + Len(q) : list'[k] = q[k - Len(p)]
    <3>1. p \in Seq(Calls) /\ q \in Seq(Calls)
      BY <2>2, <2>3
    <3> QED BY <2>5, <3>1
  <2>7. Len(list') = Len(list) - 1 /\ DOMAIN list' = 1 .. Len(list) - 1
    <3>1. Len(p) + Len(q) = Len(list) - 1
      BY <2>1, <2>2, <2>3
    <3> QED BY <2>6, <3>1
  <2>8. ASSUME NEW k \in 1 .. Len(list) - 1, k < i PROVE list'[k] = list[k]
    <3>1. k \in 1 .. i - 1 /\ k \in 1 .. Len(p)
      BY <2>1, <2>2, <2>8
    <3> QED BY <2>2, <2>6, <3>1
  <2>9. ASSUME NEW k \in 1 .. Len(list) - 1, k >= i PROVE list'[k] = list[k + 1]
    <3>1. k - (i - 1) \in 1 .. Len(list) - i /\ k - (i - 1) + i = k + 1
      BY <2>1, <2>9
    <3>2. list'[k] = q[k - (i - 1)]
      <4>1. Len(p) = i - 1 /\ k \in Len(p) + 1 .. Len(p) + Len(q)
        BY <2>1, <2>2, <2>3, <2>9
      <4> QED BY <2>6, <4>1
    <3> QED BY <2>4, <3>1, <3>2
  <2> QED BY <2>1, <2>7, <2>8, <2>9
<1>8. \A j \in DOMAIN list : list[j] = c => j = i
  BY <1>6 DEF WaitCore, ListTrue
<1>9. ListTrue'
  <2>1. ASSUME NEW k \in DOMAIN list' PROVE list'[k] \in Linked \ {c}
    <3>1. CASE k < i
      <4>1. k \in DOMAIN list /\ list'[k] = list[k] /\ k # i
        BY <1>7, <3>1
      <4> QED BY <1>8, <4>1 DEF WaitCore, ListTrue
    <3>2. CASE k >= i
      <4>1. k + 1 \in DOMAIN list /\ list'[k] = list[k + 1] /\ k + 1 # i
        BY <1>7, <3>2
      <4> QED BY <1>8, <4>1 DEF WaitCore, ListTrue
    <3> QED BY <1>7, <3>1, <3>2
  <2>2. ASSUME NEW x \in Linked \ {c} PROVE \E k \in DOMAIN list' : list'[k] = x
    <3>1. PICK j \in DOMAIN list : list[j] = x
      BY <2>2 DEF WaitCore, ListTrue
    <3>2. j # i
      BY <1>6, <2>2, <3>1
    <3>3. CASE j < i
      <4>1. j \in DOMAIN list' /\ list'[j] = list[j]
        BY <1>7, <3>3
      <4> QED BY <3>1, <4>1
    <3>4. CASE j > i
      <4>1. j - 1 \in 1 .. Len(list) - 1 /\ j - 1 >= i /\ j - 1 + 1 = j
        BY <1>7, <3>4
      <4>2. list'[j - 1] = list[j]
        BY <1>7, <4>1
      <4> QED BY <1>7, <3>1, <4>1, <4>2
    <3> QED BY <1>7, <3>2, <3>3, <3>4
  <2>3. ASSUME NEW j \in DOMAIN list', NEW k \in DOMAIN list', list'[j] = list'[k]
        PROVE  j = k
    <3> DEFINE Old(n) == IF n < i THEN n ELSE n + 1
    <3>1. \A n \in DOMAIN list' : Old(n) \in DOMAIN list /\ list'[n] = list[Old(n)]
      BY <1>7
    <3>2. Old(j) = Old(k)
      BY <2>3, <3>1 DEF WaitCore, ListTrue
    <3> QED BY <1>7, <3>2
  <2> QED BY <1>2, <2>1, <2>2, <2>3 DEF ListTrue
<1>10. ListOrder'
  <2> SUFFICES ASSUME NEW j \in DOMAIN list', NEW k \in DOMAIN list', j < k,
                      wpc'[list'[j]] = "unlink", list'[k] \in Holding
               PROVE  comp'[list'[j]] # comp'[list'[k]]
    BY <1>2 DEF ListOrder
  <2> DEFINE Old(n) == IF n < i THEN n ELSE n + 1
  <2>1. \A n \in DOMAIN list' : Old(n) \in DOMAIN list /\ list'[n] = list[Old(n)]
    BY <1>7
  <2>2. Old(j) < Old(k)
    BY <1>7
  <2>3. \A n \in DOMAIN list' : list'[n] \in Calls /\ list'[n] # c
    BY <1>2, <1>9 DEF ListTrue, Linked, WaitTypes
  <2>4. wpc[list[Old(j)]] = "unlink" /\ list[Old(k)] \in Holding
    BY <1>1, <2>1, <2>3
  <2> HIDE DEF Old
  <2>5. comp[list[Old(j)]] # comp[list[Old(k)]]
    BY <2>1, <2>2, <2>4 DEF WaitCore, ListOrder
  <2> QED BY <1>1, <2>1, <2>3, <2>5
<1> QED BY <1>4, <1>9, <1>10 DEF WaitCore

\* What the steps of others leave of the calls.
CallsAlone == UNCHANGED <<bits, list, wpc, comp, seen, waitHistory>>

LEMMA CallSteps ==
  ASSUME [Next]_msgVars
  PROVE  \/ CallsAlone
         \/ \E c \in Calls : WaitStep(c) \/ RequestSent(c)
<1>1. CASE UNCHANGED msgVars
  BY <1>1 DEF msgVars, waitVars, entryVars, CallsAlone
<1>2. CASE CardTakes \/ (\E e \in offloaded : CardDrops(e)) \/ (\E q \in asks : CardAnswers(q))
             \/ (\E on \in BOOLEAN : SetState(on))
  BY <1>2 DEF CardTakes, CardDrops, CardAnswers, SetState, waitVars, entryVars, CallsAlone
<1>3. CASE \E r \in Rings : CardSends(r) \/ CardGoesOn(r) \/ Poll(r) \/ Wake(r) \/ Offload(r)
                              \/ DestroyCtx(r)
  BY <1>3 DEF CardSends, CardGoesOn, Poll, Wake, Offload, DestroyCtx, waitVars, entryVars,
              CallsAlone
<1>4. CASE \E r \in Rings : Take(r)
  BY <1>4 DEF Take, TakePacket, TakeGone, TakeAnswer, waitVars, entryVars, CallsAlone
<1>5. CASE Reset
  BY <1>5 DEF Reset, DetachWakes, CallsAlone
<1>6. CASE \E c \in Calls : Wait(c)
  BY <1>6 DEF Wait
<1> QED BY <1>1, <1>2, <1>3, <1>4, <1>5, <1>6 DEF Next

\* What is found is an entry of the list or nothing.
LEMMA FoundIs ==
  ASSUME WaitTypes, NEW id
  PROVE  Found(id) \subseteq Calls \cup {NoCall}
BY DEF WaitTypes, Found, Matching

\* The answer a poll is about to give is of a call.
LEMMA AnswerIs ==
  ASSUME RingTypes, NEW r \in Rings, NEW n \in Open(r)
  PROVE  sent[r][n].kind = "answer" /\ sent[r][n].call \in Calls /\ sent[r][n].id \in Nat
<1>1. n \in DOMAIN sent[r] /\ sent[r][n].kind = "answer"
  BY DEF Open
<1>2. sent[r][n] \in Msgs
  BY <1>1 DEF RingTypes
<1> QED BY <1>1, <1>2 DEF Msgs

LEMMA WaitTypesKept ==
  ASSUME RingTypes, WaitTypes, FoundRight, [Next]_msgVars
  PROVE  WaitTypes'
<1> DEFINE Places == {"new", "mark", "link", "send", "wait", "clear", "unlink", "returned"}
<1>1. found' \in [Rings -> Calls \cup {NoCall}]
  <2>1. CASE UNCHANGED found
    BY <2>1 DEF WaitTypes
  <2>2. ASSUME NEW r \in Rings, Take(r) PROVE found' \in [Rings -> Calls \cup {NoCall}]
    BY <2>2, FoundIs DEF Take, TakePacket, TakeGone, TakeAnswer, WaitTypes
  <2>3. ASSUME NEW r \in Rings, Wake(r) PROVE found' \in [Rings -> Calls \cup {NoCall}]
    BY <2>3 DEF Wake, WaitTypes
  <2>4. CASE UNCHANGED msgVars
    BY <2>1, <2>4 DEF msgVars
  <2>5. CASE CardTakes \/ (\E e \in offloaded : CardDrops(e)) \/ (\E q \in asks : CardAnswers(q))
             \/ (\E c \in Calls : Wait(c)) \/ (\E on \in BOOLEAN : SetState(on))
    BY <2>1, <2>5 DEF CardTakes, CardDrops, CardAnswers, Wait, SetState
  <2>6. CASE \E r \in Rings : CardSends(r) \/ CardGoesOn(r) \/ Poll(r) \/ Offload(r)
                                \/ DestroyCtx(r)
    BY <2>1, <2>6 DEF CardSends, CardGoesOn, Poll, Offload, DestroyCtx
  <2>7. CASE Reset
    BY <2>1, <2>7 DEF Reset
  <2> QED BY <2>2, <2>3, <2>4, <2>5, <2>6, <2>7 DEF Next
<1>2. woken' \in [Calls -> SUBSET Calls]
  <2>1. CASE UNCHANGED woken
    BY <2>1 DEF WaitTypes
  <2>2. ASSUME NEW r \in Rings, Wake(r) PROVE woken' \in [Calls -> SUBSET Calls]
    <3>1. sent[r][Len(handled[r])].call \in Calls
      BY <2>2, AnswerIs DEF Wake, FoundRight
    <3> QED BY <2>2, <3>1 DEF Wake, Wakes, WaitTypes
  <2>3. CASE UNCHANGED msgVars
    BY <2>1, <2>3 DEF msgVars, waitVars, entryVars
  <2>4. CASE CardTakes \/ (\E e \in offloaded : CardDrops(e)) \/ (\E q \in asks : CardAnswers(q))
             \/ (\E on \in BOOLEAN : SetState(on))
    BY <2>1, <2>4 DEF CardTakes, CardDrops, CardAnswers, SetState, waitVars, entryVars
  <2>5. CASE \E c \in Calls : Wait(c)
    BY <2>1, <2>5 DEF Wait, WaitStep, SetupId, SetupMark, SetupLink, RequestFails,
           RequestSent, WaitEnds, WaitClears, WaitUnlinks, entryVars
  <2>6. CASE \E r \in Rings : CardSends(r) \/ CardGoesOn(r) \/ Poll(r) \/ Offload(r)
                                \/ DestroyCtx(r)
    BY <2>1, <2>6 DEF CardSends, CardGoesOn, Poll, Offload, DestroyCtx, waitVars, entryVars
  <2>7. CASE \E r \in Rings : Take(r)
    BY <2>1, <2>7 DEF Take, TakePacket, TakeGone, TakeAnswer, waitVars, entryVars
  <2>8. CASE Reset
    BY <2>1, <2>8 DEF Reset, DetachWakes
  <2> QED BY <2>2, <2>3, <2>4, <2>5, <2>6, <2>7, <2>8 DEF Next
<1>3. CASE CallsAlone
  BY <1>1, <1>2, <1>3 DEF CallsAlone, WaitTypes, waitHistory
<1>4. ASSUME NEW c \in Calls, WaitStep(c) \/ RequestSent(c) PROVE WaitTypes'
  <2>1. list' \in Seq(Calls)
    <3>1. CASE SetupLink(c)
      <4>1. seen[c] \in Seq(Calls) /\ <<c>> \in Seq(Calls)
        BY <3>1 DEF SetupLink, WaitTypes
      <4>2. <<c>> \o seen[c] \in Seq(Calls)
        BY <4>1
      <4> QED BY <3>1, <4>2 DEF SetupLink, AddEntry
    <3>2. CASE WaitUnlinks(c)
      <4>1. ASSUME NEW k \in DOMAIN list
            PROVE  SubSeq(list, 1, k - 1) \o SubSeq(list, k + 1, Len(list)) \in Seq(Calls)
        <5>1. list \in Seq(Calls) /\ k \in 1 .. Len(list) /\ Len(list) \in Nat
          BY DEF WaitTypes
        <5>2. SubSeq(list, 1, k - 1) \in Seq(Calls) /\ SubSeq(list, k + 1, Len(list)) \in Seq(Calls)
          BY <5>1
        <5> QED BY <5>2
      <4> QED BY <3>2, <4>1 DEF WaitUnlinks, WaitTypes
    <3>3. CASE UNCHANGED list
      BY <3>3 DEF WaitTypes
    <3> QED BY <1>4, <3>1, <3>2, <3>3 DEF WaitStep, SetupId, SetupMark, RequestFails,
           RequestSent, WaitEnds, WaitClears
  <2>2. wpc' \in [Calls -> Places] /\ \A d \in Calls \ {c} : wpc'[d] = wpc[d]
    BY <1>4 DEF WaitStep, SetupId, SetupMark, SetupLink, RequestFails,
           RequestSent, WaitEnds, WaitClears, WaitUnlinks, WaitGo, WaitTypes
  <2>3. DOMAIN seen' = Calls /\ \A d \in Calls \ {c} : seen'[d] = seen[d]
    BY <1>4 DEF WaitStep, SetupId, SetupMark, SetupLink, RequestFails,
           RequestSent, WaitEnds, WaitClears, WaitUnlinks, WaitTypes
  <2>4. wpc'[c] = "link" => seen'[c] \in Seq(Calls)
    BY <1>4 DEF WaitStep, SetupId, SetupMark, SetupLink, RequestFails,
           RequestSent, WaitEnds, WaitClears, WaitUnlinks, WaitGo, WaitTypes
  <2>5. /\ abandoned' \subseteq Calls /\ \A d \in abandoned' : d # c => d \in abandoned
        /\ c \in abandoned' => wpc'[c] = "returned"
    BY <1>4 DEF WaitStep, SetupId, SetupMark, SetupLink, RequestFails,
           RequestSent, WaitEnds, WaitClears, WaitUnlinks, WaitGo, WaitTypes, waitHistory
  <2>6. /\ gaveUp' \subseteq Calls /\ \A d \in gaveUp' : d # c => d \in gaveUp
        /\ c \in gaveUp' => wpc'[c] \in {"clear", "unlink", "returned"}
    BY <1>4 DEF WaitStep, SetupId, SetupMark, SetupLink, RequestFails,
           RequestSent, WaitEnds, WaitClears, WaitUnlinks, WaitGo, WaitTypes, waitHistory
  <2> QED BY <1>1, <1>2, <2>1, <2>2, <2>3, <2>4, <2>5, <2>6 DEF WaitTypes
<1> QED BY <1>3, <1>4, CallSteps

LEMMA WaitInvStep ==
  ASSUME RingTypes, CardTypes, WaitInv, FoundRight, [Next]_msgVars
  PROVE  WaitInv'
<1>1. WaitTypes'
  BY WaitTypesKept DEF WaitInv
<1>2. ASSUME ~raced' PROVE WaitCore'
  <2>1. CASE CallsAlone
    BY <1>2, <2>1, SameCore DEF CallsAlone, waitHistory, WaitInv, WaitCore
  <2>2. ASSUME NEW c \in Calls, WaitStep(c) \/ RequestSent(c) PROVE WaitCore'
    <3>1. WaitTypes /\ WaitCore /\ comp \in [Calls -> Nat]
      BY <1>2, <2>2 DEF WaitInv, WaitCore, CardTypes, WaitStep, SetupId, SetupMark, SetupLink,
           RequestFails, RequestSent, WaitEnds, WaitClears, WaitUnlinks, waitHistory
    <3>2. SetupMark(c) => bits = seen[c]
      BY <1>2 DEF SetupMark
    <3>3. SetupLink(c) => list = seen[c]
      BY <1>2 DEF SetupLink
    <3> QED BY <2>2, <3>1, <3>2, <3>3, SetupIdKeeps, SetupMarkKeeps, SetupLinkKeeps,
               RequestKeeps, WaitClearsKeeps, WaitUnlinksKeeps DEF WaitStep
  <2> QED BY <2>1, <2>2, CallSteps
<1> QED BY <1>1, <1>2 DEF WaitInv, WaitCore
-----------------------------------------------------------------------------
(* Requests and answers.                                                   *)

\* Nothing is under way that was not before.
NoMore ==
  /\ \A d \in Calls : AtMostOne(InCmds(d)') /\ (InCmds(d)' # {} => InCmds(d) # {})
  /\ \A k \in DOMAIN cmds' : cmds'[k].kind = "ask" => \E j \in DOMAIN cmds : cmds[j] = cmds'[k]
  /\ asks' \subseteq asks
  /\ \A m \in due' : m.kind = "answer" => m \in due
  /\ \A r \in Rings : /\ Open(r)' \subseteq Open(r)
                      /\ \A n \in Open(r)' : sent'[r][n] = sent[r][n]

LEMMA NoMoreAlone ==
  ASSUME AllAlone, NoMore
  PROVE  AllAlone'
<1> SUFFICES ASSUME NEW d \in Calls
             PROVE  Alone(InCmds(d)', InAsks(d)', InDue(d)', InSent(d)')
  BY DEF AllAlone
<1>1. InAsks(d)' \subseteq InAsks(d) /\ InDue(d)' \subseteq InDue(d)
  BY DEF NoMore, InAsks, InDue
<1>2. InSent(d)' \subseteq InSent(d)
  BY DEF NoMore, InSent
<1>3. AtMostOne(InCmds(d)') /\ (InCmds(d)' # {} => InCmds(d) # {})
  BY DEF NoMore
<1>4. Alone(InCmds(d), InAsks(d), InDue(d), InSent(d))
  BY DEF AllAlone
<1> QED BY <1>1, <1>2, <1>3, <1>4 DEF Alone, AtMostOne

LEMMA NoMoreAwaited ==
  ASSUME AllAwaited, NoMore,
         \A d \in Calls, id \in Nat : UnderWay(d, id)' /\ Awaited(d, id) => Awaited(d, id)'
  PROVE  AllAwaited'
<1>1. ASSUME NEW d \in Calls, NEW id \in Nat, UnderWay(d, id)' PROVE UnderWay(d, id)
  <2>1. CASE \E k \in DOMAIN cmds' :
               cmds'[k].kind = "ask" /\ cmds'[k].call = d /\ cmds'[k].id = id
    BY <2>1 DEF NoMore, UnderWay
  <2>2. CASE \E q \in asks' : q.call = d /\ q.id = id
    BY <2>2 DEF NoMore, UnderWay
  <2>3. CASE \E m \in due' : m.kind = "answer" /\ m.call = d /\ m.id = id
    BY <2>3 DEF NoMore, UnderWay
  <2>4. CASE \E r \in Rings : \E n \in Open(r)' : sent'[r][n].call = d /\ sent'[r][n].id = id
    BY <2>4 DEF NoMore, UnderWay
  <2> QED BY <1>1, <2>1, <2>2, <2>3, <2>4 DEF UnderWay
<1> QED BY <1>1 DEF AllAwaited

\* The request ring: unchanged, longer by a request of no call, or shorter.
LEMMA CmdsStay ==
  ASSUME cmds \in Seq(Reqs), AllAlone,
         \/ UNCHANGED cmds
         \/ \E q \in Reqs : q.kind # "ask" /\ cmds' = Append(cmds, q)
         \/ cmds # <<>> /\ cmds' = Tail(cmds)
  PROVE  /\ \A d \in Calls : AtMostOne(InCmds(d)') /\ (InCmds(d)' # {} => InCmds(d) # {})
         /\ \A k \in DOMAIN cmds' : cmds'[k].kind = "ask" =>
              \E j \in DOMAIN cmds : cmds[j] = cmds'[k]
<1>1. \A d \in Calls : AtMostOne(InCmds(d))
  BY DEF AllAlone, Alone
<1>2. CASE UNCHANGED cmds
  BY <1>1, <1>2 DEF InCmds
<1>3. ASSUME NEW q \in Reqs, q.kind # "ask", cmds' = Append(cmds, q)
      PROVE  /\ \A d \in Calls : InCmds(d)' = InCmds(d)
             /\ \A k \in DOMAIN cmds' : cmds'[k].kind = "ask" =>
                  \E j \in DOMAIN cmds : cmds[j] = cmds'[k]
  <2>1. /\ DOMAIN cmds = 1 .. Len(cmds) /\ DOMAIN cmds' = 1 .. Len(cmds) + 1
        /\ Len(cmds) \in Nat /\ cmds'[Len(cmds) + 1] = q
        /\ \A k \in 1 .. Len(cmds) : cmds'[k] = cmds[k]
    BY <1>3
  <2>2. /\ \A k \in 1 .. Len(cmds) + 1 : k = Len(cmds) + 1 \/ k \in 1 .. Len(cmds)
        /\ \A k \in 1 .. Len(cmds) : k \in 1 .. Len(cmds) + 1
    <3> DEFINE n == Len(cmds)
    <3>1. n \in Nat
      BY <2>1
    <3> HIDE DEF n
    <3>2. /\ \A k \in 1 .. n + 1 : k = n + 1 \/ k \in 1 .. n
          /\ \A k \in 1 .. n : k \in 1 .. n + 1
      BY <3>1
    <3> QED BY <3>2 DEF n
  <2> QED BY <1>3, <2>1, <2>2 DEF InCmds
<1>4. ASSUME cmds # <<>>, cmds' = Tail(cmds)
      PROVE  /\ \A d \in Calls : AtMostOne(InCmds(d)') /\ (InCmds(d)' # {} => InCmds(d) # {})
             /\ \A k \in DOMAIN cmds' : cmds'[k].kind = "ask" =>
                  \E j \in DOMAIN cmds : cmds[j] = cmds'[k]
  <2>1. \A k \in DOMAIN cmds' : k + 1 \in DOMAIN cmds /\ cmds'[k] = cmds[k + 1] /\ k \in Nat
    BY <1>4
  <2>2. ASSUME NEW d \in Calls, NEW j \in InCmds(d)' PROVE j + 1 \in InCmds(d) /\ j \in Nat
    BY <2>1, <2>2 DEF InCmds
  <2>3. ASSUME NEW d \in Calls, NEW j \in InCmds(d)', NEW k \in InCmds(d)' PROVE j = k
    <3>1. j + 1 = k + 1 /\ j \in Nat /\ k \in Nat
      BY <1>1, <2>2 DEF AtMostOne
    <3> QED BY <3>1
  <2>4. \A d \in Calls : AtMostOne(InCmds(d)')
    BY <2>3 DEF AtMostOne
  <2>5. \A d \in Calls : InCmds(d)' # {} => InCmds(d) # {}
    BY <2>2
  <2> QED BY <2>1, <2>4, <2>5
<1> QED BY <1>1, <1>2, <1>3, <1>4

LEMMA OpenSame ==
  ASSUME NEW r \in Rings, sent'[r] = sent[r], handled'[r] = handled[r],
         rpc'[r] = "wake" <=> rpc[r] = "wake"
  PROVE  Open(r)' = Open(r)
BY DEF Open

\* A message the card begins is one more to take.
LEMMA OpenBegins ==
  ASSUME RingTypes, \A r \in Rings : RingOK(r), NEW s \in Rings, NEW m \in Msgs, CardBegins(s, m)
  PROVE  /\ \A r \in Rings \ {s} : Open(r)' = Open(r) /\ sent'[r] = sent[r]
         /\ Open(s)' = Open(s) \cup IF m.kind = "answer" THEN {Len(sent[s]) + 1} ELSE {}
         /\ \A n \in Open(s) : n # Len(sent[s]) + 1 /\ sent'[s][n] = sent[s][n]
         /\ sent'[s][Len(sent[s]) + 1] = m
         /\ Len(sent[s]) + 1 \in Nat
<1>1. /\ sent' = [sent EXCEPT ![s] = Append(sent[s], m)]
      /\ UNCHANGED <<handled, rpc>> /\ sent \in [Rings -> Seq(Msgs)]
  BY DEF CardBegins, pollSide, RingTypes
<1>2. \A r \in Rings \ {s} : Open(r)' = Open(r) /\ sent'[r] = sent[r]
  BY <1>1, OpenSame
<1>3. /\ Len(sent[s]) \in Nat /\ DOMAIN sent[s] = 1 .. Len(sent[s])
      /\ DOMAIN sent'[s] = 1 .. Len(sent[s]) + 1
      /\ sent'[s][Len(sent[s]) + 1] = m
      /\ \A n \in 1 .. Len(sent[s]) : sent'[s][n] = sent[s][n]
  BY <1>1
<1>4. Len(handled[s]) \in Nat /\ Len(handled[s]) <= Len(sent[s])
  BY DEF RingTypes, RingOK, Handled
<1>5. /\ \A n \in 1 .. Len(sent[s]) + 1 : n = Len(sent[s]) + 1 \/ n \in 1 .. Len(sent[s])
      /\ \A n \in 1 .. Len(sent[s]) : n # Len(sent[s]) + 1 /\ n \in 1 .. Len(sent[s]) + 1
      /\ Len(sent[s]) + 1 \in 1 .. Len(sent[s]) + 1
      /\ Len(sent[s]) + 1 > Len(handled[s])
  BY <1>3, <1>4
<1>6. Open(s) \subseteq 1 .. Len(sent[s])
  BY <1>3 DEF Open
<1>7. Open(s)' = Open(s) \cup IF m.kind = "answer" THEN {Len(sent[s]) + 1} ELSE {}
  <2>1. ASSUME NEW n PROVE n \in Open(s)' <=>
                              n \in Open(s) \/ (n = Len(sent[s]) + 1 /\ m.kind = "answer")
    BY <1>1, <1>3, <1>5 DEF Open
  <2> QED BY <2>1
<1> QED BY <1>2, <1>3, <1>5, <1>6, <1>7

\* What a poll takes stays under way until it is given.
LEMMA OpenTake ==
  ASSUME RingTypes, \A r \in Rings : RingOK(r), NEW s \in Rings, Take(s)
  PROVE  /\ \A r \in Rings : Open(r)' = Open(r) /\ sent'[r] = sent[r]
         /\ First(s).m = Len(handled[s]) + 1 /\ Len(handled'[s]) = Len(handled[s]) + 1
         /\ TakeAnswer(s, sent[s][First(s).m]) => Len(handled[s]) + 1 \in Open(s)
<1> DEFINE n == Len(handled[s]) + 1
<1>1. /\ TakeMessage(s) /\ rpc[s] = "poll" /\ UNCHANGED sent
      /\ Len(handled[s]) \in Nat /\ Ready(s) /\ RingOK(s)
  BY DEF Take, TakeMessage, cardSide, RingTypes
<1>2. First(s).m = n /\ n \in 1 .. Len(sent[s])
  BY <1>1, MessageIsThere
<1>3. /\ Len(handled'[s]) = n
      /\ \A r \in Rings \ {s} : handled'[r] = handled[r]
  BY <1>1 DEF TakeMessage, RingTypes
<1>4. \/ rpc'[s] = "wake" /\ sent[s][n].kind = "answer"
      \/ rpc'[s] # "wake" /\ sent[s][n].kind # "answer"
  BY <1>1, <1>2 DEF Take, TakePacket, TakeGone, TakeAnswer, To, RingTypes
<1>5. \A r \in Rings \ {s} : rpc'[r] = rpc[r]
  BY DEF Take, TakePacket, TakeGone, TakeAnswer, To, RingTypes
<1>6. \A r \in Rings \ {s} : Open(r)' = Open(r)
  BY <1>1, <1>3, <1>5, OpenSame
<1>7. DOMAIN sent[s] = 1 .. Len(sent[s]) /\ Len(sent[s]) \in Nat
  BY DEF RingTypes
<1> HIDE DEF n
<1>8. /\ n \in Nat /\ \A k \in 1 .. Len(sent[s]) : k > n - 1 <=> (k = n \/ k > n)
      /\ n - 1 = Len(handled[s]) /\ \A k \in 1 .. Len(sent[s]) : k > n => k # n
  BY <1>1, <1>7 DEF n
<1>9. Open(s)' = Open(s)
  <2>1. \A k \in 1 .. Len(sent[s]) : k \in Open(s)' <=>
          sent[s][k].kind = "answer" /\ (k > n \/ (k = n /\ rpc'[s] = "wake"))
    BY <1>1, <1>3, <1>7 DEF Open
  <2>2. \A k \in 1 .. Len(sent[s]) : k \in Open(s) <=>
          sent[s][k].kind = "answer" /\ k > n - 1
    BY <1>1, <1>7, <1>8 DEF Open
  <2>3. Open(s)' \subseteq 1 .. Len(sent[s]) /\ Open(s) \subseteq 1 .. Len(sent[s])
    BY <1>1, <1>7 DEF Open
  <2> QED BY <1>4, <1>8, <2>1, <2>2, <2>3
<1>10. TakeAnswer(s, sent[s][First(s).m]) => n \in Open(s)
  BY <1>2, <1>7, <1>8 DEF TakeAnswer, Open
<1> QED BY <1>1, <1>2, <1>3, <1>6, <1>9, <1>10 DEF n

\* A poll that gave its answer has nothing more of it.
LEMMA OpenWake ==
  ASSUME RingTypes, NEW s \in Rings, Wake(s)
  PROVE  /\ \A r \in Rings : sent'[r] = sent[r]
         /\ \A r \in Rings \ {s} : Open(r)' = Open(r)
         /\ Open(s)' = Open(s) \ {Len(handled[s])}
<1>1. /\ UNCHANGED <<sent, handled>> /\ rpc[s] = "wake" /\ rpc'[s] = "poll"
      /\ \A r \in Rings \ {s} : rpc'[r] = rpc[r]
  BY DEF Wake, To, RingTypes, cardSide, pollSide
<1>2. \A r \in Rings \ {s} : Open(r)' = Open(r)
  BY <1>1, OpenSame
<1>3. DOMAIN sent[s] = 1 .. Len(sent[s]) /\ Len(sent[s]) \in Nat /\ Len(handled[s]) \in Nat
  BY DEF RingTypes
<1>4. \A n \in 1 .. Len(sent[s]) : n > Len(handled[s]) => n # Len(handled[s])
  BY <1>3
<1>5. Open(s)' = Open(s) \ {Len(handled[s])}
  BY <1>1, <1>3, <1>4 DEF Open
<1> QED BY <1>1, <1>2, <1>5

Answering == AllAlone /\ AllAwaited /\ WokenLate

\* The invariant a step starts from.
Start == RingInv /\ WaitInv /\ AnswerInv

LEMMA NoMoreAnswering ==
  ASSUME Start, CallsAlone, UNCHANGED woken, NoMore
  PROVE  Answering'
<1>1. \A d \in Calls, id \in Nat : Awaited(d, id) => Awaited(d, id)'
  BY DEF CallsAlone, waitHistory, Awaited
<1>2. AllAlone' /\ AllAwaited'
  BY <1>1, NoMoreAlone, NoMoreAwaited DEF Start, AnswerInv
<1>3. WokenLate'
  BY DEF Start, AnswerInv, CallsAlone, WokenLate
<1> QED BY <1>2, <1>3 DEF Answering

\* The card takes a request: the request is with the card, and no more in the ring.
LEMMA CardTakesAnswering ==
  ASSUME Start, CardTakes
  PROVE  Answering'
<1> DEFINE q == Head(cmds)
<1>1. /\ cmds # <<>> /\ cmds' = Tail(cmds) /\ cmds \in Seq(Reqs) /\ q \in Reqs
      /\ CallsAlone /\ UNCHANGED <<woken, sent, handled, rpc>>
  BY DEF CardTakes, Start, RingInv, CardTypes, waitVars, entryVars, ringVars, cardSide, pollSide,
         CallsAlone
<1>2. \A r \in Rings : Open(r)' = Open(r) /\ sent'[r] = sent[r]
  BY <1>1, OpenSame
<1>3. /\ \A d \in Calls : AtMostOne(InCmds(d)') /\ (InCmds(d)' # {} => InCmds(d) # {})
      /\ \A k \in DOMAIN cmds' : cmds'[k].kind = "ask" =>
           \E j \in DOMAIN cmds : cmds[j] = cmds'[k]
  BY <1>1, CmdsStay DEF Start, AnswerInv
<1>4. CASE q.kind # "ask"
  <2>1. asks' = asks
    BY <1>4 DEF CardTakes
  <2>2. \A m \in due' : m.kind = "answer" => m \in due
    BY DEF CardTakes, Gone
  <2>3. NoMore
    BY <1>2, <1>3, <2>1, <2>2 DEF NoMore
  <2> QED BY <1>1, <2>3, NoMoreAnswering
<1>5. CASE q.kind = "ask"
  <2>1. asks' = asks \cup {q} /\ UNCHANGED due
    BY <1>5 DEF CardTakes
  <2>2. 1 \in DOMAIN cmds /\ cmds[1] = q
    BY <1>1
  <2>3. q.call \in Calls
    BY <1>1, <1>5 DEF Reqs
  <2>4. ASSUME NEW d \in Calls
        PROVE  Alone(InCmds(d)', InAsks(d)', InDue(d)', InSent(d)')
    <3>1. Alone(InCmds(d), InAsks(d), InDue(d), InSent(d))
      BY DEF Start, AnswerInv, AllAlone
    <3>2. InDue(d)' = InDue(d) /\ InSent(d)' = InSent(d)
      BY <1>2, <2>1 DEF InDue, InSent
    <3>3. CASE d # q.call
      <4>1. InAsks(d)' = InAsks(d)
        BY <2>1, <3>3 DEF InAsks
      <4> QED BY <1>3, <3>1, <3>2, <4>1 DEF Alone
    <3>4. CASE d = q.call
      <4>1. 1 \in InCmds(d)
        BY <1>5, <2>2, <3>4 DEF InCmds
      <4>2. InCmds(d) = {1} /\ InAsks(d) = {} /\ InDue(d) = {} /\ InSent(d) = {}
        BY <3>1, <4>1 DEF Alone, AtMostOne
      <4>3. InAsks(d)' = {q}
        BY <2>1, <3>4, <4>2 DEF InAsks
      <4>4. InCmds(d)' = {}
        <5>1. ASSUME NEW k \in InCmds(d)' PROVE FALSE
          <6>1. k \in Nat /\ k >= 1 /\ k + 1 \in InCmds(d)
            BY <1>1, <5>1 DEF InCmds
          <6> QED BY <4>2, <6>1
        <5> QED BY <5>1
      <4> QED BY <3>2, <4>2, <4>3, <4>4 DEF Alone, AtMostOne
    <3> QED BY <3>3, <3>4
  <2>5. ASSUME NEW d \in Calls, NEW id \in Nat, UnderWay(d, id)' PROVE UnderWay(d, id)
    <3>1. CASE \E k \in DOMAIN cmds' :
                 cmds'[k].kind = "ask" /\ cmds'[k].call = d /\ cmds'[k].id = id
      BY <1>3, <3>1 DEF UnderWay
    <3>2. CASE \E x \in asks' : x.call = d /\ x.id = id
      BY <1>5, <2>1, <2>2, <3>2 DEF UnderWay
    <3>3. CASE \E m \in due' : m.kind = "answer" /\ m.call = d /\ m.id = id
      BY <2>1, <3>3 DEF UnderWay
    <3>4. CASE \E r \in Rings : \E n \in Open(r)' : sent'[r][n].call = d /\ sent'[r][n].id = id
      BY <1>2, <3>4 DEF UnderWay
    <3> QED BY <2>5, <3>1, <3>2, <3>3, <3>4 DEF UnderWay
  <2>6. AllAwaited' /\ WokenLate'
    BY <1>1, <2>5 DEF Start, AnswerInv, AllAwaited, WokenLate, CallsAlone, waitHistory, Awaited
  <2>7. AllAlone'
    BY <2>4 DEF AllAlone
  <2> QED BY <2>6, <2>7 DEF Answering
<1> QED BY <1>4, <1>5

\* The card has the answer ready.
LEMMA CardAnswersAnswering ==
  ASSUME Start, NEW q \in asks, CardAnswers(q)
  PROVE  Answering'
<1>1. /\ asks' = asks \ {q} /\ CallsAlone /\ UNCHANGED <<cmds, woken, sent, handled, rpc>>
      /\ q \in Reqs /\ q.kind = "ask" /\ q.call \in Calls
  BY DEF CardAnswers, Start, RingInv, CardTypes, Reqs, waitVars, entryVars, ringVars, cardSide,
         pollSide, CallsAlone
<1>2. PICK l \in Lengths : due' = due \cup {Answer(q, l)}
  BY DEF CardAnswers
<1>3. Answer(q, l).kind = "answer" /\ Answer(q, l).call = q.call /\ Answer(q, l).id = q.id
  BY DEF Answer
<1>4. \A r \in Rings : Open(r)' = Open(r) /\ sent'[r] = sent[r]
  BY <1>1, OpenSame
<1>5. ASSUME NEW d \in Calls
      PROVE  Alone(InCmds(d)', InAsks(d)', InDue(d)', InSent(d)')
  <2>1. Alone(InCmds(d), InAsks(d), InDue(d), InSent(d))
    BY DEF Start, AnswerInv, AllAlone
  <2>2. InCmds(d)' = InCmds(d) /\ InSent(d)' = InSent(d)
    BY <1>1, <1>4 DEF InCmds, InSent
  <2>3. CASE d # q.call
    <3>1. InAsks(d)' = InAsks(d) /\ InDue(d)' = InDue(d)
      BY <1>1, <1>2, <1>3, <2>3 DEF InAsks, InDue
    <3> QED BY <2>1, <2>2, <3>1
  <2>4. CASE d = q.call
    <3>1. q \in InAsks(d)
      BY <2>4 DEF InAsks
    <3>2. InAsks(d) = {q} /\ InCmds(d) = {} /\ InDue(d) = {} /\ InSent(d) = {}
      BY <2>1, <3>1 DEF Alone, AtMostOne
    <3>3. InAsks(d)' = {}
      BY <1>1, <3>2 DEF InAsks
    <3>4. InDue(d)' = {Answer(q, l)}
      BY <1>2, <1>3, <2>4, <3>2 DEF InDue
    <3> QED BY <2>2, <3>2, <3>3, <3>4 DEF Alone, AtMostOne
  <2> QED BY <2>3, <2>4
<1>6. ASSUME NEW d \in Calls, NEW id \in Nat, UnderWay(d, id)' PROVE UnderWay(d, id)
  <2>1. CASE \E k \in DOMAIN cmds' :
               cmds'[k].kind = "ask" /\ cmds'[k].call = d /\ cmds'[k].id = id
    BY <1>1, <2>1 DEF UnderWay
  <2>2. CASE \E x \in asks' : x.call = d /\ x.id = id
    BY <1>1, <2>2 DEF UnderWay
  <2>3. CASE \E m \in due' : m.kind = "answer" /\ m.call = d /\ m.id = id
    BY <1>2, <1>3, <2>3 DEF UnderWay
  <2>4. CASE \E r \in Rings : \E n \in Open(r)' : sent'[r][n].call = d /\ sent'[r][n].id = id
    BY <1>4, <2>4 DEF UnderWay
  <2> QED BY <1>6, <2>1, <2>2, <2>3, <2>4 DEF UnderWay
<1>7. AllAwaited' /\ WokenLate'
  BY <1>1, <1>6 DEF Start, AnswerInv, AllAwaited, WokenLate, CallsAlone, waitHistory, Awaited
<1>8. AllAlone'
  BY <1>5 DEF AllAlone
<1> QED BY <1>7, <1>8 DEF Answering

\* It sends the answer in a message of a ring, or another message.
LEMMA CardSendsAnswering ==
  ASSUME Start, NEW s \in Rings, CardSends(s)
  PROVE  Answering'
<1>1. CallsAlone /\ UNCHANGED <<cmds, asks, woken>>
  BY DEF CardSends, waitVars, entryVars, CallsAlone
<1>2. \/ \E m \in due : CardBegins(s, m) /\ due' = due \ {m}
      \/ \E m \in Msgs : CardBegins(s, m) /\ m.kind # "answer" /\ due' = due
  BY PacketIs DEF CardSends, Start, RingInv
<1>3. RingTypes /\ \A r \in Rings : RingOK(r)
  BY DEF Start, RingInv
<1>4. ASSUME NEW m \in Msgs, CardBegins(s, m), m.kind # "answer",
             \A x \in due' : x \in due
      PROVE  Answering'
  <2>1. \A r \in Rings : /\ Open(r)' \subseteq Open(r)
                         /\ \A n \in Open(r)' : sent'[r][n] = sent[r][n]
    BY <1>3, <1>4, OpenBegins
  <2>2. NoMore
    BY <1>1, <1>4, <2>1 DEF NoMore, Start, AnswerInv, AllAlone, Alone, InCmds
  <2> QED BY <1>1, <2>2, NoMoreAnswering
<1>5. ASSUME NEW m \in due, CardBegins(s, m), m.kind = "answer", due' = due \ {m}
      PROVE  Answering'
  <2>1. m \in Msgs /\ m.call \in Calls
    BY <1>5 DEF Start, RingInv, CardTypes, Msgs
  <2> DEFINE n == Len(sent[s]) + 1
  <2>2. /\ \A r \in Rings \ {s} : Open(r)' = Open(r) /\ sent'[r] = sent[r]
        /\ Open(s)' = Open(s) \cup {n}
        /\ \A k \in Open(s) : k # n /\ sent'[s][k] = sent[s][k]
        /\ sent'[s][n] = m /\ n \in Nat
    BY <1>3, <1>5, <2>1, OpenBegins
  <2> HIDE DEF n
  <2>3. ASSUME NEW d \in Calls
        PROVE  Alone(InCmds(d)', InAsks(d)', InDue(d)', InSent(d)')
    <3>1. Alone(InCmds(d), InAsks(d), InDue(d), InSent(d))
      BY DEF Start, AnswerInv, AllAlone
    <3>2. InCmds(d)' = InCmds(d) /\ InAsks(d)' = InAsks(d)
      BY <1>1 DEF InCmds, InAsks
    <3>3. ASSUME NEW r \in Rings, NEW k \in Nat
          PROVE  <<r, k>> \in InSent(d)' <=>
                   <<r, k>> \in InSent(d) \/ (r = s /\ k = n /\ d = m.call)
      BY <2>2 DEF InSent
    <3>4. CASE d # m.call
      <4>1. InDue(d)' = InDue(d)
        BY <1>5, <3>4 DEF InDue
      <4>2. InSent(d)' = InSent(d)
        BY <3>3, <3>4 DEF InSent
      <4> QED BY <3>1, <3>2, <4>1, <4>2
    <3>5. CASE d = m.call
      <4>1. m \in InDue(d)
        BY <1>5, <3>5 DEF InDue
      <4>2. InDue(d) = {m} /\ InCmds(d) = {} /\ InAsks(d) = {} /\ InSent(d) = {}
        BY <3>1, <4>1 DEF Alone, AtMostOne
      <4>3. InDue(d)' = {}
        BY <1>5, <4>2 DEF InDue
      <4>4. AtMostOne(InSent(d)')
        <5>1. ASSUME NEW x \in InSent(d)' PROVE x = <<s, n>>
          BY <3>3, <4>2, <5>1 DEF InSent
        <5> QED BY <5>1 DEF AtMostOne
      <4> QED BY <3>2, <4>2, <4>3, <4>4 DEF Alone, AtMostOne
    <3> QED BY <3>4, <3>5
  <2>4. ASSUME NEW d \in Calls, NEW id \in Nat, UnderWay(d, id)' PROVE UnderWay(d, id)
    <3>1. CASE \E k \in DOMAIN cmds' :
                 cmds'[k].kind = "ask" /\ cmds'[k].call = d /\ cmds'[k].id = id
      BY <1>1, <3>1 DEF UnderWay
    <3>2. CASE \E x \in asks' : x.call = d /\ x.id = id
      BY <1>1, <3>2 DEF UnderWay
    <3>3. CASE \E x \in due' : x.kind = "answer" /\ x.call = d /\ x.id = id
      BY <1>5, <3>3 DEF UnderWay
    <3>4. CASE \E r \in Rings : \E k \in Open(r)' : sent'[r][k].call = d /\ sent'[r][k].id = id
      BY <1>5, <2>2, <3>4 DEF UnderWay
    <3> QED BY <2>4, <3>1, <3>2, <3>3, <3>4 DEF UnderWay
  <2>5. AllAwaited' /\ WokenLate'
    BY <1>1, <2>4 DEF Start, AnswerInv, AllAwaited, WokenLate, CallsAlone, waitHistory, Awaited
  <2>6. AllAlone'
    BY <2>3 DEF AllAlone
  <2> QED BY <2>5, <2>6 DEF Answering
<1>6. due \subseteq Msgs
  BY DEF Start, RingInv, CardTypes
<1> QED BY <1>2, <1>4, <1>5, <1>6

\* The steps that move nothing.
LEMMA OthersAnswering ==
  ASSUME Start,
         \/ UNCHANGED msgVars \/ Reset
         \/ \E e \in offloaded : CardDrops(e)
         \/ \E r \in Rings : \/ CardGoesOn(r) \/ Poll(r) \/ Take(r) \/ Offload(r)
                             \/ DestroyCtx(r)
         \/ \E on \in BOOLEAN : SetState(on)
  PROVE  Answering' /\ CallsAlone /\ UNCHANGED woken
<1>1. cmds \in Seq(Reqs) /\ AllAlone /\ RingTypes /\ \A r \in Rings : RingOK(r)
  BY DEF Start, RingInv, CardTypes, AnswerInv
<1> DEFINE CmdsOK == /\ \A d \in Calls : AtMostOne(InCmds(d)') /\ (InCmds(d)' # {} => InCmds(d) # {})
                     /\ \A k \in DOMAIN cmds' : cmds'[k].kind = "ask" =>
                          \E j \in DOMAIN cmds : cmds[j] = cmds'[k]
<1>2. UNCHANGED cmds => CmdsOK
  BY <1>1, CmdsStay
<1>3. ASSUME CmdsOK, UNCHANGED <<asks, sent, handled, woken>>, CallsAlone,
             \A m \in due' : m.kind = "answer" => m \in due,
             \A r \in Rings : rpc'[r] = "wake" <=> rpc[r] = "wake"
      PROVE  Answering' /\ CallsAlone /\ UNCHANGED woken
  <2>1. \A r \in Rings : Open(r)' = Open(r) /\ sent'[r] = sent[r]
    BY <1>3, OpenSame
  <2>2. NoMore
    BY <1>3, <2>1 DEF NoMore
  <2> QED BY <1>3, <2>2, NoMoreAnswering
<1>4. CASE UNCHANGED msgVars
  BY <1>2, <1>3, <1>4 DEF msgVars, ringVars, cardSide, pollSide, waitVars, entryVars, cardMind,
                          CallsAlone
<1>5. CASE Reset
  <2>1. cmds' = <<>> /\ asks' = {} /\ due' = {} /\ CallsAlone /\ UNCHANGED woken
    BY <1>5 DEF Reset, DetachWakes, CallsAlone
  <2>2. \A r \in Rings : Open(r)' = {}
    BY <1>5 DEF Reset, RingsRenewed, Open
  <2>3. \A d \in Calls : InCmds(d)' = {}
    BY <2>1 DEF InCmds
  <2>4. NoMore
    BY <2>1, <2>2, <2>3 DEF NoMore, AtMostOne
  <2> QED BY <2>1, <2>4, NoMoreAnswering
<1>6. CASE \E e \in offloaded : CardDrops(e)
  BY <1>2, <1>3, <1>6 DEF CardDrops, Gone, ringVars, cardSide, pollSide, waitVars, entryVars,
                          CallsAlone
<1>7. ASSUME NEW r \in Rings, CardGoesOn(r) PROVE Answering' /\ CallsAlone /\ UNCHANGED woken
  BY <1>2, <1>3, <1>7 DEF CardGoesOn, CardWrites, cardMind, pollSide, waitVars, entryVars,
                          CallsAlone
<1>8. ASSUME NEW r \in Rings, Poll(r) PROVE Answering' /\ CallsAlone /\ UNCHANGED woken
  <2>1. \A s \in Rings : rpc'[s] = "wake" <=> rpc[s] = "wake"
    BY <1>1, <1>8 DEF Poll, PollBegins, PollStops, RingTypes
  <2>2. UNCHANGED <<cmds, asks, due, sent, handled, woken>> /\ CallsAlone
    BY <1>8 DEF Poll, PollBegins, PollStops, cardMind, cardSide, waitVars, entryVars, CallsAlone
  <2> QED BY <1>2, <1>3, <2>1, <2>2
<1>9. ASSUME NEW s \in Rings, Take(s) PROVE Answering' /\ CallsAlone /\ UNCHANGED woken
  <2>1. UNCHANGED <<cmds, asks, due, woken>> /\ CallsAlone
    BY <1>9 DEF Take, TakePacket, TakeGone, TakeAnswer, cardMind, waitVars, entryVars, CallsAlone
  <2>2. \A r \in Rings : Open(r)' = Open(r) /\ sent'[r] = sent[r]
    BY <1>1, <1>9, OpenTake
  <2>3. NoMore
    BY <1>2, <2>1, <2>2 DEF NoMore
  <2> QED BY <2>1, <2>3, NoMoreAnswering
<1>10. ASSUME NEW r \in Rings, Offload(r) PROVE Answering' /\ CallsAlone /\ UNCHANGED woken
  <2>1. \A s \in Rings : rpc'[s] = "wake" <=> rpc[s] = "wake"
    BY <1>1, <1>10 DEF Offload, To, RingTypes
  <2>2. UNCHANGED <<asks, due, sent, handled, woken>> /\ CallsAlone
    BY <1>10 DEF Offload, cardSide, pollSide, waitVars, entryVars, CallsAlone
  <2>3. [kind |-> "add", flow |-> hand[r], ctx |-> r] \in Reqs
    BY DEF Start, RingInv, CardTypes, Reqs
  <2>4. CmdsOK
    <3>1. CASE UNCHANGED cmds
      BY <1>2, <3>1
    <3>2. CASE cmds' = Append(cmds, [kind |-> "add", flow |-> hand[r], ctx |-> r])
      BY <1>1, <2>3, <3>2, CmdsStay
    <3> QED BY <1>10, <3>1, <3>2 DEF Offload
  <2> QED BY <1>3, <2>1, <2>2, <2>4
<1>11. ASSUME NEW r \in Rings, DestroyCtx(r) PROVE Answering' /\ CallsAlone /\ UNCHANGED woken
  BY <1>2, <1>3, <1>11 DEF DestroyCtx, ringVars, cardSide, pollSide, waitVars, entryVars, CallsAlone
<1>12. ASSUME NEW on \in BOOLEAN, SetState(on)
       PROVE  Answering' /\ CallsAlone /\ UNCHANGED woken
  <2>1. UNCHANGED <<asks, due, sent, handled, rpc, woken>> /\ CallsAlone
    BY <1>12 DEF SetState, ringVars, cardSide, pollSide, waitVars, entryVars, CallsAlone
  <2>2. CmdsOK
    <3>1. CASE UNCHANGED cmds
      BY <1>2, <3>1
    <3>2. CASE cmds' = Append(cmds, [kind |-> "cleanup"])
      <4>1. [kind |-> "cleanup"] \in Reqs
        BY DEF Reqs
      <4> QED BY <1>1, <3>2, <4>1, CmdsStay
    <3> QED BY <1>12, <3>1, <3>2 DEF SetState
  <2> QED BY <1>3, <2>1, <2>2
<1> QED BY <1>4, <1>5, <1>6, <1>7, <1>8, <1>9, <1>10, <1>11, <1>12

\* A poll gives its answer: it is not under way any more, and it was the only one of
\* its call.
LEMMA WakeAnswering ==
  ASSUME Start, NEW s \in Rings, Wake(s)
  PROVE  Answering'
<1> DEFINE n == Len(handled[s])
           d == sent[s][n].call
<1>1. /\ n \in Open(s) /\ d \in Calls /\ sent[s][n].id \in Nat /\ n \in Nat
      /\ RingTypes /\ AllAlone /\ AllAwaited /\ WokenLate /\ woken \in [Calls -> SUBSET Calls]
      /\ wpc \in [Calls -> {"new", "mark", "link", "send", "wait", "clear", "unlink", "returned"}]
  <2>1. n \in Open(s) /\ RingTypes
    BY DEF Start, AnswerInv, FoundRight, Wake, RingInv
  <2>2. d \in Calls /\ sent[s][n].id \in Nat
    BY <2>1, AnswerIs
  <2> QED BY <2>1, <2>2 DEF Start, AnswerInv, WaitInv, WaitTypes, RingTypes
<1>2. UNCHANGED <<cmds, asks, due>> /\ CallsAlone
  BY DEF Wake, cardMind, CallsAlone
<1>3. /\ \A r \in Rings : sent'[r] = sent[r]
      /\ \A r \in Rings \ {s} : Open(r)' = Open(r)
      /\ Open(s)' = Open(s) \ {n}
  BY <1>1, OpenWake
<1>4. NoMore
  BY <1>2, <1>3 DEF NoMore, Start, AnswerInv, AllAlone, Alone, InCmds
<1>5. AllAlone'
  BY <1>1, <1>4, NoMoreAlone
<1>6. \A e \in Calls : woken'[e] \subseteq woken[e] \cup {d}
  BY <1>1 DEF Wake, Wakes
<1>7. <<s, n>> \in InSent(d)
  BY <1>1 DEF InSent
<1>8. Alone(InCmds(d), InAsks(d), InDue(d), InSent(d))
  BY <1>1 DEF AllAlone
<1>9. InCmds(d) = {} /\ InAsks(d) = {} /\ InDue(d) = {} /\ InSent(d) = {<<s, n>>}
  BY <1>7, <1>8 DEF Alone, AtMostOne
<1>10. \A e \in Calls, id \in Nat : e = d => ~UnderWay(e, id)'
  <2>1. \A k \in DOMAIN cmds : ~(cmds[k].kind = "ask" /\ cmds[k].call = d)
    BY <1>9 DEF InCmds
  <2>2. \A q \in asks : q.call # d
    BY <1>9 DEF InAsks
  <2>3. \A m \in due : ~(m.kind = "answer" /\ m.call = d)
    BY <1>9 DEF InDue
  <2>4. ASSUME NEW r \in Rings, NEW k \in Open(r)' PROVE sent'[r][k].call # d
    <3>1. k \in Open(r) /\ <<r, k>> # <<s, n>>
      BY <1>3
    <3>a. k \in DOMAIN sent[r] /\ sent[r] \in Seq(Msgs)
      BY <1>1, <3>1 DEF Open, RingTypes
    <3>b. k \in Nat
      BY <3>a
    <3>2. <<r, k>> \notin InSent(d)
      BY <1>9, <3>1
    <3> QED BY <1>3, <3>1, <3>b, <3>2 DEF InSent
  <2> HIDE DEF d, n
  <2> SUFFICES ASSUME NEW e \in Calls, NEW id \in Nat, e = d PROVE ~UnderWay(e, id)'
    OBVIOUS
  <2>5. ~\E r \in Rings : \E k \in Open(r)' : sent'[r][k].call = e /\ sent'[r][k].id = id
    BY <2>4
  <2> QED BY <1>2, <2>1, <2>2, <2>3, <2>5 DEF UnderWay
<1> HIDE DEF d, n
<1>11. ASSUME NEW e \in Calls, NEW id \in Nat, UnderWay(e, id)', Awaited(e, id)
       PROVE  Awaited(e, id)'
  <2>1. e # d
    BY <1>10, <1>11
  <2> QED BY <1>2, <1>6, <1>11, <2>1 DEF Awaited, CallsAlone, waitHistory
<1>12. AllAwaited'
  BY <1>1, <1>4, <1>11, NoMoreAwaited
<1>13. WokenLate'
  <2>1. ASSUME NEW e \in Calls, e \in woken'[e]
        PROVE  wpc[e] \in {"wait", "clear", "unlink", "returned"}
    <3>1. CASE e \in woken[e]
      BY <1>1, <3>1 DEF WokenLate
    <3>2. CASE e = d
      <4>1. Awaited(d, sent[s][n].id)
        <5>1. UnderWay(d, sent[s][n].id)
          BY <1>1 DEF UnderWay, d
        <5> QED BY <1>1, <5>1 DEF AllAwaited
      <4>2. \A x \in gaveUp : wpc[x] \in {"clear", "unlink", "returned"}
        BY DEF Start, WaitInv, WaitTypes
      <4> QED BY <3>2, <4>1, <4>2 DEF Awaited
    <3> QED BY <1>6, <2>1, <3>1, <3>2
  <2> QED BY <1>2, <2>1 DEF WokenLate, CallsAlone
<1> QED BY <1>5, <1>12, <1>13 DEF Answering

\* A call sends its request, once, and waits for the answer until it gives up.
LEMMA WaitAnswering ==
  ASSUME Start, NEW c \in Calls, Wait(c)
  PROVE  Answering' /\ UNCHANGED woken
<1>1. /\ UNCHANGED <<asks, due, sent, handled, rpc, woken>>
      /\ \/ WaitStep(c) /\ UNCHANGED cmds
         \/ RequestSent(c) /\ cmds' = Append(cmds, [kind |-> "ask", call |-> c, id |-> comp[c]])
  BY DEF Wait, WaitStep, SetupId, SetupMark, SetupLink, RequestFails,
         RequestSent, WaitEnds, WaitClears, WaitUnlinks, entryVars, ringVars, cardSide, pollSide
<1>2. /\ cmds \in Seq(Reqs) /\ AllAlone /\ AllAwaited /\ WokenLate /\ comp \in [Calls -> Nat]
      /\ wpc \in [Calls -> {"new", "mark", "link", "send", "wait", "clear", "unlink", "returned"}]
      /\ \A d \in gaveUp : wpc[d] \in {"clear", "unlink", "returned"}
  BY DEF Start, RingInv, CardTypes, AnswerInv, WaitInv, WaitTypes
<1>3. \A r \in Rings : Open(r)' = Open(r) /\ sent'[r] = sent[r]
  BY <1>1, OpenSame
<1>4. WokenLate'
  BY <1>1, <1>2 DEF WokenLate, WaitStep, SetupId, SetupMark, SetupLink, RequestFails,
         RequestSent, WaitEnds, WaitClears, WaitUnlinks, WaitGo
<1>5. ASSUME NEW d \in Calls, NEW id \in Nat, Awaited(d, id) PROVE Awaited(d, id)'
  <2>1. \A e \in Calls \ {c} : wpc'[e] = wpc[e] /\ comp'[e] = comp[e]
    BY <1>1, <1>2 DEF WaitStep, SetupId, SetupMark, SetupLink, RequestFails,
         RequestSent, WaitEnds, WaitClears, WaitUnlinks, WaitGo, entryVars
  <2>2. gaveUp \subseteq gaveUp'
    BY <1>1 DEF WaitStep, SetupId, SetupMark, SetupLink, RequestFails,
         RequestSent, WaitEnds, WaitClears, WaitUnlinks, waitHistory
  <2>3. CASE d # c
    BY <1>1, <1>5, <2>1, <2>2, <2>3 DEF Awaited
  <2>4. CASE d \in gaveUp
    BY <1>1, <1>5, <2>2, <2>4 DEF Awaited
  <2>5. CASE d = c /\ d \notin gaveUp
    <3>1. wpc[c] = "wait" /\ c \notin woken[c]
      BY <1>5, <2>5 DEF Awaited
    <3>2. WaitEnds(c)
      BY <1>1, <3>1 DEF WaitStep, SetupId, SetupMark, SetupLink, RequestFails,
         RequestSent, WaitClears, WaitUnlinks
    <3> QED BY <1>1, <2>5, <3>1, <3>2 DEF WaitEnds, Awaited
  <2> QED BY <2>3, <2>4, <2>5
<1>6. CASE UNCHANGED cmds
  <2>1. NoMore
    BY <1>1, <1>2, <1>3, <1>6, CmdsStay DEF NoMore
  <2> QED BY <1>1, <1>2, <1>4, <1>5, <2>1, NoMoreAlone, NoMoreAwaited DEF Answering
<1>7. CASE RequestSent(c) /\ cmds' = Append(cmds, [kind |-> "ask", call |-> c, id |-> comp[c]])
  <2> DEFINE q == [kind |-> "ask", call |-> c, id |-> comp[c]]
             l == Len(cmds)
  <2>1. /\ DOMAIN cmds = 1 .. l /\ DOMAIN cmds' = 1 .. l + 1 /\ l \in Nat
        /\ cmds'[l + 1] = q /\ \A k \in 1 .. l : cmds'[k] = cmds[k]
        /\ q.kind = "ask" /\ q.call = c /\ q.id = comp[c]
    BY <1>2, <1>7
  <2> HIDE DEF q, l
  <2>2. /\ \A k \in 1 .. l + 1 : k = l + 1 \/ k \in 1 .. l
        /\ \A k \in 1 .. l : k \in 1 .. l + 1
        /\ l + 1 \in 1 .. l + 1
    BY <2>1
  <2>3. \A id \in Nat : ~UnderWay(c, id)
    <3>1. wpc[c] = "send" /\ c \notin gaveUp
      BY <1>2, <1>7 DEF RequestSent
    <3>2. \A id \in Nat : ~Awaited(c, id)
      BY <3>1 DEF Awaited
    <3> QED BY <1>2, <3>2 DEF AllAwaited
  <2>4. ASSUME NEW d \in Calls
        PROVE  Alone(InCmds(d)', InAsks(d)', InDue(d)', InSent(d)')
    <3>1. Alone(InCmds(d), InAsks(d), InDue(d), InSent(d))
      BY <1>2 DEF AllAlone
    <3>2. InAsks(d)' = InAsks(d) /\ InDue(d)' = InDue(d) /\ InSent(d)' = InSent(d)
      BY <1>1, <1>3 DEF InAsks, InDue, InSent
    <3>3. CASE d # c
      <4>1. InCmds(d)' = InCmds(d)
        BY <2>1, <2>2, <3>3 DEF InCmds
      <4> QED BY <3>1, <3>2, <4>1
    <3>4. CASE d = c
      <4>1. \A k \in DOMAIN cmds : ~(cmds[k].kind = "ask" /\ cmds[k].call = d)
        <5>1. \A k \in DOMAIN cmds : cmds[k].kind = "ask" => cmds[k].id \in Nat
          BY <1>2 DEF Reqs
        <5> QED BY <2>3, <3>4, <5>1 DEF UnderWay
      <4>2. InAsks(d) = {}
        <5>1. \A x \in asks : x.id \in Nat
          BY DEF Start, RingInv, CardTypes, Reqs
        <5> QED BY <2>3, <3>4, <5>1 DEF UnderWay, InAsks
      <4>3. InDue(d) = {}
        <5>1. \A m \in due : m.kind = "answer" => m.id \in Nat
          BY DEF Start, RingInv, CardTypes, Msgs
        <5> QED BY <2>3, <3>4, <5>1 DEF UnderWay, InDue
      <4>4. InSent(d) = {}
        <5>1. RingTypes
          BY DEF Start, RingInv
        <5>2. \A r \in Rings : \A k \in Open(r) : sent[r][k].id \in Nat
          BY <5>1, AnswerIs
        <5> QED BY <2>3, <3>4, <5>2 DEF UnderWay, InSent
      <4>5. AtMostOne(InCmds(d)')
        <5>1. \A k \in InCmds(d)' : k = l + 1
          BY <2>1, <2>2, <4>1 DEF InCmds
        <5> QED BY <5>1 DEF AtMostOne
      <4> QED BY <3>2, <4>2, <4>3, <4>4, <4>5 DEF Alone, AtMostOne
    <3> QED BY <3>3, <3>4
  <2>5. ASSUME NEW d \in Calls, NEW id \in Nat, UnderWay(d, id)'
        PROVE  UnderWay(d, id) \/ (d = c /\ id = comp[c])
    <3>1. CASE \E k \in DOMAIN cmds' :
                 cmds'[k].kind = "ask" /\ cmds'[k].call = d /\ cmds'[k].id = id
      BY <2>1, <2>2, <3>1 DEF UnderWay
    <3>2. CASE \E x \in asks' : x.call = d /\ x.id = id
      BY <1>1, <3>2 DEF UnderWay
    <3>3. CASE \E m \in due' : m.kind = "answer" /\ m.call = d /\ m.id = id
      BY <1>1, <3>3 DEF UnderWay
    <3>4. CASE \E r \in Rings : \E n \in Open(r)' : sent'[r][n].call = d /\ sent'[r][n].id = id
      BY <1>3, <3>4 DEF UnderWay
    <3> QED BY <2>5, <3>1, <3>2, <3>3, <3>4 DEF UnderWay
  <2>6. Awaited(c, comp[c])'
    <3>1. wpc'[c] = "wait" /\ c \notin woken[c] /\ UNCHANGED comp
      BY <1>2, <1>7 DEF RequestSent, WaitGo, WokenLate, entryVars
    <3> QED BY <1>1, <3>1 DEF Awaited
  <2>7. UNCHANGED comp
    BY <1>7 DEF RequestSent, entryVars
  <2>8. AllAwaited'
    BY <1>2, <1>5, <2>5, <2>6, <2>7 DEF AllAwaited, Awaited
  <2>9. AllAlone'
    BY <2>4 DEF AllAlone
  <2> QED BY <1>1, <1>4, <2>8, <2>9 DEF Answering
<1> QED BY <1>1, <1>6, <1>7

\* The walk over the list stops at the entry of the call whose answer it is: no entry
\* with the id stands before it.
LEMMA FoundByTake ==
  ASSUME Start, NEW d \in Calls, NEW id \in Nat, Awaited(d, id), NEW c \in Found(id)
  PROVE  raced \/ c \in {NoCall, d} \cup abandoned \/ d \in gaveUp
<1> SUFFICES ASSUME ~raced, d \notin gaveUp, c # NoCall, c \notin abandoned
             PROVE  c = d
  OBVIOUS
<1>1. WaitTypes /\ IdsTrue /\ ListTrue /\ ListOrder /\ comp \in [Calls -> Nat]
  BY DEF Start, WaitInv, RingInv, CardTypes
<1>2. wpc[d] = "wait" /\ comp[d] = id
  BY DEF Awaited
<1>3. d \in Holding /\ d \in Linked /\ d \notin abandoned
  BY <1>1, <1>2 DEF Holding, Linked, WaitTypes
<1>4. PICK k \in Matching(id) : list[k] = c
  BY DEF Found
<1>5. /\ k \in DOMAIN list /\ comp[c] = id
      /\ \A j \in 1 .. k - 1 : list[j] \in abandoned \/ comp[list[j]] # id
  BY <1>4 DEF Matching
<1>6. PICK i \in DOMAIN list : list[i] = d
  BY <1>1, <1>3 DEF ListTrue
<1>7. DOMAIN list = 1 .. Len(list) /\ Len(list) \in Nat
  BY <1>1 DEF WaitTypes
<1>8. k = i \/ k < i
  <2>1. ~(i < k)
    <3>1. ASSUME i < k PROVE FALSE
      <4>1. i \in 1 .. k - 1
        BY <1>5, <1>6, <1>7, <3>1
      <4> QED BY <1>2, <1>3, <1>5, <1>6, <4>1
    <3> QED BY <3>1
  <2> QED BY <1>5, <1>6, <1>7, <2>1
<1>9. c \in Linked /\ c \in Calls
  BY <1>1, <1>4, <1>5 DEF ListTrue, WaitTypes
<1>10. CASE wpc[c] = "unlink"
  BY <1>1, <1>2, <1>3, <1>4, <1>5, <1>6, <1>8, <1>10 DEF ListOrder
<1>11. CASE wpc[c] # "unlink"
  <2>1. c \in Holding
    BY <1>9, <1>11 DEF Linked, Holding
  <2>2. IdBits(comp[c]) # {}
    BY <1>1, <1>9, IdHasBits
  <2> QED BY <1>1, <1>2, <1>3, <1>5, <2>1, <2>2 DEF IdsTrue
<1> QED BY <1>10, <1>11

\* Only a poll that takes an answer begins to wake, and only it looks for the entry.
LEMMA WakeSteps ==
  ASSUME RingTypes, WaitTypes, [Next]_msgVars, NEW r \in Rings, rpc'[r] = "wake", ~Take(r)
  PROVE  /\ rpc[r] = "wake" /\ found'[r] = found[r]
         /\ handled'[r] = handled[r]
         /\ \A n \in DOMAIN sent[r] : n \in DOMAIN sent'[r] /\ sent'[r][n] = sent[r][n]
<1>1. CASE UNCHANGED msgVars
  BY <1>1 DEF msgVars, ringVars, cardSide, pollSide
<1>2. CASE CardTakes \/ (\E e \in offloaded : CardDrops(e)) \/ (\E q \in asks : CardAnswers(q))
             \/ (\E c \in Calls : Wait(c)) \/ (\E on \in BOOLEAN : SetState(on))
  BY <1>2 DEF CardTakes, CardDrops, CardAnswers, Wait, SetState, ringVars, cardSide, pollSide
<1>3. ASSUME NEW s \in Rings, CardSends(s)
      PROVE  /\ UNCHANGED <<rpc, found, handled>>
             /\ \A n \in DOMAIN sent[r] : n \in DOMAIN sent'[r] /\ sent'[r][n] = sent[r][n]
  <2>1. UNCHANGED <<rpc, found, handled>> /\ \E m : sent' = [sent EXCEPT ![s] = Append(@, m)]
    BY <1>3 DEF CardSends, CardBegins, pollSide
  <2>2. PICK m : sent' = [sent EXCEPT ![s] = Append(@, m)]
    BY <2>1
  <2>3. sent[r] \in Seq(Msgs) /\ (r # s => sent'[r] = sent[r])
           /\ (r = s => sent'[r] = Append(sent[r], m))
    BY <2>2 DEF RingTypes
  <2>4. DOMAIN sent[r] = 1 .. Len(sent[r]) /\ Len(sent[r]) \in Nat
    BY <2>3
  <2>5. CASE r = s
    <3>1. /\ \A n \in 1 .. Len(sent[r]) : sent'[r][n] = sent[r][n]
          /\ DOMAIN sent'[r] = 1 .. Len(sent[r]) + 1
      BY <2>3, <2>5
    <3>2. \A n \in 1 .. Len(sent[r]) : n \in 1 .. Len(sent[r]) + 1
      BY <2>4
    <3> QED BY <2>1, <2>4, <3>1, <3>2
  <2> QED BY <2>1, <2>3, <2>5
<1>4. CASE \E s \in Rings : CardGoesOn(s) \/ DestroyCtx(s)
  BY <1>4 DEF CardGoesOn, CardWrites, DestroyCtx, ringVars, cardSide, pollSide
<1>5. CASE \E s \in Rings : Poll(s) \/ Offload(s)
  BY <1>5 DEF Poll, PollBegins, PollStops, Offload, To, RingTypes, cardSide, pollSide
<1>6. ASSUME NEW s \in Rings, Take(s) PROVE s # r /\ rpc[r] = "wake" /\ found'[r] = found[r]
                                          /\ handled'[r] = handled[r] /\ UNCHANGED sent
  <2>1. s # r
    BY <1>6
  <2>2. /\ \E l : rpc' = [rpc EXCEPT ![s] = l]
        /\ UNCHANGED found \/ \E c : found' = [found EXCEPT ![s] = c]
    <3> DEFINE m == sent[s][First(s).m]
    <3>1. TakePacket(s, m) \/ TakeGone(s, m) \/ TakeAnswer(s, m)
      BY <1>6 DEF Take
    <3> HIDE DEF m
    <3>2. CASE TakePacket(s, m)
      BY <3>2 DEF TakePacket, To
    <3>3. CASE TakeGone(s, m)
      BY <3>3 DEF TakeGone, To
    <3>4. CASE TakeAnswer(s, m)
      BY <3>4 DEF TakeAnswer, To
    <3> QED BY <3>1, <3>2, <3>3, <3>4
  <2>3. rpc'[r] = rpc[r] /\ found'[r] = found[r]
    BY <2>1, <2>2 DEF RingTypes, WaitTypes
  <2>4. handled'[r] = handled[r] /\ UNCHANGED sent
    BY <1>6, <2>1 DEF Take, TakeMessage, cardSide, RingTypes
  <2> QED BY <2>1, <2>3, <2>4
<1>7. ASSUME NEW s \in Rings, Wake(s) PROVE s # r /\ rpc[r] = "wake" /\ found'[r] = found[r]
                                          /\ UNCHANGED <<handled, sent>>
  BY <1>7 DEF Wake, To, RingTypes, cardSide, pollSide
<1>8. CASE Reset
  BY <1>8 DEF Reset, RingsRenewed
<1> QED BY <1>1, <1>2, <1>3, <1>4, <1>5, <1>6, <1>7, <1>8 DEF Next

LEMMA HistoryGrows ==
  ASSUME [Next]_msgVars
  PROVE  (raced => raced') /\ abandoned \subseteq abandoned' /\ gaveUp \subseteq gaveUp'
<1>1. CASE CallsAlone
  BY <1>1 DEF CallsAlone, waitHistory
<1>2. ASSUME NEW c \in Calls, SetupId(c) \/ RequestSent(c) \/ WaitClears(c) \/ WaitUnlinks(c)
      PROVE  UNCHANGED <<raced, abandoned, gaveUp>>
  BY <1>2 DEF SetupId, RequestSent, WaitClears, WaitUnlinks, waitHistory
<1>3. ASSUME NEW c \in Calls, SetupMark(c) \/ SetupLink(c)
      PROVE  (raced => raced') /\ UNCHANGED <<abandoned, gaveUp>>
  <2>1. CASE SetupMark(c)
    BY <2>1 DEF SetupMark
  <2>2. CASE SetupLink(c)
    BY <2>2 DEF SetupLink
  <2> QED BY <1>3, <2>1, <2>2
<1>4. ASSUME NEW c \in Calls, RequestFails(c)
      PROVE  UNCHANGED <<raced, gaveUp>> /\ abandoned \subseteq abandoned'
  BY <1>4 DEF RequestFails
<1>5. ASSUME NEW c \in Calls, WaitEnds(c)
      PROVE  UNCHANGED <<raced, abandoned>> /\ gaveUp \subseteq gaveUp'
  BY <1>5 DEF WaitEnds
<1> QED BY <1>1, <1>2, <1>3, <1>4, <1>5, CallSteps DEF WaitStep

LEMMA FoundRightStep ==
  ASSUME Start, [Next]_msgVars
  PROVE  FoundRight'
<1>1. RingTypes /\ WaitTypes /\ FoundRight /\ \A r \in Rings : RingOK(r)
  BY DEF Start, RingInv, WaitInv, AnswerInv
<1>2. /\ raced => raced'
      /\ abandoned \subseteq abandoned' /\ gaveUp \subseteq gaveUp'
  BY HistoryGrows
<1>3. ASSUME NEW r \in Rings, rpc'[r] = "wake", ~Take(r), NEW n \in Nat, n = Len(handled[r])
      PROVE  /\ n \in Open(r)' /\ n = Len(handled'[r])
             /\ raced' \/ found'[r] \in {NoCall, sent'[r][n].call} \cup abandoned'
                  \/ sent'[r][n].call \in gaveUp'
  <2>1. /\ rpc[r] = "wake" /\ found'[r] = found[r] /\ handled'[r] = handled[r]
        /\ \A k \in DOMAIN sent[r] : k \in DOMAIN sent'[r] /\ sent'[r][k] = sent[r][k]
    BY <1>1, <1>3, WakeSteps
  <2>2. n \in Open(r) /\ n \in DOMAIN sent[r]
    BY <1>1, <1>3, <2>1 DEF FoundRight, Open
  <2>3. n \in Open(r)'
    BY <1>3, <2>1, <2>2 DEF Open
  <2> QED BY <1>1, <1>2, <1>3, <2>1, <2>2, <2>3 DEF FoundRight
<1>4. ASSUME NEW r \in Rings, rpc'[r] = "wake", Take(r), NEW n \in Nat, n = Len(handled[r]) + 1
      PROVE  /\ n \in Open(r)' /\ n = Len(handled'[r])
             /\ raced' \/ found'[r] \in {NoCall, sent'[r][n].call} \cup abandoned'
                  \/ sent'[r][n].call \in gaveUp'
  <2> DEFINE m == sent[r][n]
  <2>1. First(r).m = n /\ Len(handled'[r]) = n /\ sent'[r] = sent[r] /\ Open(r)' = Open(r)
    BY <1>1, <1>4, OpenTake
  <2>2. TakeAnswer(r, m)
    BY <1>1, <1>4, <2>1 DEF Take, TakePacket, TakeGone, TakeAnswer, To, RingTypes
  <2>3. n \in Open(r)
    BY <1>1, <1>4, <2>1, <2>2, OpenTake
  <2>4. m.call \in Calls /\ m.id \in Nat
    BY <1>1, <2>3, AnswerIs
  <2>5. Awaited(m.call, m.id)
    <3>1. UnderWay(m.call, m.id)
      BY <2>3 DEF UnderWay
    <3> QED BY <2>4, <3>1 DEF Start, AnswerInv, AllAwaited
  <2>6. found'[r] \in Found(m.id)
    BY <2>2 DEF TakeAnswer, Start, WaitInv, WaitTypes
  <2> HIDE DEF m
  <2>7. raced \/ found'[r] \in {NoCall, m.call} \cup abandoned \/ m.call \in gaveUp
    BY <2>4, <2>5, <2>6, FoundByTake
  <2> QED BY <1>2, <2>1, <2>3, <2>7 DEF m
<1>5. \A r \in Rings : Len(handled[r]) \in Nat /\ Len(handled[r]) + 1 \in Nat
  BY <1>1 DEF RingTypes
<1> QED BY <1>3, <1>4, <1>5 DEF FoundRight

LEMMA RightWaiterStep ==
  ASSUME Start, [Next]_msgVars, UNCHANGED woken \/ \E s \in Rings : Wake(s)
  PROVE  RightWaiter'
<1>1. /\ raced => raced'
      /\ abandoned \subseteq abandoned' /\ gaveUp \subseteq gaveUp'
  BY HistoryGrows
<1>2. RightWaiter /\ FoundRight
  BY DEF Start, AnswerInv
<1>3. CASE UNCHANGED woken
  BY <1>1, <1>2, <1>3 DEF RightWaiter
<1>4. ASSUME NEW s \in Rings, Wake(s) PROVE RightWaiter'
  <2> DEFINE d == sent[s][Len(handled[s])].call
  <2>1. raced \/ found[s] \in {NoCall, d} \cup abandoned \/ d \in gaveUp
    BY <1>2, <1>4 DEF FoundRight, Wake
  <2>2. woken \in [Calls -> SUBSET Calls]
    BY DEF Start, WaitInv, WaitTypes
  <2>3. \A c \in Calls : woken'[c] \subseteq woken[c] \cup (IF c = found[s] THEN {d} ELSE {})
    BY <1>4, <2>2 DEF Wake, Wakes
  <2>4. NoCall \notin Calls
    BY WaitAssumption
  <2> HIDE DEF d
  <2> SUFFICES ASSUME NEW c \in Calls \ abandoned', ~raced'
               PROVE  woken'[c] \subseteq {c} \cup gaveUp'
    BY DEF RightWaiter
  <2>5. woken[c] \subseteq {c} \cup gaveUp
    BY <1>1, <1>2 DEF RightWaiter
  <2>6. c = found[s] => d \in {c} \cup gaveUp
    BY <1>1, <2>1, <2>4
  <2> QED BY <1>1, <2>3, <2>5, <2>6
<1> QED BY <1>3, <1>4

LEMMA StartInit == Init => Start
<1> SUFFICES ASSUME Init PROVE Start
  OBVIOUS
<1>1. WaitTypes
  BY DEF Init, WaitInit, WaitTypes
<1>2. Holding = {} /\ Linked = {}
  BY DEF Init, WaitInit, Holding, Linked
<1>3. IdsTrue /\ ListTrue /\ ListOrder
  BY <1>2 DEF Init, WaitInit, IdsTrue, ListTrue, ListOrder
<1>4. /\ \A r \in Rings : Open(r) = {} /\ rpc[r] = "idle"
      /\ cmds = <<>> /\ asks = {} /\ due = {}
  BY DEF Init, StatusInit, Open
<1>5. AllAlone
  BY <1>4 DEF AllAlone, Alone, AtMostOne, InCmds, InAsks, InDue, InSent
<1>6. AllAwaited
  BY <1>4 DEF AllAwaited, UnderWay
<1>7. WokenLate /\ RightWaiter /\ FoundRight
  BY <1>4 DEF Init, WaitInit, WokenLate, RightWaiter, FoundRight
<1> QED BY <1>1, <1>3, <1>5, <1>6, <1>7, RingInvInit DEF Start, WaitInv, AnswerInv

LEMMA StartStep ==
  ASSUME Start, [Next]_msgVars
  PROVE  Start'
<1>1. RingInv'
  BY RingInvStep DEF Start
<1>2. WaitInv'
  BY WaitInvStep DEF Start, RingInv, AnswerInv
<1>3. Answering' /\ (UNCHANGED woken \/ \E s \in Rings : Wake(s))
  <2>1. CASE CardTakes
    BY <2>1, CardTakesAnswering DEF CardTakes, waitVars, entryVars
  <2>2. ASSUME NEW q \in asks, CardAnswers(q) PROVE Answering' /\ UNCHANGED woken
    BY <2>2, CardAnswersAnswering DEF CardAnswers, waitVars, entryVars
  <2>3. ASSUME NEW s \in Rings, CardSends(s) PROVE Answering' /\ UNCHANGED woken
    BY <2>3, CardSendsAnswering DEF CardSends, waitVars, entryVars
  <2>4. ASSUME NEW s \in Rings, Wake(s) PROVE Answering'
    BY <2>4, WakeAnswering
  <2>5. ASSUME NEW c \in Calls, Wait(c) PROVE Answering' /\ UNCHANGED woken
    BY <2>5, WaitAnswering
  <2>6. CASE \/ UNCHANGED msgVars \/ Reset
             \/ \E e \in offloaded : CardDrops(e)
             \/ \E r \in Rings : \/ CardGoesOn(r) \/ Poll(r) \/ Take(r) \/ Offload(r)
                                 \/ DestroyCtx(r)
             \/ \E on \in BOOLEAN : SetState(on)
    BY <2>6, OthersAnswering
  <2> QED BY <2>1, <2>2, <2>3, <2>4, <2>5, <2>6 DEF Next
<1>4. FoundRight'
  BY FoundRightStep
<1>5. RightWaiter'
  BY <1>3, RightWaiterStep
<1> QED BY <1>1, <1>2, <1>3, <1>4, <1>5 DEF Start, Answering, AnswerInv

\* What WaitersKnown says - as long as no two threads met in the map or the list, they
\* show just the calls that wait, and those that returned without taking their entry
\* back - holds for every number of threads, calls and ids (nx_os_event_wait_setup,
\* nx_os_event_wait).
THEOREM WaitersAreKnown == Spec => []WaitersKnown
<1>1. ASSUME Start PROVE WaitersKnown
  <2> SUFFICES ASSUME ~raced
               PROVE  /\ bits = UNION {IdBits(comp[c]) : c \in Holding}
                      /\ {list[k] : k \in DOMAIN list} = Linked
                      /\ Len(list) = Cardinality(Linked)
    BY DEF WaitersKnown, Holding, Linked
  <2>1. WaitTypes /\ IdsTrue /\ ListTrue
    BY <1>1 DEF Start, WaitInv
  <2>2. Len(list) \in Nat /\ DOMAIN list = 1 .. Len(list) /\ list \in [1 .. Len(list) -> Calls]
    BY <2>1 DEF WaitTypes
  <2> DEFINE N == 1 .. Len(list)
  <2>a. list \in [N -> Linked] /\ \A t \in Linked : \E k \in N : list[k] = t
    BY <2>1, <2>2 DEF ListTrue
  <2>b. \A j, k \in N : list[j] = list[k] => j = k
    BY <2>1, <2>2 DEF ListTrue
  <2> HIDE DEF N
  <2>3. list \in Bijection(N, Linked)
    BY <2>a, <2>b DEF Bijection, Injection, IsInjective, Surjection
  <2>4. Cardinality(Linked) = Len(list)
    BY <2>2, <2>3, FS_CountingElements DEF ExistsBijection, N
  <2> QED BY <2>1, <2>4 DEF IdsTrue, ListTrue
<1>2. Start /\ [Next]_msgVars => Start'
  BY StartStep
<1> QED BY <1>1, <1>2, StartInit, PTL DEF Spec

\* What RightWaiter says - a call is given the answer to its own request and no other,
\* unless the call whose answer it is had given up, or two threads met in the map or
\* the list - holds for every number of threads, calls, ids, rings and messages
\* (nx_os_event_wait_setup, nx_os_event_wakeup_on_response).
THEOREM RightCallWoken == Spec => []RightWaiter
<1>1. Start => RightWaiter
  BY DEF Start, AnswerInv
<1>2. Start /\ [Next]_msgVars => Start'
  BY StartStep
<1> QED BY <1>1, <1>2, StartInit, PTL DEF Spec
-----------------------------------------------------------------------------
(* The flows.  A flow of which no like one was in a destroyed context has  *)
(* an entry in the table just while there is one trace of it: in the hand  *)
(* of a poll, in the command ring, with the card, or in a message on its   *)
(* end.                                                                    *)

InHands(f) == {r \in Rings : hand[r] = f}
Adds(f) == {k \in DOMAIN cmds : cmds[k].kind = "add" /\ cmds[k].flow = f}
OnCard(f) == {e \in offloaded : e.flow = f}
EndsDue(f) == {m \in due : m.kind = "gone" /\ m.flow = f}
EndAt(r, n, f) == /\ n \in DOMAIN sent[r] /\ n > Len(handled[r])
                 /\ sent[r][n].kind = "gone" /\ sent[r][n].flow = f
EndsSent(f) == {p \in Rings \X Nat : EndAt(p[1], p[2], f)}

OneTrace(H, K, O, D, S) ==
  /\ AtMostOne(H) /\ Alone(K, O, D, S)
  /\ H # {} => K = {} /\ O = {} /\ D = {} /\ S = {}
ATrace(H, K, O, D, S) == H # {} \/ K # {} \/ O # {} \/ D # {} \/ S # {}

InTable(f) == \E e \in table : e.flow = f
Clean(f) == {g \in Flows : <<f, g>> \in SameKey} \cap removed = {}
Traced(f) ==
  /\ OneTrace(InHands(f), Adds(f), OnCard(f), EndsDue(f), EndsSent(f))
  /\ ATrace(InHands(f), Adds(f), OnCard(f), EndsDue(f), EndsSent(f)) <=> InTable(f)
  /\ \A r \in Rings : hand[r] = f => [flow |-> f, ctx |-> r] \in table

FlowTypes ==
  /\ table \subseteq [flow : Flows, ctx : Rings] /\ IsFiniteSet(table)
  /\ free \in Int /\ allocated \in Int /\ twice \in Nat
KeysApart == \A d, e \in table : <<d.flow, e.flow>> \in SameKey => d = e
HandWhile == \A r \in Rings : hand[r] # NoFlow <=> rpc[r] = "offload"
AllTraced == \A f \in Flows : Clean(f) => Traced(f)

FlowInv == FlowTypes /\ KeysApart /\ HandWhile /\ PoolExact /\ AllTraced

\* The invariant a step of the flows starts from.
FlowStart == RingInv /\ FlowInv

\* An entry has its key alone.
LEMMA OneUnder ==
  ASSUME FlowTypes, KeysApart
  PROVE  /\ \A f \in Flows \cup {NoFlow} : \A d, e \in Under(f) : d = e
         /\ \A e \in table : Under(e.flow) = {e}
         /\ \A f \in Flows \cup {NoFlow} : Under(f) # {} =>
              \E e \in table : Under(f) = {e} /\ <<e.flow, f>> \in SameKey
<1>1. ASSUME NEW f, NEW d \in Under(f), NEW e \in Under(f) PROVE d = e
  <2>1. d \in table /\ e \in table /\ <<d.flow, f>> \in SameKey /\ <<e.flow, f>> \in SameKey
    BY DEF Under
  <2>2. <<f, e.flow>> \in SameKey
    BY <2>1, LroAssumption
  <2>3. <<d.flow, e.flow>> \in SameKey
    BY <2>1, <2>2, LroAssumption
  <2> QED BY <2>1, <2>3 DEF KeysApart
<1>2. ASSUME NEW e \in table PROVE Under(e.flow) = {e}
  <2>1. e.flow \in Flows
    BY DEF FlowTypes
  <2>2. e \in Under(e.flow)
    BY <2>1, LroAssumption DEF Under
  <2> QED BY <1>1, <2>2
<1>3. ASSUME NEW f, Under(f) # {}
      PROVE  \E e \in table : Under(f) = {e} /\ <<e.flow, f>> \in SameKey
  <2>1. PICK e \in table : e \in Under(f) /\ <<e.flow, f>> \in SameKey
    BY <1>3 DEF Under
  <2> QED BY <1>1, <2>1
<1> QED BY <1>1, <1>2, <1>3

\* Taking an entry out of the table, and putting one in.
LEMMA TableLess ==
  ASSUME FlowTypes, NEW e \in table
  PROVE  /\ IsFiniteSet(table \ {e})
         /\ Cardinality(table \ {e}) = Cardinality(table) - 1
BY FS_RemoveElement DEF FlowTypes

\* What a step does to the table and the pool: nothing, or what a poll, the end of a
\* context or a reset does.
PoolSame == UNCHANGED <<table, free, allocated, twice, removed>>
PoolMoves ==
  \/ PoolSame
  \/ UNCHANGED removed /\ \E r \in Rings, f \in Flows : LroBegins(r, f)
  \/ UNCHANGED removed /\ \E f \in Flows \cup {NoFlow} : LroResponse(f)
  \/ UNCHANGED removed /\ \E r \in Rings : LroSendFails(r)
  \/ \E r \in Rings : DestroyCtx(r)
  \/ Reset

LEMMA GoneFlow ==
  ASSUME RingInv, NEW r \in Rings, TakeMessage(r)
  PROVE  LET n == Len(handled[r]) + 1
             m == sent[r][n]
         IN /\ First(r).m = n /\ n \in 1 .. Len(sent[r]) /\ m \in Msgs
            /\ m.kind = "packet" => m.flow \in Flows
            /\ m.kind = "gone" => m.flow \in Flows \cup {NoFlow}
<1> DEFINE n == Len(handled[r]) + 1
<1>1. First(r).m = n /\ n \in 1 .. Len(sent[r])
  BY MessageIsThere DEF RingInv, TakeMessage
<1>2. sent[r][n] \in Msgs
  BY <1>1 DEF RingInv, RingTypes
<1> QED BY <1>1, <1>2 DEF Msgs

LEMMA PoolSteps ==
  ASSUME RingInv, [Next]_msgVars
  PROVE  PoolMoves
<1>1. CASE UNCHANGED msgVars
  BY <1>1 DEF msgVars, lroVars, otherVars, PoolMoves, PoolSame
<1>2. CASE CardTakes \/ (\E e \in offloaded : CardDrops(e)) \/ (\E q \in asks : CardAnswers(q))
             \/ (\E c \in Calls : Wait(c))
  BY <1>2 DEF CardTakes, CardDrops, CardAnswers, Wait, lroVars, otherVars, PoolMoves, PoolSame
<1>3. CASE \E on \in BOOLEAN : SetState(on)
  BY <1>3 DEF SetState, LroSetState, otherVars, PoolMoves, PoolSame
<1>4. ASSUME NEW r \in Rings, CardSends(r) \/ CardGoesOn(r) \/ Poll(r) \/ Wake(r)
      PROVE  PoolMoves
  BY <1>4 DEF CardSends, CardGoesOn, Poll, Wake, lroVars, otherVars, PoolMoves, PoolSame
<1>5. ASSUME NEW r \in Rings, Take(r) PROVE PoolMoves
  <2> DEFINE m == sent[r][First(r).m]
  <2>1. /\ m.kind = "packet" => m.flow \in Flows
        /\ m.kind = "gone" => m.flow \in Flows \cup {NoFlow}
    BY <1>5, GoneFlow DEF Take
  <2>2. UNCHANGED removed /\ (TakePacket(r, m) \/ TakeGone(r, m) \/ TakeAnswer(r, m))
    BY <1>5 DEF Take, otherVars
  <2> HIDE DEF m
  <2>3. CASE TakePacket(r, m)
    BY <2>1, <2>2, <2>3 DEF TakePacket, LroDeclines, lroVars, PoolMoves, PoolSame
  <2>4. CASE TakeGone(r, m)
    BY <2>1, <2>2, <2>4 DEF TakeGone, PoolMoves
  <2>5. CASE TakeAnswer(r, m)
    BY <2>2, <2>5 DEF TakeAnswer, lroVars, PoolMoves, PoolSame
  <2> QED BY <2>2, <2>3, <2>4, <2>5
<1>6. ASSUME NEW r \in Rings, Offload(r) PROVE PoolMoves
  BY <1>6 DEF Offload, otherVars, LroSent, PoolMoves, PoolSame
<1>7. CASE Reset \/ \E r \in Rings : DestroyCtx(r)
  BY <1>7 DEF PoolMoves
<1> QED BY <1>1, <1>2, <1>3, <1>4, <1>5, <1>6, <1>7 DEF Next

LEMMA PoolKept ==
  ASSUME FlowStart, PoolMoves
  PROVE  FlowTypes' /\ KeysApart' /\ PoolExact'
<1> DEFINE T == table
<1>1. /\ FlowTypes /\ KeysApart /\ PoolExact /\ AllTraced /\ HandWhile /\ CardTypes
      /\ Cardinality(T) \in Nat /\ MaxLro \in Nat
  BY FS_CardinalityType, LroAssumption DEF FlowStart, FlowInv, RingInv, FlowTypes
<1>2. CASE PoolSame
  BY <1>1, <1>2 DEF PoolSame, FlowTypes, KeysApart, PoolExact
<1>3. ASSUME UNCHANGED removed, NEW r \in Rings, NEW f \in Flows, LroBegins(r, f)
      PROVE  FlowTypes' /\ KeysApart' /\ PoolExact'
  <2> DEFINE x == [flow |-> f, ctx |-> r]
  <2>1. /\ table' = T \cup {x} /\ Under(f) = {} /\ UNCHANGED <<twice, removed>>
        /\ free' = free - 1 /\ allocated' = allocated + 1
    BY <1>3 DEF LroBegins
  <2>2. x \in [flow : Flows, ctx : Rings] /\ x.flow = f
    OBVIOUS
  <2>3. ASSUME NEW e \in T PROVE <<e.flow, f>> \notin SameKey /\ <<f, e.flow>> \notin SameKey
    <3>1. <<e.flow, f>> \notin SameKey
      BY <2>1 DEF Under
    <3> QED BY <3>1, LroAssumption
  <2> HIDE DEF x
  <2>4. x \notin T
    BY <2>2, <2>3, LroAssumption
  <2>5. IsFiniteSet(table') /\ Cardinality(table') = Cardinality(T) + 1
    BY <1>1, <2>1, <2>4, FS_AddElement DEF FlowTypes
  <2>6. FlowTypes'
    BY <1>1, <2>1, <2>2, <2>5 DEF FlowTypes
  <2>7. KeysApart'
    BY <1>1, <2>1, <2>2, <2>3 DEF KeysApart
  <2>8. PoolExact'
    BY <1>1, <2>1, <2>5 DEF PoolExact, FlowTypes
  <2> QED BY <2>6, <2>7, <2>8
<1>4. ASSUME UNCHANGED removed, NEW f \in Flows \cup {NoFlow}, LroResponse(f)
      PROVE  FlowTypes' /\ KeysApart' /\ PoolExact'
  <2>1. /\ table' = T \ Under(f) /\ UNCHANGED <<twice, removed>>
        /\ Under(f) = {} => free' = free + 0 /\ allocated' = allocated - 0
        /\ Under(f) # {} => free' = free + 1 /\ allocated' = allocated - 1
    BY <1>4 DEF LroResponse, Unlinked, Freed
  <2>2. CASE Under(f) = {}
    BY <1>1, <2>1, <2>2 DEF FlowTypes, KeysApart, PoolExact
  <2>3. CASE Under(f) # {}
    <3>1. PICK e \in T : table' = T \ {e}
      BY <1>1, <2>1, <2>3, OneUnder
    <3>2. IsFiniteSet(table') /\ Cardinality(table') = Cardinality(T) - 1
      BY <1>1, <3>1, TableLess
    <3> QED BY <1>1, <2>1, <2>3, <3>1, <3>2 DEF FlowTypes, KeysApart, PoolExact
  <2> QED BY <2>2, <2>3
<1>5. ASSUME UNCHANGED removed, NEW r \in Rings, LroSendFails(r)
      PROVE  FlowTypes' /\ KeysApart' /\ PoolExact'
  <2> DEFINE f == hand[r]
             x == [flow |-> f, ctx |-> r]
  <2>1. /\ table' = T \ Under(f) /\ UNCHANGED removed /\ f # NoFlow
        /\ free' = free + 1 /\ allocated' = allocated - 1
        /\ x \in Under(f) => twice' = twice + 0
        /\ x \notin Under(f) => twice' = twice + 1
    BY <1>5 DEF LroSendFails, Unlinked, Freed
  <2>2. f \in Flows
    BY <1>1, <2>1 DEF CardTypes
  <2>3. FlowTypes' /\ KeysApart'
    <3>1. IsFiniteSet(T \ Under(f))
      BY <1>1, FS_Difference DEF FlowTypes
    <3> QED BY <1>1, <2>1, <3>1 DEF FlowTypes, KeysApart
  <2>4. CASE x \in Under(f)
    <3>1. Under(f) = {x} /\ x \in T
      BY <1>1, <2>2, <2>4, OneUnder DEF Under
    <3>2. Cardinality(table') = Cardinality(T) - 1
      BY <1>1, <2>1, <3>1, TableLess
    <3> QED BY <1>1, <2>1, <2>3, <2>4, <3>2 DEF FlowTypes, PoolExact
  <2>5. CASE x \notin Under(f)
    <3>1. x \notin T
      BY <2>2, <2>5, LroAssumption DEF Under
    <3>2. ~Clean(f)
      BY <1>1, <2>2, <3>1 DEF AllTraced, Traced
    <3>3. removed # {}
      BY <3>2 DEF Clean
    <3>4. twice' # 0
      BY <1>1, <2>1, <2>5 DEF FlowTypes
    <3> QED BY <2>1, <2>3, <3>3, <3>4 DEF PoolExact
  <2> QED BY <2>4, <2>5
<1>6. ASSUME NEW r \in Rings, DestroyCtx(r) PROVE FlowTypes' /\ KeysApart' /\ PoolExact'
  <2> DEFINE G == {e \in T : e.ctx = r}
  <2>1. /\ table' = T \ G /\ free' = free + Cardinality(G) /\ allocated' = allocated - Cardinality(G)
        /\ UNCHANGED twice /\ removed \subseteq removed'
    BY <1>6 DEF DestroyCtx, LroDeleteCtx, Freed
  <2>2. /\ IsFiniteSet(G) /\ Cardinality(G) \in Nat
        /\ IsFiniteSet(T \ G) /\ Cardinality(T \ G) = Cardinality(T) - Cardinality(G)
    <3>1. IsFiniteSet(T) /\ G \subseteq T /\ T \cap G = G
      BY <1>1 DEF FlowTypes
    <3> HIDE DEF G
    <3>2. IsFiniteSet(G) BY <3>1, FS_Subset
    <3>3. /\ IsFiniteSet(T \ G)
          /\ Cardinality(T \ G) = Cardinality(T) - Cardinality(T \cap G)
      BY <3>1, FS_Difference
    <3> QED BY <3>1, <3>2, <3>3, FS_CardinalityType
  <2> HIDE DEF G
  <2> DEFINE n == Cardinality(G)
             c == Cardinality(T)
  <2>3. n \in Nat /\ free' = free + n /\ allocated' = allocated - n /\ Cardinality(table') = c - n
        /\ c \in Nat
    BY <1>1, <2>1, <2>2
  <2>4. PoolExact => (twice = 0 => allocated = c /\ free + allocated = MaxLro)
    BY DEF PoolExact
  <2> HIDE DEF n, c
  <2>5. PoolExact'
    BY <1>1, <2>1, <2>3, <2>4 DEF PoolExact, FlowTypes
  <2>6. FlowTypes' /\ KeysApart'
    BY <1>1, <2>1, <2>2, <2>3 DEF FlowTypes, KeysApart
  <2> QED BY <2>5, <2>6
<1>7. CASE Reset
  <2>1. /\ table' = {} /\ free' = MaxLro /\ allocated' = 0 /\ UNCHANGED <<twice, removed>>
    BY <1>7 DEF Reset, LroRenewed
  <2> QED BY <1>1, <2>1, FS_EmptySet DEF FlowTypes, KeysApart, PoolExact
<1> QED BY <1>2, <1>3, <1>4, <1>5, <1>6, <1>7 DEF PoolMoves

\* A poll has a flow in its hand while its request is still to be sent.
LEMMA HandWhileKept ==
  ASSUME FlowStart, [Next]_msgVars
  PROVE  HandWhile'
<1>1. RingTypes /\ CardTypes /\ HandWhile
  BY DEF FlowStart, FlowInv, RingInv
<1>2. CASE UNCHANGED <<hand, rpc>>
  BY <1>1, <1>2 DEF HandWhile
<1>3. CASE UNCHANGED msgVars
  BY <1>2, <1>3 DEF msgVars, lroVars, ringVars
<1>4. CASE CardTakes \/ (\E e \in offloaded : CardDrops(e)) \/ (\E q \in asks : CardAnswers(q))
             \/ (\E c \in Calls : Wait(c)) \/ (\E on \in BOOLEAN : SetState(on))
  BY <1>2, <1>4 DEF CardTakes, CardDrops, CardAnswers, Wait, SetState, LroSetState, ringVars,
                    lroVars
<1>5. ASSUME NEW r \in Rings, CardSends(r) \/ CardGoesOn(r) \/ DestroyCtx(r) PROVE HandWhile'
  BY <1>2, <1>5 DEF CardSends, CardGoesOn, CardBegins, CardWrites, DestroyCtx, LroDeleteCtx,
                    ringVars, lroVars
<1>6. CASE Reset
  BY <1>2, <1>6 DEF Reset, LroRenewed, RingsRenewed
<1>7. ASSUME NEW r \in Rings, Poll(r) \/ Wake(r) PROVE HandWhile'
  BY <1>1, <1>7 DEF Poll, PollBegins, PollStops, Wake, To, lroVars, RingTypes, HandWhile
<1>8. ASSUME NEW r \in Rings, Take(r) PROVE HandWhile'
  <2> DEFINE m == sent[r][First(r).m]
  <2>1. /\ rpc[r] = "poll" /\ (m.kind = "packet" => m.flow \in Flows)
        /\ TakePacket(r, m) \/ TakeGone(r, m) \/ TakeAnswer(r, m)
    BY <1>8, GoneFlow DEF Take, FlowStart, TakeMessage
  <2> HIDE DEF m
  <2>2. \/ hand' = hand /\ \E l \in {"poll", "wake"} : To(r, l)
        \/ To(r, "offload") /\ \E f \in Flows : hand' = [hand EXCEPT ![r] = f]
    BY <2>1 DEF TakePacket, TakeGone, TakeAnswer, LroDeclines, LroBegins, LroResponse, lroVars
  <2>3. NoFlow \notin Flows
    BY LroAssumption
  <2> QED BY <1>1, <2>1, <2>2, <2>3 DEF To, RingTypes, CardTypes, HandWhile
<1>9. ASSUME NEW r \in Rings, Offload(r) PROVE HandWhile'
  <2>1. hand' = [hand EXCEPT ![r] = NoFlow] /\ To(r, "poll")
    BY <1>9 DEF Offload, LroSent, LroSendFails
  <2> QED BY <1>1, <2>1 DEF To, RingTypes, CardTypes, HandWhile
<1> QED BY <1>3, <1>4, <1>5, <1>6, <1>7, <1>8, <1>9 DEF Next

\* The command ring: a request more at its end, or one less at its head.
LEMMA AddsMore ==
  ASSUME cmds \in Seq(Reqs), NEW q \in Reqs, cmds' = Append(cmds, q), NEW f
  PROVE  /\ ~(q.kind = "add" /\ q.flow = f) => Adds(f)' = Adds(f)
         /\ q.kind = "add" /\ q.flow = f /\ Adds(f) = {} => AtMostOne(Adds(f)') /\ Adds(f)' # {}
<1> DEFINE n == Len(cmds) + 1
<1>1. /\ Len(cmds) \in Nat /\ DOMAIN cmds = 1 .. Len(cmds) /\ DOMAIN cmds' = 1 .. n
      /\ cmds'[n] = q /\ \A k \in 1 .. Len(cmds) : cmds'[k] = cmds[k]
  OBVIOUS
<1>2. \A k : k \in 1 .. n <=> k \in 1 .. Len(cmds) \/ k = n
  BY <1>1
<1>3. \A k \in 1 .. Len(cmds) : k # n
  BY <1>1
<1> HIDE DEF n
<1>4. Adds(f)' = Adds(f) \cup IF q.kind = "add" /\ q.flow = f THEN {n} ELSE {}
  <2>1. ASSUME NEW k PROVE k \in Adds(f)' <=> k \in Adds(f) \/ (k = n /\ q.kind = "add" /\ q.flow = f)
    BY <1>1, <1>2, <1>3 DEF Adds
  <2> QED BY <2>1
<1> QED BY <1>4 DEF AtMostOne

LEMMA AddsLess ==
  ASSUME cmds \in Seq(Reqs), cmds # <<>>, cmds' = Tail(cmds), NEW f, AtMostOne(Adds(f))
  PROVE  LET q == Head(cmds) IN
         /\ q.kind = "add" /\ q.flow = f => Adds(f) # {} /\ Adds(f)' = {}
         /\ ~(q.kind = "add" /\ q.flow = f) =>
              AtMostOne(Adds(f)') /\ (Adds(f)' = {} <=> Adds(f) = {})
<1>1. /\ Len(cmds) \in Nat /\ Len(cmds) > 0 /\ DOMAIN cmds = 1 .. Len(cmds)
      /\ DOMAIN cmds' = 1 .. Len(cmds) - 1 /\ cmds[1] = Head(cmds)
      /\ \A k \in 1 .. Len(cmds) - 1 : cmds'[k] = cmds[k + 1]
  OBVIOUS
<1>2. /\ \A k \in 1 .. Len(cmds) - 1 : k + 1 \in 1 .. Len(cmds) /\ k + 1 # 1 /\ k \in Int
      /\ \A k \in 1 .. Len(cmds) : k # 1 => k - 1 \in 1 .. Len(cmds) - 1 /\ (k - 1) + 1 = k
      /\ 1 \in 1 .. Len(cmds) /\ \A j, k \in Int : j + 1 = k + 1 => j = k
  BY <1>1
<1>3. \A k \in Adds(f)' : k \in Int /\ k + 1 \in Adds(f) /\ k + 1 # 1
  BY <1>1, <1>2 DEF Adds
<1>4. \A k \in Adds(f) : k # 1 => k - 1 \in Adds(f)'
  BY <1>1, <1>2 DEF Adds
<1>5. 1 \in Adds(f) <=> Head(cmds).kind = "add" /\ Head(cmds).flow = f
  BY <1>1, <1>2 DEF Adds
<1>6. AtMostOne(Adds(f)')
  <2>1. ASSUME NEW j \in Adds(f)', NEW k \in Adds(f)' PROVE j = k
    <3>1. j + 1 = k + 1
      BY <1>3 DEF AtMostOne
    <3> QED BY <1>2, <1>3, <3>1
  <2> QED BY <2>1 DEF AtMostOne
<1>7. 1 \in Adds(f) => Adds(f)' = {}
  <2>1. ASSUME 1 \in Adds(f), NEW k \in Adds(f)' PROVE FALSE
    BY <1>3, <2>1 DEF AtMostOne
  <2> QED BY <2>1
<1>8. 1 \notin Adds(f) => (Adds(f)' = {} <=> Adds(f) = {})
  <2>1. ASSUME 1 \notin Adds(f), NEW k \in Adds(f) PROVE k - 1 \in Adds(f)'
    BY <1>4, <2>1
  <2> QED BY <1>3, <2>1
<1> QED BY <1>5, <1>6, <1>7, <1>8

\* The messages on the end of a flow: one more when the card begins it, one less when
\* its poll takes it.
LEMMA EndsSame ==
  ASSUME UNCHANGED <<sent, handled>>, NEW f
  PROVE  EndsSent(f)' = EndsSent(f)
BY DEF EndsSent, EndAt

LEMMA EndsBegin ==
  ASSUME RingInv, NEW s \in Rings, NEW m \in Msgs, CardBegins(s, m), NEW f
  PROVE  /\ ~(m.kind = "gone" /\ m.flow = f) => EndsSent(f)' = EndsSent(f)
         /\ m.kind = "gone" /\ m.flow = f /\ EndsSent(f) = {} =>
              AtMostOne(EndsSent(f)') /\ EndsSent(f)' # {}
<1> DEFINE n == Len(sent[s]) + 1
<1>1. /\ sent' = [sent EXCEPT ![s] = Append(sent[s], m)]
      /\ UNCHANGED handled /\ sent \in [Rings -> Seq(Msgs)]
  BY DEF CardBegins, pollSide, RingInv, RingTypes
<1>2. \A r \in Rings \ {s} : sent'[r] = sent[r]
  BY <1>1
<1>3. /\ Len(sent[s]) \in Nat /\ DOMAIN sent[s] = 1 .. Len(sent[s])
      /\ DOMAIN sent'[s] = 1 .. n /\ sent'[s][n] = m
      /\ \A k \in 1 .. Len(sent[s]) : sent'[s][k] = sent[s][k]
  BY <1>1
<1>4. Len(handled[s]) \in Nat /\ Len(handled[s]) <= Len(sent[s])
  BY DEF RingInv, RingTypes, RingOK, Handled
<1>5. /\ \A k : k \in 1 .. n <=> k \in 1 .. Len(sent[s]) \/ k = n
      /\ \A k \in 1 .. Len(sent[s]) : k # n
      /\ n \in Nat /\ n > Len(handled[s])
  BY <1>3, <1>4
<1> HIDE DEF n
<1>6. ASSUME NEW k PROVE EndAt(s, k, f)' <=>
                           EndAt(s, k, f) \/ (k = n /\ m.kind = "gone" /\ m.flow = f)
  BY <1>1, <1>3, <1>5 DEF EndAt
<1>7. \A r \in Rings \ {s} : \A k : EndAt(r, k, f)' <=> EndAt(r, k, f)
  BY <1>1, <1>2 DEF EndAt
<1>8. CASE ~(m.kind = "gone" /\ m.flow = f)
  <2>1. \A p \in Rings \X Nat : EndAt(p[1], p[2], f)' <=> EndAt(p[1], p[2], f)
    BY <1>6, <1>7, <1>8
  <2> QED BY <1>8, <2>1 DEF EndsSent
<1>9. CASE m.kind = "gone" /\ m.flow = f
  <2>1. ASSUME EndsSent(f) = {} PROVE AtMostOne(EndsSent(f)') /\ EndsSent(f)' # {}
    <3>1. \A p \in Rings \X Nat : ~EndAt(p[1], p[2], f)
      BY <2>1 DEF EndsSent
    <3>2. ASSUME NEW p \in Rings \X Nat, EndAt(p[1], p[2], f)' PROVE p = <<s, n>>
      BY <1>6, <1>7, <3>1, <3>2
    <3>3. \E k \in Nat : EndAt(s, k, f)'
      BY <1>5, <1>6, <1>9
    <3>4. ASSUME NEW k \in Nat, EndAt(s, k, f)' PROVE <<s, k>> \in EndsSent(f)'
      BY <3>4 DEF EndsSent
    <3> QED BY <3>2, <3>3, <3>4 DEF EndsSent, AtMostOne
  <2> QED BY <1>9, <2>1
<1> QED BY <1>8, <1>9

LEMMA EndsTake ==
  ASSUME RingInv, NEW s \in Rings, TakeMessage(s), NEW f, AtMostOne(EndsSent(f))
  PROVE  LET m == sent[s][First(s).m] IN
         /\ ~(m.kind = "gone" /\ m.flow = f) => EndsSent(f)' = EndsSent(f)
         /\ m.kind = "gone" /\ m.flow = f => EndsSent(f) # {} /\ EndsSent(f)' = {}
<1> DEFINE n == Len(handled[s]) + 1
           m == sent[s][n]
<1>a. First(s).m = n /\ n \in 1 .. Len(sent[s])
  BY GoneFlow
<1>b. /\ UNCHANGED sent /\ Len(handled[s]) \in Nat /\ Len(sent[s]) \in Nat
      /\ DOMAIN sent[s] = 1 .. Len(sent[s])
  BY DEF TakeMessage, cardSide, RingInv, RingTypes
<1>1. /\ First(s).m = n /\ n \in 1 .. Len(sent[s]) /\ UNCHANGED sent
      /\ Len(handled[s]) \in Nat /\ Len(sent[s]) \in Nat /\ DOMAIN sent[s] = 1 .. Len(sent[s])
  BY <1>a, <1>b
<1>2. Len(handled'[s]) = n /\ \A r \in Rings \ {s} : handled'[r] = handled[r]
  BY DEF TakeMessage, RingInv, RingTypes
<1>3. /\ n \in Nat /\ n > Len(handled[s])
      /\ \A k \in 1 .. Len(sent[s]) : k > Len(handled[s]) <=> (k = n \/ k > n)
      /\ ~(n > n)
  BY <1>1
<1> HIDE DEF n
<1>4. ASSUME NEW k PROVE EndAt(s, k, f)' <=> EndAt(s, k, f) /\ k # n
  BY <1>1, <1>2, <1>3 DEF EndAt
<1>5. \A r \in Rings \ {s} : \A k : EndAt(r, k, f)' <=> EndAt(r, k, f)
  BY <1>1, <1>2 DEF EndAt
<1>6. EndAt(s, n, f) <=> m.kind = "gone" /\ m.flow = f
  BY <1>1, <1>3 DEF EndAt
<1>7. CASE ~(m.kind = "gone" /\ m.flow = f)
  <2>1. \A p \in Rings \X Nat : EndAt(p[1], p[2], f)' <=> EndAt(p[1], p[2], f)
    BY <1>4, <1>5, <1>6, <1>7
  <2>2. EndsSent(f)' = EndsSent(f)
    BY <2>1 DEF EndsSent
  <2> QED BY <1>1, <1>7, <2>2
<1>8. CASE m.kind = "gone" /\ m.flow = f
  <2>1. <<s, n>> \in EndsSent(f)
    BY <1>3, <1>6, <1>8 DEF EndsSent
  <2>2. ASSUME NEW p \in EndsSent(f)' PROVE FALSE
    <3>1. p \in Rings \X Nat /\ EndAt(p[1], p[2], f)'
      BY <2>2 DEF EndsSent
    <3>2. EndAt(p[1], p[2], f) /\ ~(p[1] = s /\ p[2] = n)
      BY <1>4, <1>5, <3>1
    <3>3. p \in EndsSent(f)
      BY <3>1, <3>2 DEF EndsSent
    <3>4. p = <<s, n>>
      BY <2>1, <3>3 DEF AtMostOne
    <3> QED BY <3>2, <3>4
  <2>3. EndsSent(f)' = {}
    BY <2>2
  <2> QED BY <1>1, <1>8, <2>1, <2>3
<1> QED BY <1>7, <1>8

\* A step that leaves of a flow's traces what there is leaves it traced.
Stays(A, B) == AtMostOne(B) /\ (B = {} <=> A = {})
HandAndTable(f) ==
  \A r \in Rings : /\ hand'[r] = f <=> hand[r] = f
                   /\ [flow |-> f, ctx |-> r] \in table' <=> [flow |-> f, ctx |-> r] \in table

LEMMA TableOf ==
  ASSUME FlowTypes, NEW f
  PROVE  InTable(f) <=> \E r \in Rings : [flow |-> f, ctx |-> r] \in table
<1>1. \A e \in table : e = [flow |-> e.flow, ctx |-> e.ctx] /\ e.ctx \in Rings
  BY DEF FlowTypes
<1>2. \A r \in Rings : [flow |-> f, ctx |-> r].flow = f
  OBVIOUS
<1> QED BY <1>1, <1>2 DEF InTable

LEMMA HandAndTableKept ==
  ASSUME NEW f, FlowTypes, FlowTypes', HandAndTable(f)
  PROVE  InHands(f)' = InHands(f) /\ (InTable(f)' <=> InTable(f))
<1>1. InHands(f)' = InHands(f)
  BY DEF HandAndTable, InHands
<1>2. InTable(f)' <=> \E r \in Rings : [flow |-> f, ctx |-> r] \in table'
  <2>1. \A e \in table' : e = [flow |-> e.flow, ctx |-> e.ctx] /\ e.ctx \in Rings
    BY DEF FlowTypes
  <2>2. \A r \in Rings : [flow |-> f, ctx |-> r].flow = f
    OBVIOUS
  <2> QED BY <2>1, <2>2 DEF InTable
<1> QED BY <1>1, <1>2, TableOf DEF HandAndTable

LEMMA TraceStays ==
  ASSUME NEW f, FlowTypes, FlowTypes', Traced(f), HandAndTable(f),
         Stays(Adds(f), Adds(f)'), Stays(OnCard(f), OnCard(f)'),
         Stays(EndsDue(f), EndsDue(f)'), Stays(EndsSent(f), EndsSent(f)')
  PROVE  Traced(f)'
<1>1. InHands(f)' = InHands(f) /\ (InTable(f)' <=> InTable(f))
  BY HandAndTableKept
<1>2. OneTrace(InHands(f)', Adds(f)', OnCard(f)', EndsDue(f)', EndsSent(f)')
  BY <1>1 DEF Traced, OneTrace, Alone, Stays
<1>3. ATrace(InHands(f)', Adds(f)', OnCard(f)', EndsDue(f)', EndsSent(f)') <=> InTable(f)'
  BY <1>1 DEF Traced, ATrace, Stays
<1> QED BY <1>2, <1>3 DEF Traced, HandAndTable

\* A step that moves the trace from the command ring, the card or the messages to another
\* of these places: only there was one, and only there is one.
LEMMA TraceMoves ==
  ASSUME NEW f, FlowTypes, FlowTypes', Traced(f), HandAndTable(f),
         Adds(f) # {} \/ OnCard(f) # {} \/ EndsDue(f) # {} \/ EndsSent(f) # {},
         Alone(Adds(f)', OnCard(f)', EndsDue(f)', EndsSent(f)'),
         Adds(f)' # {} \/ OnCard(f)' # {} \/ EndsDue(f)' # {} \/ EndsSent(f)' # {}
  PROVE  Traced(f)'
<1>1. InHands(f)' = InHands(f) /\ (InTable(f)' <=> InTable(f))
  BY HandAndTableKept
<1>2. InHands(f) = {} /\ InTable(f)
  BY DEF Traced, OneTrace, ATrace
<1>3. OneTrace(InHands(f)', Adds(f)', OnCard(f)', EndsDue(f)', EndsSent(f)')
  BY <1>1, <1>2 DEF OneTrace, AtMostOne
<1>4. ATrace(InHands(f)', Adds(f)', OnCard(f)', EndsDue(f)', EndsSent(f)')
  BY DEF ATrace
<1> QED BY <1>1, <1>2, <1>3, <1>4 DEF Traced, HandAndTable

LEMMA TracedEach ==
  ASSUME NEW f, Traced(f)
  PROVE  /\ AtMostOne(Adds(f)) /\ AtMostOne(OnCard(f)) /\ AtMostOne(EndsDue(f))
         /\ AtMostOne(EndsSent(f))
         /\ Adds(f) # {} => OnCard(f) = {} /\ EndsDue(f) = {} /\ EndsSent(f) = {}
         /\ OnCard(f) # {} => Adds(f) = {} /\ EndsDue(f) = {} /\ EndsSent(f) = {}
         /\ EndsDue(f) # {} => Adds(f) = {} /\ OnCard(f) = {} /\ EndsSent(f) = {}
         /\ EndsSent(f) # {} => Adds(f) = {} /\ OnCard(f) = {} /\ EndsDue(f) = {}
         /\ InHands(f) # {} => Adds(f) = {} /\ OnCard(f) = {} /\ EndsDue(f) = {} /\ EndsSent(f) = {}
BY DEF Traced, OneTrace, Alone

\* The card takes a request: what was to be added is with the card, or will be said to
\* be gone; and what it drops it will say.
LEMMA CardTakesTraced ==
  ASSUME FlowStart, FlowTypes', CardTakes, NEW f \in Flows, Traced(f)
  PROVE  Traced(f)'
<1> DEFINE q == Head(cmds)
<1>1. /\ cmds # <<>> /\ cmds' = Tail(cmds) /\ cmds \in Seq(Reqs) /\ FlowTypes
      /\ UNCHANGED <<sent, handled>> /\ HandAndTable(f)
  BY DEF FlowStart, FlowInv, RingInv, CardTypes, CardTakes, ringVars, cardSide, pollSide, lroVars,
         HandAndTable
<1>2. EndsSent(f)' = EndsSent(f)
  BY <1>1, EndsSame
<1>3. /\ q.kind = "add" /\ q.flow = f => Adds(f) # {} /\ Adds(f)' = {}
      /\ ~(q.kind = "add" /\ q.flow = f) => Stays(Adds(f), Adds(f)')
  BY <1>1, AddsLess, TracedEach DEF Stays
<1>4. PICK l \in Lengths :
        \/ q.kind = "ask" /\ UNCHANGED <<offloaded, due>>
        \/ /\ q.kind = "add" /\ offloaded' = offloaded \cup {[flow |-> q.flow, ctx |-> q.ctx]}
           /\ UNCHANGED due
        \/ q.kind = "add" /\ due' = due \cup {Gone(q.flow, l)} /\ UNCHANGED offloaded
        \/ /\ q.kind = "cleanup" /\ offloaded' = {}
           /\ due' = due \cup {Gone(e.flow, l) : e \in offloaded}
  BY DEF CardTakes
<1> HIDE DEF q
<1>5. \A g : Gone(g, l).kind = "gone" /\ Gone(g, l).flow = g
  BY DEF Gone
<1>6. CASE q.kind = "ask" \/ (q.kind = "add" /\ q.flow # f)
  <2>1. OnCard(f)' = OnCard(f) /\ EndsDue(f)' = EndsDue(f)
    BY <1>4, <1>5, <1>6 DEF OnCard, EndsDue
  <2> QED BY <1>1, <1>2, <1>3, <1>6, <2>1, TracedEach, TraceStays DEF Stays
<1>7. CASE q.kind = "add" /\ q.flow = f
  <2>1. Adds(f) # {} /\ Adds(f)' = {} /\ EndsSent(f)' = {} /\ OnCard(f) = {} /\ EndsDue(f) = {}
    BY <1>2, <1>3, <1>7, TracedEach
  <2>2. \/ OnCard(f)' = {[flow |-> f, ctx |-> q.ctx]} /\ EndsDue(f)' = {}
        \/ OnCard(f)' = {} /\ EndsDue(f)' = {Gone(f, l)}
    BY <1>4, <1>5, <1>7, <2>1 DEF OnCard, EndsDue
  <2> QED BY <1>1, <2>1, <2>2, TraceMoves DEF Alone, AtMostOne
<1>8. CASE q.kind = "cleanup"
  <2>1. offloaded' = {} /\ due' = due \cup {Gone(e.flow, l) : e \in offloaded}
    BY <1>4, <1>8
  <2>2. OnCard(f)' = {} /\ Stays(Adds(f), Adds(f)')
    BY <1>3, <1>8, <2>1 DEF OnCard
  <2>3. CASE OnCard(f) = {}
    <3>1. EndsDue(f)' = EndsDue(f)
      BY <1>5, <2>1, <2>3 DEF OnCard, EndsDue
    <3> QED BY <1>1, <1>2, <2>2, <2>3, <3>1, TracedEach, TraceStays DEF Stays
  <2>4. CASE OnCard(f) # {}
    <3>1. EndsDue(f) = {} /\ Adds(f)' = {} /\ EndsSent(f)' = {}
      BY <1>2, <2>2, <2>4, TracedEach DEF Stays
    <3>2. EndsDue(f)' = {Gone(f, l)}
      BY <1>5, <2>1, <2>4, <3>1 DEF OnCard, EndsDue
    <3> QED BY <1>1, <2>2, <2>4, <3>1, <3>2, TraceMoves DEF Alone, AtMostOne
  <2> QED BY <2>3, <2>4
<1> QED BY <1>4, <1>6, <1>7, <1>8

\* The card drops a flow, and will say so.
LEMMA CardDropsTraced ==
  ASSUME FlowStart, FlowTypes', NEW e \in offloaded, CardDrops(e), NEW f \in Flows, Traced(f)
  PROVE  Traced(f)'
<1>1. /\ UNCHANGED <<sent, handled, cmds>> /\ HandAndTable(f) /\ FlowTypes
      /\ offloaded' = offloaded \ {e}
  BY DEF FlowStart, FlowInv, CardDrops, ringVars, cardSide, pollSide, lroVars, HandAndTable
<1>2. EndsSent(f)' = EndsSent(f) /\ Adds(f)' = Adds(f)
  BY <1>1, EndsSame DEF Adds
<1>3. PICK l \in Lengths : due' = due \cup {Gone(e.flow, l)}
  BY DEF CardDrops
<1>4. Gone(e.flow, l).kind = "gone" /\ Gone(e.flow, l).flow = e.flow
  BY DEF Gone
<1>5. CASE e.flow # f
  <2>1. OnCard(f)' = OnCard(f) /\ EndsDue(f)' = EndsDue(f)
    BY <1>1, <1>3, <1>4, <1>5 DEF OnCard, EndsDue
  <2> QED BY <1>1, <1>2, <2>1, TracedEach, TraceStays DEF Stays
<1>6. CASE e.flow = f
  <2>1. e \in OnCard(f)
    BY <1>6 DEF OnCard
  <2>2. Adds(f)' = {} /\ EndsSent(f)' = {} /\ OnCard(f)' = {} /\ EndsDue(f) = {}
    BY <1>1, <1>2, <2>1, TracedEach DEF OnCard, AtMostOne
  <2>3. EndsDue(f)' = {Gone(e.flow, l)}
    BY <1>3, <1>4, <1>6, <2>2 DEF EndsDue
  <2> QED BY <1>1, <2>1, <2>2, <2>3, TraceMoves DEF Alone, AtMostOne
<1> QED BY <1>5, <1>6

\* It begins the message.
LEMMA CardSendsTraced ==
  ASSUME FlowStart, FlowTypes', NEW s \in Rings, CardSends(s), NEW f \in Flows, Traced(f)
  PROVE  Traced(f)'
<1>1. UNCHANGED <<cmds, offloaded>> /\ HandAndTable(f) /\ FlowTypes /\ due \subseteq Msgs /\ RingInv
  BY DEF FlowStart, FlowInv, CardSends, lroVars, HandAndTable, RingInv, CardTypes
<1>2. Adds(f)' = Adds(f) /\ OnCard(f)' = OnCard(f)
  BY <1>1 DEF Adds, OnCard
<1>3. PICK m \in Msgs : /\ CardBegins(s, m)
                        /\ \/ m \in due /\ due' = due \ {m}
                           \/ m.kind # "gone" /\ due' = due
  BY <1>1, PacketIs DEF CardSends, RingInv
<1>4. CASE ~(m.kind = "gone" /\ m.flow = f)
  <2>1. EndsSent(f)' = EndsSent(f)
    BY <1>1, <1>3, <1>4, EndsBegin
  <2>2. EndsDue(f)' = EndsDue(f)
    BY <1>3, <1>4 DEF EndsDue
  <2> QED BY <1>1, <1>2, <2>1, <2>2, TracedEach, TraceStays DEF Stays
<1>5. CASE m.kind = "gone" /\ m.flow = f
  <2>1. m \in EndsDue(f) /\ due' = due \ {m}
    BY <1>3, <1>5 DEF EndsDue
  <2>2. Adds(f)' = {} /\ OnCard(f)' = {} /\ EndsSent(f) = {} /\ EndsDue(f)' = {}
    BY <1>2, <2>1, TracedEach DEF EndsDue, AtMostOne
  <2>3. AtMostOne(EndsSent(f)') /\ EndsSent(f)' # {}
    BY <1>1, <1>3, <1>5, <2>2, EndsBegin
  <2> QED BY <1>1, <2>1, <2>2, <2>3, TraceMoves DEF Alone, AtMostOne
<1> QED BY <1>4, <1>5

\* The steps that are of no flow.
LEMMA OthersTraced ==
  ASSUME FlowStart, FlowTypes', NEW f \in Flows, Traced(f),
         \/ UNCHANGED msgVars
         \/ \E q \in asks : CardAnswers(q)
         \/ \E c \in Calls : Wait(c)
         \/ \E on \in BOOLEAN : SetState(on)
         \/ \E r \in Rings : CardGoesOn(r) \/ Poll(r) \/ Wake(r)
  PROVE  Traced(f)'
<1>1. FlowTypes /\ cmds \in Seq(Reqs)
  BY DEF FlowStart, FlowInv, RingInv, CardTypes
<1>2. ASSUME UNCHANGED <<sent, handled, offloaded, hand, table>>,
             EndsDue(f)' = EndsDue(f), Adds(f)' = Adds(f)
      PROVE  Traced(f)'
  <2>1. EndsSent(f)' = EndsSent(f) /\ OnCard(f)' = OnCard(f) /\ HandAndTable(f)
    BY <1>2, EndsSame DEF OnCard, HandAndTable
  <2> QED BY <1>1, <1>2, <2>1, TracedEach, TraceStays DEF Stays
<1>3. ASSUME UNCHANGED due PROVE EndsDue(f)' = EndsDue(f)
  BY <1>3 DEF EndsDue
<1>4. ASSUME UNCHANGED cmds PROVE Adds(f)' = Adds(f)
  BY <1>4 DEF Adds
<1>5. ASSUME NEW q \in Reqs, q.kind # "add", cmds' = Append(cmds, q) PROVE Adds(f)' = Adds(f)
  BY <1>1, <1>5, AddsMore
<1>6. CASE UNCHANGED msgVars
  BY <1>2, <1>3, <1>4, <1>6 DEF msgVars, ringVars, cardSide, pollSide, lroVars, cardMind
<1>7. ASSUME NEW q \in asks, CardAnswers(q) PROVE Traced(f)'
  <2>1. EndsDue(f)' = EndsDue(f)
    BY <1>7 DEF CardAnswers, Answer, EndsDue
  <2> QED BY <1>2, <1>4, <1>7, <2>1 DEF CardAnswers, ringVars, cardSide, pollSide, lroVars
<1>8. ASSUME NEW c \in Calls, Wait(c) PROVE Traced(f)'
  <2>1. [kind |-> "ask", call |-> c, id |-> comp[c]] \in Reqs
    BY DEF FlowStart, RingInv, CardTypes, Reqs
  <2>2. Adds(f)' = Adds(f)
    BY <1>4, <1>5, <1>8, <2>1 DEF Wait
  <2> QED BY <1>2, <1>3, <1>8, <2>2 DEF Wait, ringVars, cardSide, pollSide, lroVars
<1>9. ASSUME NEW on \in BOOLEAN, SetState(on) PROVE Traced(f)'
  <2>1. [kind |-> "cleanup"] \in Reqs
    BY DEF Reqs
  <2>2. Adds(f)' = Adds(f)
    BY <1>4, <1>5, <1>9, <2>1 DEF SetState
  <2> QED BY <1>2, <1>3, <1>9, <2>2 DEF SetState, LroSetState, ringVars, cardSide, pollSide
<1>10. ASSUME NEW r \in Rings, CardGoesOn(r) \/ Wake(r) PROVE Traced(f)'
  BY <1>2, <1>3, <1>4, <1>10 DEF CardGoesOn, CardWrites, Wake, cardMind, cardSide, pollSide, lroVars
<1>11. ASSUME NEW r \in Rings, Poll(r) PROVE Traced(f)'
  BY <1>2, <1>3, <1>4, <1>11 DEF Poll, PollBegins, PollStops, cardMind, cardSide, lroVars
<1> QED BY <1>6, <1>7, <1>8, <1>9, <1>10, <1>11

\* Of two flows that are alike one has an entry; they were in the same destroyed contexts.
LEMMA AlikeApart ==
  ASSUME FlowInv, NEW f \in Flows, Clean(f), NEW g, <<f, g>> \in SameKey, f # g
  PROVE  g \in Flows /\ Traced(g) /\ (InTable(g) => ~InTable(f))
<1>1. g \in Flows /\ <<g, f>> \in SameKey
  BY LroAssumption
<1>2. \A h \in Flows : <<g, h>> \in SameKey => <<f, h>> \in SameKey
  BY LroAssumption
<1>3. Clean(g)
  BY <1>2 DEF Clean
<1>4. Traced(g)
  BY <1>1, <1>3 DEF FlowInv, AllTraced
<1>5. ASSUME NEW d \in table, NEW e \in table, d.flow = g, e.flow = f PROVE FALSE
  BY <1>1, <1>5 DEF FlowInv, KeysApart
<1> QED BY <1>1, <1>4, <1>5 DEF InTable

LEMMA Untraced ==
  ASSUME NEW f, Traced(f), ~InTable(f)
  PROVE  /\ InHands(f) = {} /\ Adds(f) = {} /\ OnCard(f) = {} /\ EndsDue(f) = {}
         /\ EndsSent(f) = {}
BY DEF Traced, ATrace

\* A poll takes a message: an entry for a new flow is in its hand, or the entry of a flow
\* that is gone leaves the table.
LEMMA TakeTraced ==
  ASSUME FlowStart, FlowTypes', NEW s \in Rings, Take(s), NEW f \in Flows, Clean(f), Traced(f)
  PROVE  Traced(f)'
<1> DEFINE m == sent[s][First(s).m]
<1>1. /\ RingInv /\ FlowTypes /\ KeysApart /\ HandWhile /\ TakeMessage(s) /\ rpc[s] = "poll"
      /\ UNCHANGED cardMind
  BY DEF FlowStart, FlowInv, Take, TakeMessage
<1>2. /\ Adds(f)' = Adds(f) /\ OnCard(f)' = OnCard(f) /\ EndsDue(f)' = EndsDue(f)
  BY <1>1 DEF cardMind, Adds, OnCard, EndsDue
<1>3. /\ m.kind = "packet" => m.flow \in Flows
      /\ m.kind = "gone" => m.flow \in Flows \cup {NoFlow}
      /\ TakePacket(s, m) \/ TakeGone(s, m) \/ TakeAnswer(s, m)
  BY <1>1, GoneFlow DEF Take
<1>4. /\ ~(m.kind = "gone" /\ m.flow = f) => EndsSent(f)' = EndsSent(f)
      /\ m.kind = "gone" /\ m.flow = f => EndsSent(f) # {} /\ EndsSent(f)' = {}
  BY <1>1, EndsTake, TracedEach
<1> HIDE DEF m
<1>5. ASSUME EndsSent(f)' = EndsSent(f), HandAndTable(f) PROVE Traced(f)'
  BY <1>1, <1>2, <1>5, TracedEach, TraceStays DEF Stays
<1>6. CASE m.kind # "gone" /\ UNCHANGED <<hand, table>>
  BY <1>4, <1>5, <1>6 DEF HandAndTable
<1>7. ASSUME m.kind = "packet", LroBegins(s, m.flow) PROVE Traced(f)'
  <2> DEFINE g == m.flow
             x == [flow |-> g, ctx |-> s]
  <2>1. /\ g \in Flows /\ Under(g) = {} /\ table' = table \cup {x}
        /\ hand' = [hand EXCEPT ![s] = g] /\ EndsSent(f)' = EndsSent(f)
    BY <1>3, <1>4, <1>7 DEF LroBegins
  <2>2. hand \in [Rings -> Flows \cup {NoFlow}] /\ hand[s] = NoFlow /\ NoFlow \notin Flows
    BY <1>1, LroAssumption DEF HandWhile, RingInv, CardTypes
  <2> HIDE DEF g
  <2>3. CASE f # g
    <3>1. HandAndTable(f)
      BY <2>1, <2>2, <2>3 DEF HandAndTable
    <3> QED BY <1>5, <2>1, <3>1
  <2>4. CASE f = g
    <3>1. ~InTable(f)
      BY <2>1, <2>4, LroAssumption DEF Under, InTable
    <3>2. /\ InHands(f) = {} /\ Adds(f)' = {} /\ OnCard(f)' = {} /\ EndsDue(f)' = {}
          /\ EndsSent(f)' = {}
      BY <1>2, <2>1, <3>1, Untraced
    <3>3. InHands(f)' = {s}
      BY <2>1, <2>2, <2>4, <3>2 DEF InHands
    <3>4. x \in table' /\ x.flow = f /\ \A r \in Rings : hand'[r] = f => r = s
      BY <2>1, <2>4, <3>3 DEF InHands
    <3>5. InTable(f)'
      BY <3>4 DEF InTable
    <3>6. \A r \in Rings : hand'[r] = f => [flow |-> f, ctx |-> r] \in table'
      BY <2>4, <3>4
    <3> QED BY <3>2, <3>3, <3>5, <3>6 DEF Traced, OneTrace, ATrace, Alone, AtMostOne
  <2> QED BY <2>3, <2>4
<1>8. ASSUME m.kind = "gone", LroResponse(m.flow) PROVE Traced(f)'
  <2> DEFINE g == m.flow
  <2>1. /\ g \in Flows \cup {NoFlow} /\ table' = table \ Under(g) /\ UNCHANGED hand
    BY <1>3, <1>8 DEF LroResponse, Unlinked
  <2>2. /\ f # g => EndsSent(f)' = EndsSent(f)
        /\ f = g => EndsSent(f) # {} /\ EndsSent(f)' = {}
    BY <1>4, <1>8
  <2> HIDE DEF g
  <2>3. CASE f = g
    <3>1. InTable(f) /\ InHands(f) = {} /\ Adds(f) = {} /\ OnCard(f) = {} /\ EndsDue(f) = {}
      BY <2>2, <2>3, TracedEach DEF Traced, ATrace
    <3>2. ~InTable(f)'
      BY <2>1, <2>3, LroAssumption DEF InTable, Under
    <3>3. InHands(f)' = {}
      BY <2>1, <3>1 DEF InHands
    <3> QED BY <1>2, <2>2, <2>3, <3>1, <3>2, <3>3
            DEF Traced, OneTrace, ATrace, Alone, AtMostOne, InHands
  <2>4. CASE f # g
    <3>1. ASSUME NEW e \in table, e.flow = f PROVE e \notin Under(g)
      <4> SUFFICES ASSUME <<f, g>> \in SameKey PROVE FALSE
        BY <3>1 DEF Under
      <4>1. Traced(g) /\ (InTable(g) => ~InTable(f))
        BY <1>1, <2>4, AlikeApart DEF FlowStart
      <4>2. EndsSent(g) # {}
        BY <1>1, <1>8, <4>1, EndsTake, TracedEach DEF g, m
      <4>3. InTable(g)
        BY <4>1, <4>2 DEF Traced, ATrace
      <4> QED BY <3>1, <4>1, <4>3 DEF InTable
    <3>2. HandAndTable(f)
      BY <2>1, <3>1 DEF HandAndTable
    <3> QED BY <1>5, <2>2, <2>4, <3>2
  <2> QED BY <2>3, <2>4
<1> QED BY <1>3, <1>6, <1>7, <1>8 DEF TakePacket, TakeGone, TakeAnswer, LroDeclines, lroVars

\* The request is sent, or the entry goes: the flow was in the poll's hand.
LEMMA OffloadTraced ==
  ASSUME FlowStart, FlowTypes', NEW s \in Rings, Offload(s), NEW f \in Flows, Clean(f), Traced(f)
  PROVE  Traced(f)'
<1> DEFINE g == hand[s]
           q == [kind |-> "add", flow |-> g, ctx |-> s]
<1>1. /\ RingInv /\ FlowInv /\ FlowTypes /\ g \in Flows \cup {NoFlow} /\ g # NoFlow
      /\ hand \in [Rings -> Flows \cup {NoFlow}] /\ NoFlow \notin Flows /\ cmds \in Seq(Reqs)
      /\ hand' = [hand EXCEPT ![s] = NoFlow]
      /\ UNCHANGED <<sent, handled, offloaded, due>>
  BY LroAssumption DEF FlowStart, FlowInv, RingInv, CardTypes, Offload, LroSent, LroSendFails,
                       cardSide, pollSide
<1>2. EndsSent(f)' = EndsSent(f) /\ OnCard(f)' = OnCard(f) /\ EndsDue(f)' = EndsDue(f)
  BY <1>1, EndsSame DEF OnCard, EndsDue
<1>3. g \in Flows /\ q \in Reqs /\ q.kind = "add" /\ q.flow = g
  BY <1>1 DEF Reqs
<1>4. \/ cmds' = Append(cmds, q) /\ UNCHANGED table
      \/ UNCHANGED cmds /\ table' = table \ Under(g)
  BY DEF Offload, LroSent, LroSendFails, Unlinked
<1> HIDE DEF g, q
<1>5. f # g => Adds(f)' = Adds(f)
  BY <1>1, <1>3, <1>4, AddsMore DEF Adds
<1>6. CASE f # g
  <2>1. ASSUME NEW e \in table, e.flow = f PROVE e \notin Under(g)
    <3> SUFFICES ASSUME <<f, g>> \in SameKey PROVE FALSE
      BY <2>1 DEF Under
    <3>1. Traced(g) /\ (InTable(g) => ~InTable(f))
      BY <1>1, <1>6, AlikeApart
    <3>2. [flow |-> g, ctx |-> s] \in table
      BY <3>1 DEF Traced, g
    <3> QED BY <2>1, <3>1, <3>2 DEF InTable
  <2>2. \A r \in Rings : [flow |-> f, ctx |-> r] \in table' <=> [flow |-> f, ctx |-> r] \in table
    BY <1>4, <2>1
  <2>3. \A r \in Rings : hand'[r] = f <=> hand[r] = f
    BY <1>1, <1>6 DEF g
  <2>4. HandAndTable(f)
    BY <2>2, <2>3 DEF HandAndTable
  <2> QED BY <1>1, <1>2, <1>5, <1>6, <2>4, TracedEach, TraceStays DEF Stays
<1>7. CASE f = g
  <2>1. s \in InHands(f)
    BY <1>7 DEF InHands, g
  <2>2. /\ InHands(f) = {s} /\ Adds(f) = {} /\ OnCard(f)' = {} /\ EndsDue(f)' = {}
        /\ EndsSent(f)' = {} /\ InTable(f)
    BY <1>2, <2>1, TracedEach DEF Traced, OneTrace, ATrace, AtMostOne
  <2>3. \A r \in Rings : hand'[r] # f
    BY <1>1, <2>2 DEF InHands
  <2>4. InHands(f)' = {}
    BY <2>3 DEF InHands
  <2>5. CASE cmds' = Append(cmds, q) /\ UNCHANGED table
    <3>1. AtMostOne(Adds(f)') /\ Adds(f)' # {}
      BY <1>1, <1>3, <1>7, <2>2, <2>5, AddsMore
    <3>2. InTable(f)'
      BY <2>2, <2>5 DEF InTable
    <3> QED BY <2>2, <2>3, <2>4, <3>1, <3>2 DEF Traced, OneTrace, ATrace, Alone, AtMostOne
  <2>6. CASE UNCHANGED cmds /\ table' = table \ Under(g)
    <3>1. ~InTable(f)'
      BY <1>3, <1>7, <2>6, LroAssumption DEF InTable, Under
    <3>2. Adds(f)' = {}
      BY <2>2, <2>6 DEF Adds
    <3> QED BY <2>2, <2>3, <2>4, <3>1, <3>2 DEF Traced, OneTrace, ATrace, Alone, AtMostOne
  <2> QED BY <1>4, <2>5, <2>6
<1> QED BY <1>6, <1>7

\* The end of a context takes the entries of its flows from the table and the card, and
\* they were in a destroyed context from then on.
LEMMA DestroyTraced ==
  ASSUME FlowStart, FlowTypes', NEW s \in Rings, DestroyCtx(s), NEW f \in Flows, Clean(f)',
         Traced(f)
  PROVE  Traced(f)'
<1>1. /\ FlowTypes /\ offloaded' = {e \in offloaded : e.ctx # s}
      /\ table' = table \ {e \in table : e.ctx = s}
      /\ UNCHANGED <<sent, handled, cmds, due, hand>> /\ removed' = removed \cup Known(s)
  BY DEF FlowStart, FlowInv, DestroyCtx, LroDeleteCtx, ringVars, cardSide, pollSide
<1>2. f \notin Known(s)
  BY <1>1, LroAssumption DEF Clean
<1>3. \A e \in offloaded \cup table : e.ctx = s => e.flow # f
  BY <1>2 DEF Known
<1>4. /\ Adds(f)' = Adds(f) /\ OnCard(f)' = OnCard(f) /\ EndsDue(f)' = EndsDue(f)
      /\ EndsSent(f)' = EndsSent(f)
  BY <1>1, <1>3, EndsSame DEF Adds, OnCard, EndsDue
<1>5. HandAndTable(f)
  <2>1. \A r \in Rings : [flow |-> f, ctx |-> r].flow = f
    OBVIOUS
  <2> QED BY <1>1, <1>3, <2>1 DEF HandAndTable
<1> QED BY <1>1, <1>4, <1>5, TracedEach, TraceStays DEF Stays

\* After a reset there is neither.
LEMMA ResetTraced ==
  ASSUME FlowStart, Reset, NEW f \in Flows
  PROVE  Traced(f)'
<1>1. /\ table' = {} /\ cmds' = <<>> /\ offloaded' = {} /\ due' = {}
      /\ UNCHANGED hand /\ sent' = [r \in Rings |-> <<>>]
      /\ \A r \in Rings : hand[r] = NoFlow
  BY DEF Reset, LroRenewed, RingsRenewed, FlowStart, FlowInv, HandWhile
<1>2. \A r \in Rings : hand'[r] # f
  BY <1>1, LroAssumption
<1>3. /\ InHands(f)' = {} /\ OnCard(f)' = {} /\ EndsDue(f)' = {} /\ ~InTable(f)'
  BY <1>1, <1>2 DEF InHands, OnCard, EndsDue, InTable
<1>4. Adds(f)' = {} /\ EndsSent(f)' = {}
  BY <1>1 DEF Adds, EndsSent, EndAt
<1> QED BY <1>2, <1>3, <1>4 DEF Traced, OneTrace, ATrace, Alone, AtMostOne

LEMMA FlowInvInit == Init => FlowInv
<1> SUFFICES ASSUME Init PROVE FlowInv
  OBVIOUS
<1>1. /\ table = {} /\ cmds = <<>> /\ offloaded = {} /\ due = {} /\ removed = {}
      /\ hand = [r \in Rings |-> NoFlow] /\ sent = [r \in Rings |-> <<>>]
      /\ rpc = [r \in Rings |-> "idle"] /\ free = MaxLro /\ allocated = 0 /\ twice = 0
  BY MessagesAssumption DEF Init, LroInit, StatusInit
<1>2. FlowTypes /\ KeysApart /\ HandWhile /\ PoolExact
  BY <1>1, FS_EmptySet, LroAssumption DEF FlowTypes, KeysApart, HandWhile, PoolExact
<1>3. ASSUME NEW f \in Flows PROVE Traced(f)
  <2>1. /\ InHands(f) = {} /\ OnCard(f) = {} /\ EndsDue(f) = {} /\ ~InTable(f)
        /\ Adds(f) = {} /\ EndsSent(f) = {} /\ \A r \in Rings : hand[r] # f
    BY <1>1, LroAssumption DEF InHands, OnCard, EndsDue, InTable, Adds, EndsSent, EndAt
  <2> QED BY <2>1 DEF Traced, OneTrace, ATrace, Alone, AtMostOne
<1> QED BY <1>2, <1>3 DEF FlowInv, AllTraced

LEMMA FlowStep ==
  ASSUME FlowStart, [Next]_msgVars
  PROVE  FlowInv'
<1>1. PoolMoves /\ HandWhile' /\ FlowTypes' /\ KeysApart' /\ PoolExact'
  BY PoolSteps, PoolKept, HandWhileKept DEF FlowStart
<1>2. ASSUME NEW f \in Flows, Clean(f)' PROVE Traced(f)'
  <2>1. removed \subseteq removed'
    BY <1>1 DEF PoolMoves, PoolSame, DestroyCtx, Reset
  <2>2. Clean(f)
    BY <1>2, <2>1 DEF Clean
  <2>3. Traced(f)
    BY <2>2 DEF FlowStart, FlowInv, AllTraced
  <2>4. CASE CardTakes
    BY <1>1, <2>3, <2>4, CardTakesTraced
  <2>5. ASSUME NEW e \in offloaded, CardDrops(e) PROVE Traced(f)'
    BY <1>1, <2>3, <2>5, CardDropsTraced
  <2>6. ASSUME NEW s \in Rings, CardSends(s) PROVE Traced(f)'
    BY <1>1, <2>3, <2>6, CardSendsTraced
  <2>7. ASSUME NEW s \in Rings, Take(s) PROVE Traced(f)'
    BY <1>1, <2>2, <2>3, <2>7, TakeTraced
  <2>8. ASSUME NEW s \in Rings, Offload(s) PROVE Traced(f)'
    BY <1>1, <2>2, <2>3, <2>8, OffloadTraced
  <2>9. ASSUME NEW s \in Rings, DestroyCtx(s) PROVE Traced(f)'
    BY <1>1, <1>2, <2>3, <2>9, DestroyTraced
  <2>10. CASE Reset
    BY <2>10, ResetTraced
  <2>11. CASE \/ UNCHANGED msgVars
              \/ \E q \in asks : CardAnswers(q)
              \/ \E c \in Calls : Wait(c)
              \/ \E on \in BOOLEAN : SetState(on)
              \/ \E r \in Rings : CardGoesOn(r) \/ Poll(r) \/ Wake(r)
    BY <1>1, <2>3, <2>11, OthersTraced
  <2> QED BY <2>4, <2>5, <2>6, <2>7, <2>8, <2>9, <2>10, <2>11 DEF Next
<1> QED BY <1>1, <1>2 DEF FlowInv, AllTraced

\* What FlowsMatch says - the pool counts the entries of the table and the free ones, and
\* a flow has an entry just while the card has it, is asked to, or is telling its end,
\* but for flows of destroyed contexts - holds for every number of rings, flows, entries
\* and requests, and however the flows whose keys compare equal are grouped
\* (nx_initiate_lro, nx_handle_lro_response, nx_lro_delete_ctx_lro, the cleanup around a
\* reset).
THEOREM FlowsAgree == Spec => []FlowsMatch
<1>1. ASSUME FlowStart PROVE FlowsMatch
  <2>1. FlowInv /\ PoolExact /\ CardTypes /\ RingTypes
    BY <1>1 DEF FlowStart, FlowInv, RingInv
  <2> DEFINE known == {e.flow : e \in offloaded}
                        \cup {cmds[k].flow : k \in {j \in DOMAIN cmds : cmds[j].kind = "add"}}
             told == UNION {{sent[r][k].flow : k \in {j \in DOMAIN sent[r] :
                         j > Len(handled[r]) /\ sent[r][j].kind = "gone"}} : r \in Rings}
             ending == {m.flow : m \in {x \in due : x.kind = "gone"}} \cup told
  <2>2. ASSUME NEW f \in Flows, Clean(f)
        PROVE  /\ f \in known => InTable(f)
               /\ InTable(f) => f \in known \cup ending \cup {hand[r] : r \in Rings}
    <3>1. Traced(f)
      BY <2>1, <2>2 DEF FlowInv, AllTraced
    <3>2. f \in known <=> Adds(f) # {} \/ OnCard(f) # {}
      BY DEF Adds, OnCard
    <3>3. EndsDue(f) # {} => f \in ending
      BY DEF EndsDue
    <3>4. EndsSent(f) # {} => f \in told
      BY DEF EndsSent, EndAt
    <3>5. InHands(f) # {} => f \in {hand[r] : r \in Rings}
      BY DEF InHands
    <3> HIDE DEF known, ending, told
    <3>6. told \subseteq ending
      BY DEF ending
    <3> QED BY <3>1, <3>2, <3>3, <3>4, <3>5, <3>6 DEF Traced, ATrace
  <2>3. TableMatches
    BY <2>2 DEF TableMatches, Clean, InTable
  <2> QED BY <2>1, <2>3 DEF FlowsMatch
<1>2. FlowStart /\ [Next]_msgVars => FlowStart'
  BY RingInvStep, FlowStep DEF FlowStart
<1>3. Init => FlowStart
  BY RingInvInit, FlowInvInit DEF FlowStart
<1> QED BY <1>1, <1>2, <1>3, PTL DEF Spec
=============================================================================
