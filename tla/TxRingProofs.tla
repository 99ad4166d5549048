---------------------------- MODULE TxRingProofs ----------------------------
(***************************************************************************)
(* Proofs about TxRing.  Everything holds for every ring size, block size, *)
(* set of packets, of senders and of processors.  The transmit path that   *)
(* releases tx_lock without holding it, and a close that frees the ring    *)
(* under a poll, break mutual exclusion; both may happen here at any time. *)
(* What is proved holds until the first such step that meets another       *)
(* thread: the theorems name it as raced, and say nothing after it.        *)
(***************************************************************************)
EXTENDS TxRing, TLAPS, FiniteSetTheorems

\* Adding to an index stays in the ring.
LEMMA AdvanceInSlots ==
  ASSUME NEW i \in Slots, NEW n \in 0 .. MaxTxDescCount
  PROVE  Advance(i, n) \in Slots
BY RingAssumption DEF Advance, Slots

\* The distance between two indices is a number of slots.
LEMMA DistInSlots ==
  ASSUME NEW i \in Slots, NEW j \in Slots
  PROVE  /\ Dist(i, j) \in Slots
         /\ Dist(i, j) \in Nat
         /\ Dist(i, j) < MaxTxDescCount
BY RingAssumption DEF Dist, Slots

\* Advancing an index by less than what is left of the ring adds to its
\* distance.
LEMMA DistAdvance ==
  ASSUME NEW i \in Slots, NEW j \in Slots, NEW n \in Nat,
         Dist(i, j) + n < MaxTxDescCount
  PROVE  /\ Advance(j, n) \in Slots
         /\ Dist(i, Advance(j, n)) = Dist(i, j) + n
BY RingAssumption DEF Advance, Dist, Slots

\* Distances seen from a later index.
LEMMA DistShift ==
  ASSUME NEW i \in Slots, NEW j \in Slots, NEW k \in Slots,
         Dist(i, j) <= Dist(i, k)
  PROVE  Dist(j, k) = Dist(i, k) - Dist(i, j)
BY RingAssumption DEF Dist, Slots

\* An index at distance zero is the same index.
LEMMA DistZero ==
  ASSUME NEW i \in Slots, NEW j \in Slots
  PROVE  /\ Dist(i, i) = 0
         /\ Dist(i, j) = 0 => i = j
BY RingAssumption DEF Dist, Slots

\* The space check of the code says what it should: that the ring still has
\* one free descriptor after n more.
LEMMA HasRoomDist ==
  ASSUME cmdProducer \in Slots, lastCmdConsumer \in Slots, NEW n \in Nat
  PROVE  HasRoom(n) <=> Dist(lastCmdConsumer, cmdProducer) + n < MaxTxDescCount
BY RingAssumption DEF HasRoom, Dist, Slots

\* Two indices at the same distance are the same index.
LEMMA DistInjective ==
  ASSUME NEW i \in Slots, NEW j \in Slots, NEW k \in Slots,
         Dist(i, j) = Dist(i, k)
  PROVE  j = k
BY RingAssumption DEF Dist, Slots

\* What is written into the descriptors are descriptors.
LEMMA WrittenType ==
  ASSUME desc \in [Slots -> Descs], NEW p \in Slots, NEW s \in Seq(Descs)
  PROVE  Written(p, s) \in [Slots -> Descs]
<1>1. ASSUME NEW i \in Slots, Dist(p, i) < Len(s)
      PROVE  s[Dist(p, i) + 1] \in Descs
  <2>1. Dist(p, i) \in Nat BY RingAssumption DEF Dist, Slots
  <2>2. Dist(p, i) + 1 \in 1 .. Len(s) BY <2>1, <1>1
  <2> QED BY <2>2
<1> QED BY <1>1 DEF Written

LEMMA ClearedType ==
  ASSUME buf \in [Slots -> Skbs \cup {None}], NEW p \in Slots, NEW n
  PROVE  Cleared(p, n) \in [Slots -> Skbs \cup {None}]
BY DEF Cleared

\* Commands are numbered within their bound.
LEMMA NextCommandsType ==
  ASSUME accepted \in 0 .. MaxCommands, NEW n \in Nat,
         accepted + n <= MaxCommands
  PROVE  /\ NextCommands(n) \in Seq(Commands)
         /\ Len(NextCommands(n)) = n
BY RingAssumption DEF NextCommands, Commands

\* Where the locals and counters are reset to.
LEMMA ZeroInRange ==
  /\ 0 \in Slots
  /\ 0 \in 0 .. ResetThreshold + 1
  /\ 0 \in 0 .. MaxStatusHandle
BY RingAssumption DEF Slots

\* What is appended stands behind what was there.
LEMMA AppendAt ==
  ASSUME NEW S, NEW q \in Seq(S), NEW e \in S, NEW k \in 1 .. Len(Append(q, e))
  PROVE  Append(q, e)[k] = IF k <= Len(q) THEN q[k] ELSE e
OBVIOUS

-----------------------------------------------------------------------------
(* The inductive invariant.                                                *)

\* A sender that is about to queue its message checked that the commands fit.
Reserved ==
  \A t \in Senders : spc[t] = "reserved" =>
    /\ slen[t] \in MessageSizes
    /\ accepted + slen[t] <= MaxCommands
    /\ BlockAvailable(slen[t])

IInv ==
  /\ TypeOK
  /\ LockDiscipline
  /\ RingInOrder
  /\ PendingCounted
  /\ Reserved

-----------------------------------------------------------------------------
(* The two steps that move blocks of waiting commands.                     *)

\* Queueing never runs out of blocks: every command of the message is kept,
\* full blocks go to the list, and the counter goes on counting.
LEMMA QueueStep ==
  ASSUME IInv, NEW t \in Senders, SendQueue(t)
  PROVE  /\ bugHit' = bugHit
         /\ cmdList' \in Seq(Seq(Commands)) /\ currBlock' \in Seq(Commands)
         /\ pendCnt' \in Nat /\ freeBlocks' \in Nat
         /\ accepted' \in 0 .. MaxCommands
         /\ PendingCounted'
<1> DEFINE n     == slen[t]
           both  == currBlock \o NextCommands(n)
           fresh == IF currBlock = <<>> \/ Len(both) > BlockSize THEN 1 ELSE 0
           short == fresh > freeBlocks
           kept  == IF ~short THEN both
                    ELSE IF currBlock = <<>> THEN <<>>
                    ELSE SubSeq(both, 1, BlockSize)
<1>1. /\ n \in Nat /\ n <= BlockSize /\ accepted + n <= MaxCommands
      /\ BlockAvailable(n)
  <2>1. spc[t] = "reserved"
    BY DEF SendQueue
  <2>2. n \in MessageSizes /\ accepted + n <= MaxCommands /\ BlockAvailable(n)
    BY <2>1 DEF IInv, Reserved
  <2>3. MessageSizes \subseteq 1 .. BlockSize /\ BlockSize \in Nat
    BY RingAssumption
  <2>4. n \in 1 .. BlockSize
    BY <2>2, <2>3
  <2> HIDE DEF n
  <2> QED BY <2>2, <2>3, <2>4
<1>2. both \in Seq(Commands) /\ Len(both) = Len(currBlock) + n
  <2>1. accepted \in 0 .. MaxCommands /\ currBlock \in Seq(Commands)
    BY DEF IInv, TypeOK
  <2>2. /\ NextCommands(n) \in Seq(Commands)
        /\ Len(NextCommands(n)) = n
    BY <1>1, <2>1, NextCommandsType
  <2> QED BY <2>1, <2>2
<1>3. ~short
  <2>1. freeBlocks \in Nat
    BY DEF IInv, TypeOK
  <2>2. fresh = 1 => freeBlocks > 0
    <3>1. Len(currBlock) \in Nat /\ BlockSize \in Nat
      BY RingAssumption DEF IInv, TypeOK
    <3>2. CASE freeBlocks > 0
      BY <3>2
    <3>3. CASE currBlock # <<>> /\ Len(currBlock) + n <= BlockSize
      <4>1. Len(both) <= BlockSize
        BY <1>2, <3>3
      <4> HIDE DEF both
      <4>2. fresh = 0
        BY <1>1, <1>2, <3>1, <3>3, <4>1
      <4> QED BY <4>2
    <3> QED BY <1>1, <3>2, <3>3 DEF BlockAvailable
  <2> QED BY <2>1, <2>2
<1>4. kept = both
  BY <1>3
<1>5. /\ bugHit' = (bugHit \/ short)
      /\ freeBlocks' = IF short THEN freeBlocks ELSE freeBlocks - fresh
      /\ pendCnt' = pendCnt + Len(kept) - Len(currBlock)
      /\ IF Len(kept) >= BlockSize
           THEN /\ cmdList' = Append(cmdList, SubSeq(kept, 1, BlockSize))
                /\ currBlock' = SubSeq(kept, BlockSize + 1, Len(kept))
           ELSE /\ currBlock' = kept
                /\ UNCHANGED cmdList
      /\ accepted' = accepted + n
  BY DEF SendQueue
<1> HIDE DEF n, both, short, kept
<1>6. /\ bugHit' = bugHit /\ freeBlocks' \in Nat
      /\ accepted' \in 0 .. MaxCommands
  <2>1. bugHit' = bugHit
    BY <1>3, <1>5 DEF IInv, TypeOK
  <2>2. freeBlocks' \in Nat
    BY <1>3, <1>5 DEF short, IInv, TypeOK
  <2>3. accepted' \in 0 .. MaxCommands
    BY <1>1, <1>5, RingAssumption DEF IInv, TypeOK
  <2> QED BY <2>1, <2>2, <2>3
<1>7. pendCnt' = pendCnt + n /\ pendCnt' \in Nat
  BY <1>1, <1>2, <1>4, <1>5 DEF IInv, TypeOK
<1>8. CASE Len(both) < BlockSize
  <2>1. currBlock' = both /\ cmdList' = cmdList
    BY <1>2, <1>4, <1>5, <1>8, RingAssumption
  <2> QED
    <3>1. PendingCounted /\ cmdList \in Seq(Seq(Commands)) /\ pendCnt \in Nat
      BY DEF IInv, TypeOK
    <3>2. PendingCounted'
      <4>1. /\ pendCnt = BlockSize * Len(cmdList) + Len(currBlock)
            /\ \A k \in 1 .. Len(cmdList) : Len(cmdList[k]) = BlockSize
        BY <3>1 DEF PendingCounted
      <4>2. BlockSize * Len(cmdList) \in Nat /\ Len(currBlock) \in Nat
        BY <3>1, RingAssumption DEF IInv, TypeOK
      <4>3. pendCnt' = BlockSize * Len(cmdList) + Len(both)
        BY <1>1, <1>2, <1>7, <4>1, <4>2
      <4> QED BY <1>8, <2>1, <4>1, <4>3 DEF PendingCounted
    <3> QED BY <1>2, <1>6, <1>7, <2>1, <3>1, <3>2
<1>9. CASE Len(both) >= BlockSize
  <2> DEFINE full == SubSeq(both, 1, BlockSize)
             rest == SubSeq(both, BlockSize + 1, Len(both))
  <2>1. cmdList' = Append(cmdList, full) /\ currBlock' = rest
    BY <1>4, <1>5, <1>9
  <2>2. full \in Seq(Commands) /\ Len(full) = BlockSize
    BY <1>2, <1>9, RingAssumption
  <2>3. rest \in Seq(Commands) /\ Len(rest) = Len(both) - BlockSize
    BY <1>2, <1>9, RingAssumption
  <2>4. Len(rest) < BlockSize
    BY <1>1, <1>2, <2>3, RingAssumption DEF IInv, TypeOK, PendingCounted
  <2> HIDE DEF full, rest
  <2>5. cmdList' \in Seq(Seq(Commands)) /\ Len(cmdList') = Len(cmdList) + 1
    BY <2>1, <2>2 DEF IInv, TypeOK
  <2>6. ASSUME NEW k \in 1 .. Len(cmdList')
        PROVE  Len(cmdList'[k]) = BlockSize
    <3>1. \A j \in 1 .. Len(cmdList) : Len(cmdList[j]) = BlockSize
      BY DEF IInv, PendingCounted
    <3>2. cmdList \in Seq(Seq(Commands))
      BY DEF IInv, TypeOK
    <3>3. cmdList'[k] = IF k <= Len(cmdList) THEN cmdList[k] ELSE full
      <4>1. \A i \in 1 .. Len(Append(cmdList, full)) :
               Append(cmdList, full)[i] = IF i <= Len(cmdList) THEN cmdList[i] ELSE full
        BY <2>2, <3>2, AppendAt
      <4> QED BY <2>1, <4>1
    <3>4. CASE k \in 1 .. Len(cmdList)
      BY <3>1, <3>3, <3>4
    <3>5. CASE k \notin 1 .. Len(cmdList)
      <4>1. ~(k <= Len(cmdList)) BY <3>2, <3>5
      <4> QED BY <2>2, <3>3, <4>1
    <3> QED BY <3>4, <3>5
  <2>7. pendCnt' = BlockSize * Len(cmdList') + Len(currBlock')
    BY <1>1, <1>2, <1>7, <2>1, <2>3, <2>5, RingAssumption
    DEF IInv, TypeOK, PendingCounted
  <2> QED
    BY <1>6, <1>7, <2>1, <2>3, <2>4, <2>5, <2>6, <2>7 DEF PendingCounted
<1> QED
  BY <1>2, <1>8, <1>9, RingAssumption

\* What a step of the drain does with the block it moves.
DrainedBlock(block) ==
  /\ Len(block) <= dlen
  /\ MoveBlock(block)
  /\ dprod' \in Slots /\ dlen' \in Slots
  /\ pendCnt' \in Nat /\ freeBlocks' \in Nat
  /\ cmdList' \in Seq(Seq(Commands)) /\ currBlock' \in Seq(Commands)
  /\ PendingCounted'

LEMMA DrainStep ==
  ASSUME IInv, NEW c \in Cpus, DrainBlock(c)
  PROVE  \E block \in Seq(Commands) : DrainedBlock(block)
<1>1. /\ cmdList \in Seq(Seq(Commands)) /\ currBlock \in Seq(Commands)
      /\ dprod \in Slots /\ dlen \in Slots /\ dlen \in Nat
      /\ lastCmdConsumer \in Slots
      /\ Dist(lastCmdConsumer, dprod) + dlen < MaxTxDescCount
  BY RingAssumption
  DEF IInv, TypeOK, RingInOrder, DrainInOrder, DrainBlock, Slots
<1>2. ASSUME NEW block \in Seq(Commands), Len(block) <= dlen, MoveBlock(block),
             Len(block) <= pendCnt
      PROVE  /\ dprod' \in Slots /\ dlen' \in Slots
             /\ pendCnt' \in Nat /\ freeBlocks' \in Nat
  <2>1. Dist(lastCmdConsumer, dprod) \in Nat
    BY <1>1, RingAssumption DEF Dist, Slots
  <2>2. dprod' \in Slots
    BY <1>1, <1>2, <2>1, DistAdvance, RingAssumption DEF MoveBlock
  <2>3. dlen' \in Slots
    BY <1>1, <1>2, RingAssumption DEF MoveBlock, Slots
  <2> QED
    BY <1>2, <2>2, <2>3 DEF MoveBlock, IInv, TypeOK
<1>3. CASE /\ FullBlockFits /\ MoveBlock(Head(cmdList))
           /\ cmdList' = Tail(cmdList) /\ UNCHANGED currBlock
  <2> DEFINE block == Head(cmdList)
  <2>1. /\ block \in Seq(Commands) /\ Len(block) = BlockSize
        /\ Tail(cmdList) \in Seq(Seq(Commands))
        /\ Len(cmdList) > 0 /\ Len(Tail(cmdList)) = Len(cmdList) - 1
        /\ \A k \in 1 .. Len(Tail(cmdList)) :
             Tail(cmdList)[k] = cmdList[k + 1] /\ k + 1 \in 1 .. Len(cmdList)
    BY <1>1, <1>3 DEF FullBlockFits, IInv, PendingCounted
  <2>2. BlockSize * Len(Tail(cmdList)) = BlockSize * Len(cmdList) - BlockSize
    BY <1>1, <2>1, RingAssumption
  <2>3. Len(block) <= dlen
    BY <1>3, <2>1 DEF FullBlockFits
  <2>4. Len(block) <= pendCnt
    <3>1. BlockSize * Len(Tail(cmdList)) \in Nat
      BY <2>1, RingAssumption
    <3>2. pendCnt = BlockSize * Len(cmdList) + Len(currBlock)
      BY DEF IInv, PendingCounted
    <3>3. BlockSize * Len(cmdList) \in Nat /\ BlockSize \in Nat
      BY <1>1, RingAssumption
    <3> HIDE DEF block
    <3> QED BY <1>1, <2>1, <2>2, <3>1, <3>2, <3>3
  <2>5. PendingCounted'
    <3>1. PendingCounted
      BY DEF IInv
    <3>2. \A k \in 1 .. Len(cmdList') : Len(cmdList'[k]) = BlockSize
      BY <1>3, <2>1, <3>1 DEF PendingCounted
    <3>3. Len(currBlock') < BlockSize
      BY <1>3, <3>1 DEF PendingCounted
    <3>4. pendCnt' = BlockSize * Len(cmdList') + Len(currBlock')
      <4>1. pendCnt' = pendCnt - BlockSize
        BY <1>3, <2>1 DEF MoveBlock
      <4>2. pendCnt = BlockSize * Len(cmdList) + Len(currBlock)
        BY <3>1 DEF PendingCounted
      <4>3. cmdList' = Tail(cmdList) /\ currBlock' = currBlock
        BY <1>3
      <4>4. BlockSize * Len(cmdList) \in Nat /\ BlockSize \in Nat
        BY <1>1, RingAssumption
      <4> QED BY <1>1, <2>2, <4>1, <4>2, <4>3, <4>4
    <3> QED BY <3>2, <3>3, <3>4 DEF PendingCounted
  <2> HIDE DEF block
  <2> QED
    BY <1>1, <1>2, <1>3, <2>1, <2>3, <2>4, <2>5 DEF DrainedBlock, block
<1>4. CASE /\ CurrBlockFits /\ MoveBlock(currBlock)
           /\ currBlock' = <<>> /\ UNCHANGED cmdList
  <2>1. Len(currBlock) <= dlen
    BY <1>4 DEF CurrBlockFits
  <2>2. BlockSize * Len(cmdList) = 0 /\ cmdList = <<>>
    BY <1>4, RingAssumption DEF CurrBlockFits
  <2>3. Len(currBlock) <= pendCnt
    BY <1>1, <2>2 DEF IInv, PendingCounted
  <2>4. PendingCounted'
    BY <1>1, <1>4, <2>2, RingAssumption
    DEF IInv, TypeOK, PendingCounted, MoveBlock
  <2> QED
    BY <1>1, <1>2, <1>4, <2>1, <2>3, <2>4 DEF DrainedBlock
<1> QED
  BY <1>3, <1>4 DEF DrainBlock

-----------------------------------------------------------------------------
(* Every step keeps each part of the invariant: one step of the proof per   *)
(* action.                                                                  *)

\* Every step keeps the types.
LEMMA TypeStep ==
  ASSUME IInv, [Next]_vars
  PROVE  TypeOK'
<1> USE DEF histVars
<1>1. ASSUME NEW s \in Skbs, XmitPullFail(s) PROVE TypeOK'
  BY <1>1, ZeroInRange, ThreadAssumption
  DEF IInv, TypeOK, XmitPullFail, CanXmit, DropPacket, ringVars, pendVars,
      netVars, tmoVars, xmitVars, sendVars, reapVars, drainVars, pollVars,
      cmdVars
<1>2. ASSUME NEW s \in Skbs, XmitNoCarrier(s) PROVE TypeOK'
  BY <1>2, ZeroInRange, ThreadAssumption
  DEF IInv, TypeOK, XmitNoCarrier, CanXmit, DropPacket, ringVars, pendVars,
      netVars, tmoVars, xmitVars, sendVars, reapVars, drainVars, pollVars,
      cmdVars
<1>3. ASSUME NEW s \in Skbs, NEW n \in FragDescs,
             NEW h \in HeaderDescs, XmitStart(s, n, h)
      PROVE  TypeOK'
  <2>1. n \in Nat /\ h \in 0 .. 2
    BY <1>3, RingAssumption
  <2>2. Dist(lastCmdConsumer, cmdProducer) + (n + h) < MaxTxDescCount
    <3>1. Dist(lastCmdConsumer, cmdProducer) + (n + 2) < MaxTxDescCount
      BY <1>3, <2>1, HasRoomDist DEF XmitStart, IInv, TypeOK
    <3>2. Dist(lastCmdConsumer, cmdProducer) \in Nat
      BY RingAssumption DEF IInv, TypeOK, Dist, Slots
    <3> QED BY <2>1, <3>1, <3>2, RingAssumption
  <2>3. xprod' \in Slots
    BY <1>3, <2>1, <2>2, DistAdvance DEF XmitStart, IInv, TypeOK
  <2>4. desc' \in [Slots -> Descs]
    <3> DEFINE ds == [k \in 1 .. n + h |-> IF k = 1 THEN s ELSE Cont]
    <3>1. ds \in Seq(Descs)
      BY <1>3, <2>1 DEF Descs
    <3>2. desc \in [Slots -> Descs] /\ cmdProducer \in Slots
      BY DEF IInv, TypeOK
    <3>3. desc' = Written(cmdProducer, ds)
      BY <1>3 DEF XmitStart
    <3> HIDE DEF ds
    <3> QED BY <3>1, <3>2, <3>3, WrittenType
  <2> QED
    BY <1>3, <2>3, <2>4, ThreadAssumption
    DEF XmitStart, CanXmit, IInv, TypeOK, pendVars, netVars, tmoVars,
        sendVars, reapVars, drainVars, pollVars, cmdVars
<1>4. ASSUME NEW s \in Skbs, NEW n \in FragDescs, XmitNoRoom(s, n)
      PROVE  TypeOK'
  BY <1>4, ZeroInRange, ThreadAssumption
  DEF IInv, TypeOK, XmitNoRoom, CanXmit, ringVars, pendVars, netVars, tmoVars,
      sendVars, reapVars, drainVars, pollVars, skbVars, cmdVars
<1>5. CASE XmitMapFail
  <2>1. frees' \in [Skbs -> Nat]
    <3>1. frees \in [Skbs -> Nat]
      BY DEF IInv, TypeOK
    <3>2. frees' = [frees EXCEPT ![xskb] = @ + 1]
      BY <1>5 DEF XmitMapFail, DropPacket
    <3>3. CASE xskb \in Skbs
      BY <3>1, <3>2, <3>3
    <3>4. CASE xskb \notin Skbs
      <4>1. frees' = frees
        BY <3>1, <3>2, <3>4
      <4> QED BY <3>1, <4>1
    <3> QED BY <3>3, <3>4
  <2> QED
    BY <1>5, <2>1, ZeroInRange
    DEF XmitMapFail, DropPacket, IInv, TypeOK, ringVars, pendVars, netVars,
        tmoVars, sendVars, reapVars, drainVars, pollVars, cmdVars
<1>6. CASE XmitPublish
  BY <1>6, ZeroInRange, ThreadAssumption
  DEF IInv, TypeOK, XmitPublish, pendVars, netVars, tmoVars, sendVars,
      reapVars, drainVars, pollVars, skbVars, cmdVars
<1>7. CASE XmitRequeue
  BY <1>7, ZeroInRange, ThreadAssumption
  DEF IInv, TypeOK, XmitRequeue, ringVars, pendVars, tmoVars, sendVars,
      reapVars, drainVars, pollVars, skbVars, cmdVars
<1>8. ASSUME NEW t \in Senders, NEW n \in MessageSizes, SendDirect(t, n)
      PROVE  TypeOK'
  <2>1. n \in Nat /\ accepted + n <= MaxCommands
    BY <1>8, RingAssumption DEF SendDirect, CanSend
  <2>2. Dist(lastCmdConsumer, cmdProducer) + n < MaxTxDescCount
    BY <1>8, <2>1, HasRoomDist DEF SendDirect, MustQueue, IInv, TypeOK
  <2>3. Advance(cmdProducer, n) \in Slots
    BY <2>1, <2>2, DistAdvance DEF IInv, TypeOK
  <2>4. desc' \in [Slots -> Descs]
    <3>1. NextCommands(n) \in Seq(Descs)
      <4>1. NextCommands(n) \in Seq(Commands)
        BY <2>1, NextCommandsType DEF IInv, TypeOK
      <4> QED BY <4>1 DEF Descs
    <3> QED BY <1>8, <3>1, WrittenType DEF SendDirect, IInv, TypeOK
  <2>5. buf' \in [Slots -> Skbs \cup {None}]
    BY <1>8, ClearedType DEF SendDirect, IInv, TypeOK
  <2>6. accepted' \in 0 .. MaxCommands
    BY <1>8, <2>1, RingAssumption DEF SendDirect, IInv, TypeOK
  <2>7. spc' \in [Senders -> {"idle", "filled", "reserved"}]
        /\ sprod' \in [Senders -> Slots]
    BY <1>8, <2>3 DEF SendDirect, IInv, TypeOK
  <2> QED
    BY <1>8, <2>4, <2>5, <2>6, <2>7
    DEF SendDirect, IInv, TypeOK, pendVars, netVars, tmoVars, xmitVars,
        reapVars, drainVars, pollVars, skbVars
<1>9. ASSUME NEW t \in Senders, NEW n \in MessageSizes, SendReserve(t, n)
      PROVE  TypeOK'
  BY <1>9, ZeroInRange, ThreadAssumption
  DEF IInv, TypeOK, SendReserve, CanSend, ringVars, netVars, tmoVars,
      xmitVars, reapVars, drainVars, pollVars, skbVars, cmdVars
<1>10. ASSUME NEW t \in Senders, SendPublish(t) PROVE TypeOK'
  BY <1>10, ZeroInRange, ThreadAssumption
  DEF IInv, TypeOK, SendPublish, pendVars, netVars, tmoVars, xmitVars,
      reapVars, drainVars, pollVars, skbVars, cmdVars
<1>11. ASSUME NEW t \in Senders, SendQueue(t) PROVE TypeOK'
  <2>1. /\ cmdList' \in Seq(Seq(Commands)) /\ currBlock' \in Seq(Commands)
        /\ pendCnt' \in Nat /\ freeBlocks' \in Nat
        /\ bugHit' \in BOOLEAN /\ accepted' \in 0 .. MaxCommands
    BY <1>11, QueueStep DEF IInv, TypeOK
  <2> QED
    BY <1>11, <2>1
    DEF SendQueue, IInv, TypeOK, ringVars, netVars, tmoVars, xmitVars,
        reapVars, drainVars, pollVars, skbVars
<1>12. ASSUME NEW c \in Cpus, PollStart(c) PROVE TypeOK'
  BY <1>12, ZeroInRange, ThreadAssumption
  DEF IInv, TypeOK, PollStart, GoTo, Interrupt, ringVars, pendVars, netVars,
      tmoVars, xmitVars, sendVars, reapVars, drainVars, skbVars, cmdVars
<1>13. ASSUME NEW c \in Cpus, PollAgain(c) PROVE TypeOK'
  BY <1>13, ZeroInRange, ThreadAssumption
  DEF IInv, TypeOK, PollAgain, Interrupt, Finishing, ringVars, pendVars,
      netVars, tmoVars, xmitVars, sendVars, reapVars, drainVars, skbVars,
      cmdVars
<1>14. ASSUME NEW c \in Cpus, PollMissed(c) PROVE TypeOK'
  BY <1>14, ZeroInRange, ThreadAssumption
  DEF IInv, TypeOK, PollMissed, Interrupt, Finishing, ringVars, pendVars,
      netVars, tmoVars, xmitVars, sendVars, reapVars, drainVars, skbVars,
      cmdVars
<1>15. ASSUME NEW c \in Cpus, PollTxBusy(c) PROVE TypeOK'
  BY <1>15, ZeroInRange, ThreadAssumption
  DEF IInv, TypeOK, PollTxBusy, GoTo, ringVars, pendVars, netVars, tmoVars,
      xmitVars, sendVars, reapVars, drainVars, skbVars, cmdVars
<1>16. ASSUME NEW c \in Cpus, PollTxBegin(c) PROVE TypeOK'
  BY <1>16, ZeroInRange, ThreadAssumption
  DEF IInv, TypeOK, PollTxBegin, GoTo, ringVars, pendVars, netVars, tmoVars,
      xmitVars, sendVars, drainVars, skbVars, cmdVars
<1>17. ASSUME NEW c \in Cpus, PollReap(c) PROVE TypeOK'
  <2>1. frees' \in [Skbs -> Nat]
    BY <1>17 DEF PollReap, IInv, TypeOK
  <2>2. buf' \in [Slots -> Skbs \cup {None}]
    BY <1>17 DEF PollReap, IInv, TypeOK
  <2>3. rlast' \in Slots
    BY <1>17, AdvanceInSlots, RingAssumption DEF PollReap, IInv, TypeOK
  <2>4. rcount' \in 0 .. MaxStatusHandle
    BY <1>17, RingAssumption DEF PollReap, ReapMore, IInv, TypeOK
  <2> QED
    BY <1>17, <2>1, <2>2, <2>3, <2>4
    DEF PollReap, IInv, TypeOK, pendVars, netVars, tmoVars, xmitVars,
        sendVars, drainVars, pollVars, cmdVars
<1>18. ASSUME NEW c \in Cpus, PollTxNothing(c) PROVE TypeOK'
  BY <1>18, ZeroInRange, ThreadAssumption
  DEF IInv, TypeOK, PollTxNothing, ReapMore, GoTo, ringVars, pendVars,
      netVars, tmoVars, xmitVars, sendVars, drainVars, skbVars, cmdVars
<1>19. ASSUME NEW c \in Cpus, PollCommit(c) PROVE TypeOK'
  BY <1>19, ZeroInRange, ThreadAssumption
  DEF IInv, TypeOK, PollCommit, ReapMore, GoTo, pendVars, netVars, tmoVars,
      xmitVars, sendVars, drainVars, skbVars, cmdVars
<1>20. ASSUME NEW c \in Cpus, PollNoWake(c) PROVE TypeOK'
  BY <1>20, ZeroInRange, ThreadAssumption
  DEF IInv, TypeOK, PollNoWake, GoTo, ringVars, pendVars, netVars, tmoVars,
      xmitVars, sendVars, reapVars, drainVars, skbVars, cmdVars
<1>21. ASSUME NEW c \in Cpus, PollSeesStopped(c) PROVE TypeOK'
  BY <1>21, ZeroInRange, ThreadAssumption
  DEF IInv, TypeOK, PollSeesStopped, GoTo, ringVars, pendVars, netVars,
      tmoVars, xmitVars, sendVars, reapVars, drainVars, skbVars, cmdVars
<1>22. ASSUME NEW c \in Cpus, PollWake(c) PROVE TypeOK'
  BY <1>22, ZeroInRange, ThreadAssumption
  DEF IInv, TypeOK, PollWake, GoTo, ringVars, pendVars, xmitVars, sendVars,
      reapVars, drainVars, skbVars, cmdVars
<1>23. ASSUME NEW c \in Cpus, NEW more \in BOOLEAN, PollComplete(c, more)
       PROVE  TypeOK'
  BY <1>23, ZeroInRange, ThreadAssumption
  DEF IInv, TypeOK, PollComplete, GoTo, ringVars, pendVars, netVars, tmoVars,
      xmitVars, sendVars, reapVars, drainVars, skbVars, cmdVars
<1>24. ASSUME NEW c \in Cpus, PollPendBusy(c) PROVE TypeOK'
  BY <1>24, ZeroInRange, ThreadAssumption
  DEF IInv, TypeOK, PollPendBusy, PollReturn, GoTo, ringVars, pendVars,
      netVars, tmoVars, xmitVars, sendVars, reapVars, drainVars, skbVars,
      cmdVars
<1>25. ASSUME NEW c \in Cpus, PollPendTry(c) PROVE TypeOK'
  BY <1>25, ZeroInRange, ThreadAssumption
  DEF IInv, TypeOK, PollPendTry, GoTo, ringVars, pendVars, netVars, tmoVars,
      xmitVars, sendVars, reapVars, drainVars, skbVars, cmdVars
<1>26. ASSUME NEW c \in Cpus, PollNoPending(c) PROVE TypeOK'
  BY <1>26, ZeroInRange, ThreadAssumption
  DEF IInv, TypeOK, PollNoPending, PollReturn, GoTo, ringVars, pendVars,
      netVars, tmoVars, xmitVars, sendVars, reapVars, drainVars, skbVars,
      cmdVars
<1>27. ASSUME NEW c \in Cpus, DrainBegin(c) PROVE TypeOK'
  <2>1. dprod' \in Slots /\ dlen' \in Slots
    BY <1>27, RingAssumption
    DEF DrainBegin, FreeDescs, IInv, TypeOK, Dist, Slots
  <2> QED
    BY <1>27, <2>1, ThreadAssumption
    DEF DrainBegin, GoTo, IInv, TypeOK, ringVars, pendVars, netVars, tmoVars,
        xmitVars, sendVars, reapVars, skbVars, cmdVars
<1>28. ASSUME NEW c \in Cpus, DrainBlock(c) PROVE TypeOK'
  <2>1. PICK block \in Seq(Commands) : DrainedBlock(block)
    BY <1>28, DrainStep
  <2>2. desc' \in [Slots -> Descs]
    <3>1. block \in Seq(Descs)
      BY DEF Descs
    <3> QED
      BY <2>1, <3>1, WrittenType DEF DrainedBlock, MoveBlock, IInv, TypeOK
  <2>3. buf' \in [Slots -> Skbs \cup {None}]
    BY <2>1, ClearedType DEF DrainedBlock, MoveBlock, IInv, TypeOK
  <2>4. UNCHANGED <<cmdProducer, lastCmdConsumer, cmdConsumer, txLock, bugHit,
                    netVars, tmoVars, xmitVars, sendVars, reapVars, pollVars,
                    skbVars, cmdVars, histVars>>
    BY <1>28 DEF DrainBlock
  <2> QED
    BY <2>1, <2>2, <2>3, <2>4
    DEF DrainedBlock, IInv, TypeOK, netVars, tmoVars, xmitVars, sendVars,
        reapVars, pollVars, skbVars, cmdVars
<1>29. ASSUME NEW c \in Cpus, DrainEnd(c) PROVE TypeOK'
  BY <1>29, ZeroInRange, ThreadAssumption
  DEF IInv, TypeOK, DrainEnd, PollReturn, GoTo, pendVars, netVars, tmoVars,
      xmitVars, sendVars, reapVars, skbVars, cmdVars
<1>30. CASE CardComplete
  <2>1. PICK n \in 1 .. Dist(cmdConsumer, cmdProducer) :
               cmdConsumer' = Advance(cmdConsumer, n)
    BY <1>30 DEF CardComplete
  <2>2. cmdConsumer' \in Slots
    <3>1. Dist(cmdConsumer, cmdProducer) \in Slots
      BY DistInSlots DEF IInv, TypeOK
    <3>2. n \in 0 .. MaxTxDescCount
      BY <3>1, RingAssumption DEF Slots
    <3> QED BY <2>1, <3>2, AdvanceInSlots DEF IInv, TypeOK
  <2>3. executed' \in 0 .. MaxCommands
    BY <1>30, RingAssumption DEF CardComplete, IInv, TypeOK, Commands
  <2> QED
    BY <1>30, <2>2, <2>3
    DEF CardComplete, IInv, TypeOK, pendVars, netVars, tmoVars, xmitVars,
        sendVars, reapVars, drainVars, skbVars
<1>31. CASE LinkDown
  <2>1. downs' \in 0 .. MaxDowns
    BY <1>31, RingAssumption DEF LinkDown, IInv, TypeOK
  <2> QED
    BY <1>31, <2>1
    DEF LinkDown, IInv, TypeOK, ringVars, pendVars, tmoVars, xmitVars,
        sendVars, reapVars, drainVars, pollVars, skbVars, cmdVars
<1>32. CASE LinkUp
  <2>1. carrier' \in BOOLEAN /\ stopped' \in BOOLEAN
    BY <1>32 DEF LinkUp
  <2>2. UNCHANGED <<ringVars, txLock, pendVars, running, tmoVars, xmitVars,
                    sendVars, reapVars, drainVars, pollVars, skbVars, cmdVars,
                    histVars>>
    BY <1>32 DEF LinkUp
  <2> QED
    BY <2>1, <2>2
    DEF IInv, TypeOK, ringVars, pendVars, tmoVars, xmitVars, sendVars,
        reapVars, drainVars, pollVars, skbVars, cmdVars
<1>33. CASE TxTimeout
  BY <1>33
  DEF IInv, TypeOK, TxTimeout, ringVars, pendVars, netVars, xmitVars,
      sendVars, reapVars, drainVars, pollVars, skbVars, cmdVars
<1>34. CASE TxTimeoutTask
  <2>1. timeoutCount' \in 0 .. ResetThreshold + 1
    BY <1>34, RingAssumption DEF TxTimeoutTask, IInv, TypeOK
  <2>2. timeoutWork' \in BOOLEAN /\ stopped' \in BOOLEAN
    BY <1>34 DEF TxTimeoutTask, IInv, TypeOK
  <2>3. intr' \subseteq Cpus
    BY <1>34, ThreadAssumption DEF TxTimeoutTask, IInv, TypeOK
  <2>4. UNCHANGED <<ringVars, txLock, pendVars, carrier, running, xmitVars,
                    sendVars, reapVars, drainVars, ppc, again, irq, txExcl,
                    skbVars, cmdVars, histVars>>
    BY <1>34 DEF TxTimeoutTask
  <2> QED
    BY <2>1, <2>2, <2>3, <2>4
    DEF IInv, TypeOK, ringVars, pendVars, xmitVars, sendVars, reapVars,
        drainVars, skbVars, cmdVars
<1>35. CASE Close
  <2>1. ASSUME NEW s \in Skbs
        PROVE  Cardinality({i \in Slots : buf[i] = s}) \in Nat
    <3>1. IsFiniteSet(Slots)
      BY FS_Interval, RingAssumption DEF Slots
    <3>2. IsFiniteSet({i \in Slots : buf[i] = s})
      BY <3>1, FS_Subset
    <3> QED BY <3>2, FS_CardinalityType
  <2>2. frees' \in [Skbs -> Nat]
    <3>1. frees \in [Skbs -> Nat]
      BY DEF IInv, TypeOK
    <3>2. frees' = [s \in Skbs |->
             frees[s] + Cardinality({i \in Slots : buf[i] = s})]
      BY <1>35 DEF Close
    <3> QED BY <2>1, <3>1, <3>2
  <2>3. downs' \in 0 .. MaxDowns
    BY <1>35, RingAssumption DEF Close, IInv, TypeOK
  <2> QED
    BY <1>35, <2>2, <2>3
    DEF Close, IInv, TypeOK, pendVars, tmoVars, xmitVars, sendVars, reapVars,
        drainVars, cmdVars
<1>36. CASE Open
  <2>1. running' \in BOOLEAN /\ stopped' \in BOOLEAN /\ intr' \subseteq Cpus
    BY <1>36 DEF Open
  <2>2. UNCHANGED <<ringVars, txLock, pendVars, carrier, tmoVars, xmitVars,
                    sendVars, reapVars, drainVars, ppc, again, irq, txExcl,
                    skbVars, cmdVars, histVars>>
    BY <1>36 DEF Open
  <2> QED
    BY <2>1, <2>2
    DEF IInv, TypeOK, ringVars, pendVars, tmoVars, xmitVars, sendVars,
        reapVars, drainVars, skbVars, cmdVars
<1>37. CASE UNCHANGED vars
  BY <1>37
  DEF IInv, TypeOK, vars, ringVars, pendVars, netVars, tmoVars, xmitVars,
      sendVars, reapVars, drainVars, pollVars, skbVars, cmdVars
<1> QED
  BY <1>1, <1>2, <1>3, <1>4, <1>5, <1>6, <1>7, <1>8, <1>9, <1>10, <1>11,
     <1>12, <1>13, <1>14, <1>15, <1>16, <1>17, <1>18, <1>19, <1>20, <1>21,
     <1>22, <1>23, <1>24, <1>25, <1>26, <1>27, <1>28, <1>29, <1>30, <1>31,
     <1>32, <1>33, <1>34, <1>35, <1>36, <1>37
  DEF Next, XmitBegins, XmitGoesOn, SendBegins, SendGoesOn, PollGoesOn

\* Every step takes a free lock, or releases one that its thread holds.
LEMMA LockStep ==
  ASSUME ~raced', TypeOK, LockDiscipline, [Next]_vars
  PROVE  LockDiscipline'
<1>1. ASSUME NEW s \in Skbs, XmitPullFail(s) PROVE LockDiscipline'
  BY <1>1, ThreadAssumption
  DEF TypeOK, LockDiscipline, XmitPullFail, CanXmit, DropPacket,
      xmitVars, sendVars, pollVars
<1>2. ASSUME NEW s \in Skbs, XmitNoCarrier(s) PROVE LockDiscipline'
  BY <1>2, ThreadAssumption
  DEF TypeOK, LockDiscipline, XmitNoCarrier, CanXmit, DropPacket, xmitVars,
      sendVars, pollVars
<1>3. ASSUME NEW s \in Skbs, NEW n \in FragDescs,
             NEW h \in HeaderDescs, XmitStart(s, n, h)
      PROVE  LockDiscipline'
  BY <1>3, ThreadAssumption
  DEF TypeOK, LockDiscipline, XmitStart, CanXmit, sendVars, pollVars
<1>4. ASSUME NEW s \in Skbs, NEW n \in FragDescs, XmitNoRoom(s, n)
      PROVE  LockDiscipline'
  BY <1>4, ThreadAssumption
  DEF TypeOK, LockDiscipline, XmitNoRoom, CanXmit, sendVars, pollVars
<1>5. CASE XmitMapFail
  BY <1>5, ThreadAssumption
  DEF TypeOK, LockDiscipline, XmitMapFail, DropPacket, sendVars, pollVars
<1>6. CASE XmitPublish
  BY <1>6, ThreadAssumption
  DEF TypeOK, LockDiscipline, XmitPublish, sendVars, pollVars
<1>7. CASE XmitRequeue
  BY <1>7, ThreadAssumption
  DEF TypeOK, LockDiscipline, XmitRequeue, sendVars, pollVars
<1>8. ASSUME NEW t \in Senders, NEW n \in MessageSizes, SendDirect(t, n)
      PROVE  LockDiscipline'
  BY <1>8, ThreadAssumption
  DEF TypeOK, LockDiscipline, SendDirect, CanSend, xmitVars, pollVars
<1>9. ASSUME NEW t \in Senders, NEW n \in MessageSizes, SendReserve(t, n)
      PROVE  LockDiscipline'
  BY <1>9, ThreadAssumption
  DEF TypeOK, LockDiscipline, SendReserve, CanSend, xmitVars, pollVars
<1>10. ASSUME NEW t \in Senders, SendPublish(t) PROVE LockDiscipline'
  BY <1>10, ThreadAssumption
  DEF TypeOK, LockDiscipline, SendPublish, xmitVars, pollVars
<1>11. ASSUME NEW t \in Senders, SendQueue(t) PROVE LockDiscipline'
  BY <1>11, ThreadAssumption
  DEF TypeOK, LockDiscipline, SendQueue, xmitVars, pollVars
<1>12. ASSUME NEW c \in Cpus, PollStart(c) PROVE LockDiscipline'
  BY <1>12, ThreadAssumption
  DEF TypeOK, LockDiscipline, PollStart, GoTo, xmitVars, sendVars
<1>13. ASSUME NEW c \in Cpus, PollAgain(c) PROVE LockDiscipline'
  BY <1>13, ThreadAssumption
  DEF TypeOK, LockDiscipline, PollAgain, xmitVars, sendVars
<1>14. ASSUME NEW c \in Cpus, PollMissed(c) PROVE LockDiscipline'
  BY <1>14, ThreadAssumption
  DEF TypeOK, LockDiscipline, PollMissed, xmitVars, sendVars
<1>15. ASSUME NEW c \in Cpus, PollTxBusy(c) PROVE LockDiscipline'
  BY <1>15, ThreadAssumption
  DEF TypeOK, LockDiscipline, PollTxBusy, GoTo, xmitVars, sendVars
<1>16. ASSUME NEW c \in Cpus, PollTxBegin(c) PROVE LockDiscipline'
  BY <1>16, ThreadAssumption
  DEF TypeOK, LockDiscipline, PollTxBegin, GoTo, xmitVars, sendVars
<1>17. ASSUME NEW c \in Cpus, PollReap(c) PROVE LockDiscipline'
  BY <1>17, ThreadAssumption
  DEF TypeOK, LockDiscipline, PollReap, xmitVars, sendVars, pollVars
<1>18. ASSUME NEW c \in Cpus, PollTxNothing(c) PROVE LockDiscipline'
  BY <1>18, ThreadAssumption
  DEF TypeOK, LockDiscipline, PollTxNothing, GoTo, xmitVars, sendVars
<1>19. ASSUME NEW c \in Cpus, PollCommit(c) PROVE LockDiscipline'
  BY <1>19, ThreadAssumption
  DEF TypeOK, LockDiscipline, PollCommit, GoTo, xmitVars, sendVars
<1>20. ASSUME NEW c \in Cpus, PollNoWake(c) PROVE LockDiscipline'
  BY <1>20, ThreadAssumption
  DEF TypeOK, LockDiscipline, PollNoWake, GoTo, xmitVars, sendVars
<1>21. ASSUME NEW c \in Cpus, PollSeesStopped(c) PROVE LockDiscipline'
  BY <1>21, ThreadAssumption
  DEF TypeOK, LockDiscipline, PollSeesStopped, GoTo, xmitVars, sendVars
<1>22. ASSUME NEW c \in Cpus, PollWake(c) PROVE LockDiscipline'
  BY <1>22, ThreadAssumption
  DEF TypeOK, LockDiscipline, PollWake, GoTo, xmitVars, sendVars
<1>23. ASSUME NEW c \in Cpus, NEW more \in BOOLEAN, PollComplete(c, more)
       PROVE  LockDiscipline'
  BY <1>23, ThreadAssumption
  DEF TypeOK, LockDiscipline, PollComplete, GoTo, xmitVars, sendVars
<1>24. ASSUME NEW c \in Cpus, PollPendBusy(c) PROVE LockDiscipline'
  BY <1>24, ThreadAssumption
  DEF TypeOK, LockDiscipline, PollPendBusy, PollReturn, GoTo, xmitVars,
      sendVars
<1>25. ASSUME NEW c \in Cpus, PollPendTry(c) PROVE LockDiscipline'
  BY <1>25, ThreadAssumption
  DEF TypeOK, LockDiscipline, PollPendTry, GoTo, xmitVars, sendVars
<1>26. ASSUME NEW c \in Cpus, PollNoPending(c) PROVE LockDiscipline'
  BY <1>26, ThreadAssumption
  DEF TypeOK, LockDiscipline, PollNoPending, PollReturn, GoTo, xmitVars,
      sendVars
<1>27. ASSUME NEW c \in Cpus, DrainBegin(c) PROVE LockDiscipline'
  BY <1>27, ThreadAssumption
  DEF TypeOK, LockDiscipline, DrainBegin, GoTo, xmitVars, sendVars
<1>28. ASSUME NEW c \in Cpus, DrainBlock(c) PROVE LockDiscipline'
  BY <1>28, ThreadAssumption
  DEF TypeOK, LockDiscipline, DrainBlock, xmitVars, sendVars, pollVars
<1>29. ASSUME NEW c \in Cpus, DrainEnd(c) PROVE LockDiscipline'
  BY <1>29, ThreadAssumption
  DEF TypeOK, LockDiscipline, DrainEnd, PollReturn, GoTo, xmitVars, sendVars
<1>30. CASE CardComplete
  BY <1>30, ThreadAssumption
  DEF TypeOK, LockDiscipline, CardComplete, xmitVars, sendVars
<1>31. CASE LinkDown
  BY <1>31, ThreadAssumption
  DEF TypeOK, LockDiscipline, LinkDown, xmitVars, sendVars, pollVars
<1>32. CASE LinkUp
  BY <1>32, ThreadAssumption
  DEF TypeOK, LockDiscipline, LinkUp, xmitVars, sendVars, pollVars
<1>33. CASE TxTimeout
  BY <1>33, ThreadAssumption
  DEF TypeOK, LockDiscipline, TxTimeout, xmitVars, sendVars, pollVars
<1>34. CASE TxTimeoutTask
  BY <1>34, ThreadAssumption
  DEF TypeOK, LockDiscipline, TxTimeoutTask, xmitVars, sendVars
<1>35. CASE Close
  BY <1>35, ThreadAssumption
  DEF TypeOK, LockDiscipline, Close, xmitVars, sendVars
<1>36. CASE Open
  BY <1>36, ThreadAssumption
  DEF TypeOK, LockDiscipline, Open, xmitVars, sendVars
<1>37. CASE UNCHANGED vars
  BY <1>37, ThreadAssumption
  DEF TypeOK, LockDiscipline, vars, xmitVars, sendVars, pollVars
<1> QED
  BY <1>1, <1>2, <1>3, <1>4, <1>5, <1>6, <1>7, <1>8, <1>9, <1>10, <1>11,
     <1>12, <1>13, <1>14, <1>15, <1>16, <1>17, <1>18, <1>19, <1>20, <1>21,
     <1>22, <1>23, <1>24, <1>25, <1>26, <1>27, <1>28, <1>29, <1>30, <1>31,
     <1>32, <1>33, <1>34, <1>35, <1>36, <1>37
  DEF Next, XmitBegins, XmitGoesOn, SendBegins, SendGoesOn, PollGoesOn

\* Every step keeps the order of the indices around the ring.
LEMMA RingStep ==
  ASSUME IInv, [Next]_vars
  PROVE  RingInOrder'
<1>1. ASSUME NEW s \in Skbs, XmitPullFail(s) PROVE RingInOrder'
  BY <1>1
  DEF IInv, RingInOrder, CardInOrder, ReapInOrder, XmitInOrder, SendInOrder,
      DrainInOrder, InOrder, TypeOK, XmitPullFail, CanXmit, DropPacket,
      ringVars, xmitVars, sendVars, reapVars, drainVars, pollVars
<1>2. ASSUME NEW s \in Skbs, XmitNoCarrier(s) PROVE RingInOrder'
  BY <1>2
  DEF IInv, RingInOrder, CardInOrder, ReapInOrder, XmitInOrder, SendInOrder,
      DrainInOrder, InOrder, TypeOK, XmitNoCarrier, CanXmit, DropPacket,
      ringVars, xmitVars, sendVars, reapVars, drainVars, pollVars
<1>3. ASSUME NEW s \in Skbs, NEW n \in FragDescs,
             NEW h \in HeaderDescs, XmitStart(s, n, h)
      PROVE  RingInOrder'
  <2>1. n \in Nat \ {0} /\ h \in Nat
    BY <1>3, RingAssumption
  <2>2. HasRoom(n + 2) /\ h <= 2
    BY <1>3, RingAssumption DEF XmitStart
  <2>3. Dist(lastCmdConsumer, cmdProducer) + (n + h) < MaxTxDescCount
    BY SMTT(30), <2>1, <2>2, HasRoomDist, DistInSlots, RingAssumption DEF IInv, TypeOK
  <2>4. /\ xprod' = Advance(cmdProducer, n + h)
        /\ Dist(lastCmdConsumer, xprod')
             = Dist(lastCmdConsumer, cmdProducer) + (n + h)
    BY <1>3, <2>1, <2>3, DistAdvance DEF XmitStart, IInv, TypeOK
  <2>5. XmitInOrder'
    BY <1>3, <2>1, <2>4, DistInSlots
    DEF XmitStart, XmitInOrder, InOrder, IInv, TypeOK
  <2> QED
    BY <1>3, <2>5
    DEF XmitStart, IInv, RingInOrder, CardInOrder, ReapInOrder, SendInOrder,
        DrainInOrder, InOrder, sendVars, reapVars, drainVars, pollVars
<1>4. ASSUME NEW s \in Skbs, NEW n \in FragDescs, XmitNoRoom(s, n)
      PROVE  RingInOrder'
  BY <1>4
  DEF IInv, RingInOrder, CardInOrder, ReapInOrder, XmitInOrder, SendInOrder,
      DrainInOrder, InOrder, TypeOK, XmitNoRoom, CanXmit, ringVars, sendVars,
      reapVars, drainVars, pollVars
<1>5. CASE XmitMapFail
  BY <1>5
  DEF IInv, RingInOrder, CardInOrder, ReapInOrder, XmitInOrder, SendInOrder,
      DrainInOrder, InOrder, TypeOK, XmitMapFail, DropPacket, ringVars,
      sendVars, reapVars, drainVars, pollVars
<1>6. CASE XmitPublish
  <2>1. CardInOrder'
    BY <1>6, DistInSlots
    DEF XmitPublish, IInv, TypeOK, RingInOrder, CardInOrder, XmitInOrder,
        InOrder
  <2>2. XmitInOrder'
    BY <1>6 DEF XmitPublish, XmitInOrder
  <2>3. SendInOrder' /\ DrainInOrder'
    BY <1>6, ThreadAssumption
    DEF XmitPublish, IInv, LockDiscipline, SendInOrder, DrainInOrder,
        sendVars, pollVars
  <2>4. ReapInOrder'
    BY <1>6
    DEF XmitPublish, IInv, RingInOrder, ReapInOrder, InOrder, reapVars, pollVars
  <2> QED
    BY <2>1, <2>2, <2>3, <2>4 DEF RingInOrder
<1>7. CASE XmitRequeue
  BY <1>7
  DEF IInv, RingInOrder, CardInOrder, ReapInOrder, XmitInOrder, SendInOrder,
      DrainInOrder, InOrder, TypeOK, XmitRequeue, ringVars, sendVars,
      reapVars, drainVars, pollVars
<1>8. ASSUME NEW t \in Senders, NEW n \in MessageSizes, SendDirect(t, n)
      PROVE  RingInOrder'
  <2>1. n \in Nat \ {0} /\ HasRoom(n)
    BY <1>8, RingAssumption DEF SendDirect, MustQueue
  <2>2. Dist(lastCmdConsumer, cmdProducer) + n < MaxTxDescCount
    BY <2>1, HasRoomDist DEF IInv, TypeOK
  <2>3. /\ sprod'[t] = Advance(cmdProducer, n)
        /\ Dist(lastCmdConsumer, sprod'[t])
             = Dist(lastCmdConsumer, cmdProducer) + n
    BY <1>8, <2>1, <2>2, DistAdvance DEF SendDirect, IInv, TypeOK
  <2>4. \A u \in Senders : spc'[u] = "filled" => u = t
    BY <1>8, ThreadAssumption
    DEF SendDirect, CanSend, IInv, TypeOK, LockDiscipline
  <2>5. InOrder(cmdProducer, sprod'[t]) /\ sprod'[t] # cmdProducer
    BY <2>1, <2>3, DistInSlots DEF InOrder, IInv, TypeOK
  <2>6. SendInOrder'
    BY <1>8, <2>4, <2>5 DEF SendDirect, SendInOrder, InOrder
  <2> QED
    BY <1>8, <2>6
    DEF SendDirect, IInv, RingInOrder, CardInOrder, ReapInOrder, XmitInOrder,
        DrainInOrder, InOrder, xmitVars, reapVars, drainVars, pollVars
<1>9. ASSUME NEW t \in Senders, NEW n \in MessageSizes, SendReserve(t, n)
      PROVE  RingInOrder'
  BY <1>9
  DEF IInv, RingInOrder, CardInOrder, ReapInOrder, XmitInOrder, SendInOrder,
      DrainInOrder, InOrder, TypeOK, SendReserve, CanSend, ringVars, xmitVars,
      reapVars, drainVars, pollVars
<1>10. ASSUME NEW t \in Senders, SendPublish(t) PROVE RingInOrder'
  <2>1. spc[t] = "filled" /\ txLock = t /\ cmdProducer' = sprod[t]
    BY <1>10 DEF SendPublish, IInv, LockDiscipline
  <2>2. CardInOrder'
    BY <1>10, <2>1, DistInSlots
    DEF SendPublish, IInv, TypeOK, RingInOrder, CardInOrder, SendInOrder,
        InOrder
  <2>3. XmitInOrder' /\ SendInOrder' /\ DrainInOrder'
    BY <1>10, <2>1, ThreadAssumption
    DEF SendPublish, IInv, TypeOK, LockDiscipline, XmitInOrder, SendInOrder,
        DrainInOrder, xmitVars, pollVars
  <2>4. ReapInOrder'
    BY <1>10
    DEF SendPublish, IInv, RingInOrder, ReapInOrder, InOrder, reapVars, pollVars
  <2> QED
    BY <2>2, <2>3, <2>4 DEF RingInOrder
<1>11. ASSUME NEW t \in Senders, SendQueue(t) PROVE RingInOrder'
  BY <1>11
  DEF IInv, RingInOrder, CardInOrder, ReapInOrder, XmitInOrder, SendInOrder,
      DrainInOrder, InOrder, TypeOK, SendQueue, ringVars, xmitVars, reapVars,
      drainVars, pollVars
<1>12. ASSUME NEW c \in Cpus, PollStart(c) PROVE RingInOrder'
  BY <1>12
  DEF IInv, RingInOrder, CardInOrder, ReapInOrder, XmitInOrder, SendInOrder,
      DrainInOrder, InOrder, TypeOK, PollStart, GoTo, Interrupt, ringVars,
      xmitVars, sendVars, reapVars, drainVars
<1>13. ASSUME NEW c \in Cpus, PollAgain(c) PROVE RingInOrder'
  BY <1>13
  DEF IInv, RingInOrder, CardInOrder, ReapInOrder, XmitInOrder, SendInOrder,
      DrainInOrder, InOrder, TypeOK, PollAgain, Interrupt, Finishing,
      ringVars, xmitVars, sendVars, reapVars, drainVars
<1>14. ASSUME NEW c \in Cpus, PollMissed(c) PROVE RingInOrder'
  BY <1>14
  DEF IInv, RingInOrder, CardInOrder, ReapInOrder, XmitInOrder, SendInOrder,
      DrainInOrder, InOrder, TypeOK, PollMissed, Interrupt, Finishing,
      ringVars, xmitVars, sendVars, reapVars, drainVars
<1>15. ASSUME NEW c \in Cpus, PollTxBusy(c) PROVE RingInOrder'
  BY <1>15
  DEF IInv, RingInOrder, CardInOrder, ReapInOrder, XmitInOrder, SendInOrder,
      DrainInOrder, InOrder, TypeOK, PollTxBusy, GoTo, ringVars, xmitVars,
      sendVars, reapVars, drainVars
<1>16. ASSUME NEW c \in Cpus, PollTxBegin(c) PROVE RingInOrder'
  <2>1. /\ Dist(lastCmdConsumer, lastCmdConsumer) = 0
        /\ Dist(lastCmdConsumer, cmdConsumer) \in Nat
    BY DistZero, DistInSlots DEF IInv, TypeOK
  <2>2. ReapInOrder'
    BY <1>16, <2>1
    DEF PollTxBegin, IInv, TypeOK, ReapInOrder, InOrder, ringVars
  <2> QED
    BY <1>16, <2>2
    DEF PollTxBegin, GoTo, IInv, TypeOK, RingInOrder, CardInOrder, XmitInOrder,
        SendInOrder, DrainInOrder, InOrder, ringVars, xmitVars, sendVars,
        drainVars
<1>17. ASSUME NEW c \in Cpus, PollReap(c) PROVE RingInOrder'
  <2>1. /\ ppc[c] = "reap" /\ rlast # rcons /\ rlast' = Advance(rlast, 1)
        /\ InOrder(rlast, rcons)
    BY <1>17 DEF PollReap, ReapMore, IInv, RingInOrder, ReapInOrder
  <2>2. Dist(lastCmdConsumer, rlast) # Dist(lastCmdConsumer, rcons)
    BY <2>1, DistInjective DEF IInv, TypeOK
  <2>3. /\ Dist(lastCmdConsumer, rlast) \in Nat
        /\ Dist(lastCmdConsumer, rcons) \in Nat
        /\ Dist(lastCmdConsumer, rcons) < MaxTxDescCount
    BY DistInSlots DEF IInv, TypeOK
  <2>4. Dist(lastCmdConsumer, rlast) + 1 <= Dist(lastCmdConsumer, rcons)
    BY <2>1, <2>2, <2>3 DEF InOrder
  <2>5. Dist(lastCmdConsumer, rlast') = Dist(lastCmdConsumer, rlast) + 1
    BY <2>1, <2>3, <2>4, DistAdvance, RingAssumption DEF IInv, TypeOK
  <2>6. ReapInOrder'
    BY <1>17, <2>1, <2>4, <2>5
    DEF PollReap, IInv, RingInOrder, ReapInOrder, InOrder, pollVars
  <2> QED
    BY <1>17, <2>6
    DEF PollReap, IInv, RingInOrder, CardInOrder, XmitInOrder, SendInOrder,
        DrainInOrder, InOrder, xmitVars, sendVars, drainVars, pollVars
<1>18. ASSUME NEW c \in Cpus, PollTxNothing(c) PROVE RingInOrder'
  <2>1. \A d \in Cpus : ppc'[d] # "reap"
    BY <1>18 DEF PollTxNothing, GoTo, IInv, TypeOK, LockDiscipline
  <2> QED
    BY <1>18, <2>1
    DEF PollTxNothing, GoTo, IInv, TypeOK, RingInOrder, CardInOrder,
        ReapInOrder, XmitInOrder, SendInOrder, DrainInOrder, InOrder,
        ringVars, xmitVars, sendVars, drainVars
<1>19. ASSUME NEW c \in Cpus, PollCommit(c) PROVE RingInOrder'
  <2>1. lastCmdConsumer' = rlast /\ ppc[c] = "reap" /\ txExcl = c
    BY <1>19 DEF PollCommit, IInv, LockDiscipline
  <2>2. InOrder(rlast, cmdConsumer) /\ InOrder(rlast, cmdProducer)
    BY <2>1, DistInSlots
    DEF IInv, TypeOK, RingInOrder, CardInOrder, ReapInOrder, InOrder
  <2>3. ASSUME NEW i \in Slots, InOrder(rlast, i)
        PROVE  /\ Dist(lastCmdConsumer', i)
                    = Dist(lastCmdConsumer, i) - Dist(lastCmdConsumer, rlast)
               /\ Dist(lastCmdConsumer, i) \in Nat
               /\ Dist(lastCmdConsumer, rlast) \in Nat
    BY <2>1, <2>3, DistShift, DistInSlots DEF InOrder, IInv, TypeOK
  <2>4. ASSUME NEW i \in Slots, InOrder(cmdProducer, i)
        PROVE  /\ InOrder(rlast, i)
               /\ Dist(lastCmdConsumer', cmdProducer)
                    <= Dist(lastCmdConsumer', i)
    BY <2>2, <2>3, <2>4, DistInSlots DEF InOrder, IInv, TypeOK
  <2>5. CardInOrder'
    BY <1>19, <2>2, <2>3
    DEF PollCommit, CardInOrder, InOrder, IInv, TypeOK, RingInOrder
  <2>6. ReapInOrder'
    BY <1>19, <2>1
    DEF PollCommit, GoTo, ReapInOrder, IInv, TypeOK, LockDiscipline
  <2>7. XmitInOrder'
    BY <1>19, <2>4
    DEF PollCommit, XmitInOrder, InOrder, IInv, TypeOK, RingInOrder, xmitVars
  <2>8. SendInOrder'
    BY <1>19, <2>4
    DEF PollCommit, SendInOrder, InOrder, IInv, TypeOK, RingInOrder, sendVars
  <2>9. DrainInOrder'
    <3> SUFFICES ASSUME NEW d \in Cpus, ppc'[d] = "drain"
                 PROVE  /\ InOrder(cmdProducer, dprod)'
                        /\ (Dist(lastCmdConsumer, dprod) + dlen
                              < MaxTxDescCount)'
      BY DEF DrainInOrder
    <3>1. ppc[d] = "drain"
      BY <1>19 DEF PollCommit, GoTo, IInv, TypeOK
    <3>2. /\ InOrder(cmdProducer, dprod)
          /\ Dist(lastCmdConsumer, dprod) + dlen < MaxTxDescCount
          /\ dprod \in Slots /\ dlen \in Nat
      BY <3>1, RingAssumption DEF IInv, TypeOK, RingInOrder, DrainInOrder, Slots
    <3>3. UNCHANGED <<cmdProducer, dprod, dlen>>
      BY <1>19 DEF PollCommit, drainVars
    <3>4. Dist(lastCmdConsumer', dprod) <= Dist(lastCmdConsumer, dprod)
      BY <2>3, <2>4, <3>2
    <3>5. Dist(lastCmdConsumer', dprod) \in Nat
      BY <2>1, <3>2, DistInSlots DEF IInv, TypeOK
    <3>6. Dist(lastCmdConsumer, dprod) \in Nat
      BY <3>2, DistInSlots DEF IInv, TypeOK
    <3> QED
      BY <2>4, <3>2, <3>3, <3>4, <3>5, <3>6, RingAssumption DEF InOrder
  <2> QED
    BY <2>5, <2>6, <2>7, <2>8, <2>9 DEF RingInOrder
<1>20. ASSUME NEW c \in Cpus, PollNoWake(c) PROVE RingInOrder'
  BY <1>20
  DEF IInv, RingInOrder, CardInOrder, ReapInOrder, XmitInOrder, SendInOrder,
      DrainInOrder, InOrder, TypeOK, PollNoWake, GoTo, ringVars, xmitVars,
      sendVars, reapVars, drainVars
<1>21. ASSUME NEW c \in Cpus, PollSeesStopped(c) PROVE RingInOrder'
  BY <1>21
  DEF IInv, RingInOrder, CardInOrder, ReapInOrder, XmitInOrder, SendInOrder,
      DrainInOrder, InOrder, TypeOK, PollSeesStopped, GoTo, ringVars,
      xmitVars, sendVars, reapVars, drainVars
<1>22. ASSUME NEW c \in Cpus, PollWake(c) PROVE RingInOrder'
  BY <1>22
  DEF IInv, RingInOrder, CardInOrder, ReapInOrder, XmitInOrder, SendInOrder,
      DrainInOrder, InOrder, TypeOK, PollWake, GoTo, ringVars, xmitVars,
      sendVars, reapVars, drainVars
<1>23. ASSUME NEW c \in Cpus, NEW more \in BOOLEAN, PollComplete(c, more)
       PROVE  RingInOrder'
  BY <1>23
  DEF IInv, RingInOrder, CardInOrder, ReapInOrder, XmitInOrder, SendInOrder,
      DrainInOrder, InOrder, TypeOK, PollComplete, GoTo, ringVars, xmitVars,
      sendVars, reapVars, drainVars
<1>24. ASSUME NEW c \in Cpus, PollPendBusy(c) PROVE RingInOrder'
  BY <1>24
  DEF IInv, RingInOrder, CardInOrder, ReapInOrder, XmitInOrder, SendInOrder,
      DrainInOrder, InOrder, TypeOK, PollPendBusy, PollReturn, GoTo, ringVars,
      xmitVars, sendVars, reapVars, drainVars
<1>25. ASSUME NEW c \in Cpus, PollPendTry(c) PROVE RingInOrder'
  BY <1>25
  DEF IInv, RingInOrder, CardInOrder, ReapInOrder, XmitInOrder, SendInOrder,
      DrainInOrder, InOrder, TypeOK, PollPendTry, GoTo, ringVars, xmitVars,
      sendVars, reapVars, drainVars
<1>26. ASSUME NEW c \in Cpus, PollNoPending(c) PROVE RingInOrder'
  BY <1>26
  DEF IInv, RingInOrder, CardInOrder, ReapInOrder, XmitInOrder, SendInOrder,
      DrainInOrder, InOrder, TypeOK, PollNoPending, PollReturn, GoTo,
      ringVars, xmitVars, sendVars, reapVars, drainVars
<1>27. ASSUME NEW c \in Cpus, DrainBegin(c) PROVE RingInOrder'
  <2>1. Dist(lastCmdConsumer, dprod') + dlen' < MaxTxDescCount
    BY <1>27, DistInSlots, RingAssumption
    DEF DrainBegin, FreeDescs, IInv, TypeOK
  <2>2. DrainInOrder'
    BY <1>27, <2>1, DistInSlots
    DEF DrainBegin, DrainInOrder, InOrder, IInv, TypeOK, ringVars
  <2> QED
    BY <1>27, <2>2
    DEF DrainBegin, GoTo, IInv, TypeOK, RingInOrder, CardInOrder, ReapInOrder,
        XmitInOrder, SendInOrder, InOrder, ringVars, xmitVars, sendVars,
        reapVars
<1>28. ASSUME NEW c \in Cpus, DrainBlock(c) PROVE RingInOrder'
  <2>1. PICK block \in Seq(Commands) : DrainedBlock(block)
    BY <1>28, DrainStep
  <2>2. UNCHANGED <<cmdProducer, lastCmdConsumer, cmdConsumer, xmitVars,
                    sendVars, reapVars, pollVars>>
    BY <1>28 DEF DrainBlock
  <2>3. /\ ppc[c] = "drain" /\ dlen \in Nat /\ Len(block) \in Nat
        /\ InOrder(cmdProducer, dprod)
        /\ Dist(lastCmdConsumer, dprod) + dlen < MaxTxDescCount
    BY <1>28, RingAssumption
    DEF DrainBlock, IInv, TypeOK, RingInOrder, DrainInOrder, Slots
  <2>4. Dist(lastCmdConsumer, dprod) \in Nat
        /\ Dist(lastCmdConsumer, cmdProducer) \in Nat
    BY DistInSlots DEF IInv, TypeOK
  <2>5. /\ Len(block) <= dlen /\ dlen' = dlen - Len(block)
        /\ dprod' = Advance(dprod, Len(block))
    BY <2>1 DEF DrainedBlock, MoveBlock
  <2>6. Dist(lastCmdConsumer, dprod) + Len(block) < MaxTxDescCount
    BY <2>3, <2>4, <2>5, RingAssumption
  <2>7. Dist(lastCmdConsumer, dprod')
          = Dist(lastCmdConsumer, dprod) + Len(block)
    BY <2>3, <2>5, <2>6, DistAdvance DEF IInv, TypeOK
  <2>8. DrainInOrder'
    BY <2>2, <2>3, <2>4, <2>5, <2>7, RingAssumption DEF DrainInOrder, InOrder
  <2> QED
    BY <2>2, <2>8
    DEF IInv, RingInOrder, CardInOrder, ReapInOrder, XmitInOrder, SendInOrder,
        InOrder, xmitVars, sendVars, reapVars, pollVars
<1>29. ASSUME NEW c \in Cpus, DrainEnd(c) PROVE RingInOrder'
  <2>1. ppc[c] = "drain" /\ txLock = c /\ txExcl = c /\ cmdProducer' = dprod
    BY <1>29 DEF DrainEnd, IInv, LockDiscipline
  <2>2. CardInOrder'
    BY <1>29, <2>1, DistInSlots
    DEF DrainEnd, IInv, TypeOK, RingInOrder, CardInOrder, DrainInOrder, InOrder
  <2>3. XmitInOrder' /\ SendInOrder'
    BY <1>29, <2>1, ThreadAssumption
    DEF DrainEnd, IInv, LockDiscipline, XmitInOrder, SendInOrder, xmitVars,
        sendVars
  <2>4. \A d \in Cpus : ppc'[d] # "drain" /\ ppc'[d] # "reap"
    BY <1>29, <2>1
    DEF DrainEnd, PollReturn, GoTo, IInv, TypeOK, LockDiscipline
  <2> QED
    BY <2>2, <2>3, <2>4 DEF RingInOrder, ReapInOrder, DrainInOrder
<1>30. CASE CardComplete
  <2>1. PICK n \in 1 .. Dist(cmdConsumer, cmdProducer) :
               cmdConsumer' = Advance(cmdConsumer, n)
    BY <1>30 DEF CardComplete
  <2>2. UNCHANGED <<cmdProducer, lastCmdConsumer, xmitVars, sendVars, reapVars,
                    drainVars, ppc>>
    BY <1>30 DEF CardComplete
  <2>3. /\ Dist(lastCmdConsumer, cmdConsumer) \in Nat
        /\ Dist(lastCmdConsumer, cmdProducer) \in Nat
        /\ Dist(lastCmdConsumer, cmdProducer) < MaxTxDescCount
    BY DistInSlots DEF IInv, TypeOK
  <2>4. Dist(cmdConsumer, cmdProducer)
          = Dist(lastCmdConsumer, cmdProducer)
              - Dist(lastCmdConsumer, cmdConsumer)
    BY DistShift DEF IInv, TypeOK, RingInOrder, CardInOrder, InOrder
  <2>5. /\ n \in Nat
        /\ Dist(lastCmdConsumer, cmdConsumer) + n
             <= Dist(lastCmdConsumer, cmdProducer)
    BY <2>3, <2>4
  <2>6. Dist(lastCmdConsumer, cmdConsumer')
          = Dist(lastCmdConsumer, cmdConsumer) + n
    BY <2>1, <2>3, <2>5, DistAdvance, RingAssumption DEF IInv, TypeOK
  <2>7. CardInOrder'
    BY <2>2, <2>5, <2>6 DEF CardInOrder, InOrder
  <2>8. ReapInOrder'
    BY <2>2, <2>3, <2>5, <2>6, DistInSlots
    DEF IInv, TypeOK, RingInOrder, ReapInOrder, InOrder, reapVars
  <2> QED
    BY <2>2, <2>7, <2>8
    DEF IInv, RingInOrder, XmitInOrder, SendInOrder, DrainInOrder, InOrder,
        xmitVars, sendVars, drainVars
<1>31. CASE LinkDown
  BY <1>31
  DEF IInv, RingInOrder, CardInOrder, ReapInOrder, XmitInOrder, SendInOrder,
      DrainInOrder, InOrder, TypeOK, LinkDown, ringVars, xmitVars, sendVars,
      reapVars, drainVars, pollVars
<1>32. CASE LinkUp
  BY <1>32
  DEF IInv, RingInOrder, CardInOrder, ReapInOrder, XmitInOrder, SendInOrder,
      DrainInOrder, InOrder, TypeOK, LinkUp, ringVars, xmitVars, sendVars,
      reapVars, drainVars, pollVars
<1>33. CASE TxTimeout
  BY <1>33
  DEF IInv, RingInOrder, CardInOrder, ReapInOrder, XmitInOrder, SendInOrder,
      DrainInOrder, InOrder, TypeOK, TxTimeout, ringVars, xmitVars, sendVars,
      reapVars, drainVars, pollVars
<1>34. CASE TxTimeoutTask
  BY <1>34
  DEF IInv, RingInOrder, CardInOrder, ReapInOrder, XmitInOrder, SendInOrder,
      DrainInOrder, InOrder, TypeOK, TxTimeoutTask, ringVars, xmitVars,
      sendVars, reapVars, drainVars
<1>35. CASE Close
  BY <1>35
  DEF IInv, RingInOrder, CardInOrder, ReapInOrder, XmitInOrder, SendInOrder,
      DrainInOrder, InOrder, TypeOK, Close, xmitVars, sendVars, reapVars,
      drainVars
<1>36. CASE Open
  BY <1>36
  DEF IInv, RingInOrder, CardInOrder, ReapInOrder, XmitInOrder, SendInOrder,
      DrainInOrder, InOrder, TypeOK, Open, ringVars, xmitVars, sendVars,
      reapVars, drainVars
<1>37. CASE UNCHANGED vars
  BY <1>37
  DEF IInv, RingInOrder, CardInOrder, ReapInOrder, XmitInOrder, SendInOrder,
      DrainInOrder, InOrder, TypeOK, vars, ringVars, xmitVars, sendVars,
      reapVars, drainVars, pollVars
<1> QED
  BY <1>1, <1>2, <1>3, <1>4, <1>5, <1>6, <1>7, <1>8, <1>9, <1>10, <1>11,
     <1>12, <1>13, <1>14, <1>15, <1>16, <1>17, <1>18, <1>19, <1>20, <1>21,
     <1>22, <1>23, <1>24, <1>25, <1>26, <1>27, <1>28, <1>29, <1>30, <1>31,
     <1>32, <1>33, <1>34, <1>35, <1>36, <1>37
  DEF Next, XmitBegins, XmitGoesOn, SendBegins, SendGoesOn, PollGoesOn

\* Only queueing a message and draining a block touch what waits.
LEMMA PendFrame ==
  ASSUME [Next]_vars
  PROVE  \/ UNCHANGED <<pendCnt, cmdList, currBlock, bugHit>>
         \/ \E t \in Senders : SendQueue(t)
         \/ \E c \in Cpus : DrainBlock(c)
<1> DEFINE Same == UNCHANGED <<pendCnt, cmdList, currBlock, bugHit>>
<1>1. CASE XmitBegins \/ XmitGoesOn
  BY <1>1
  DEF XmitBegins, XmitGoesOn, XmitPullFail, XmitNoCarrier, XmitStart,
      XmitNoRoom, XmitMapFail, XmitPublish, XmitRequeue, pendVars
<1>2. ASSUME NEW t \in Senders, SendBegins(t) \/ SendPublish(t)
      PROVE  Same
  BY <1>2 DEF SendBegins, SendDirect, SendReserve, SendPublish, pendVars
<1>3. ASSUME NEW c \in Cpus, PollStart(c) \/ PollAgain(c) \/ PollMissed(c)
      PROVE  Same
  BY <1>3 DEF PollStart, PollAgain, PollMissed, pendVars
<1>4. ASSUME NEW c \in Cpus, PollGoesOn(c), ~DrainBlock(c)
      PROVE  Same
  BY <1>4
  DEF PollGoesOn, PollTxBusy, PollTxBegin, PollReap, PollTxNothing,
      PollCommit, PollNoWake, PollSeesStopped, PollWake, PollComplete,
      PollPendBusy, PollPendTry, PollNoPending, DrainBegin, DrainEnd, pendVars
<1>5. CASE \/ CardComplete \/ LinkDown \/ LinkUp \/ TxTimeout
           \/ TxTimeoutTask \/ Close \/ Open \/ UNCHANGED vars
  BY <1>5
  DEF CardComplete, LinkDown, LinkUp, TxTimeout, TxTimeoutTask, Close, Open,
      pendVars, vars
<1> QED
  BY <1>1, <1>2, <1>3, <1>4, <1>5 DEF Next, SendGoesOn

\* Every step keeps the counter of the waiting commands.
LEMMA PendStep ==
  ASSUME IInv, [Next]_vars
  PROVE  PendingCounted'
<1>1. CASE UNCHANGED <<pendCnt, cmdList, currBlock, bugHit>>
  BY <1>1 DEF IInv, PendingCounted
<1>2. ASSUME NEW t \in Senders, SendQueue(t)
      PROVE  PendingCounted'
  BY <1>2, QueueStep
<1>3. ASSUME NEW c \in Cpus, DrainBlock(c)
      PROVE  PendingCounted'
  BY <1>3, DrainStep DEF DrainedBlock
<1> QED
  BY <1>1, <1>2, <1>3, PendFrame

\* No step reaches the branch of nx_queue_pend_cmd_desc that loses a command.
LEMMA BlockStep ==
  ASSUME IInv, PendingBlockReserved, [Next]_vars
  PROVE  PendingBlockReserved'
<1>1. CASE UNCHANGED <<pendCnt, cmdList, currBlock, bugHit>>
  BY <1>1 DEF PendingBlockReserved
<1>2. ASSUME NEW t \in Senders, SendQueue(t)
      PROVE  PendingBlockReserved'
  BY <1>2, QueueStep DEF PendingBlockReserved
<1>3. ASSUME NEW c \in Cpus, DrainBlock(c)
      PROVE  PendingBlockReserved'
  BY <1>3 DEF DrainBlock, PendingBlockReserved
<1> QED
  BY <1>1, <1>2, <1>3, PendFrame

\* What a sender found when it took the lock still holds when it queues its
\* message.
LEMMA ReservedStep ==
  ASSUME IInv, [Next]_vars
  PROVE  Reserved'
<1> DEFINE Same == UNCHANGED <<freeBlocks, currBlock, spc, slen, accepted>>
<1>1. CASE XmitBegins \/ XmitGoesOn
  <2>1. Same
    BY <1>1
    DEF XmitBegins, XmitGoesOn, XmitPullFail, XmitNoCarrier, XmitStart,
        XmitNoRoom, XmitMapFail, XmitPublish, XmitRequeue, pendVars, sendVars,
        cmdVars
  <2> QED
    BY <2>1 DEF IInv, Reserved, BlockAvailable
<1>2. ASSUME NEW t \in Senders, NEW n \in MessageSizes, SendDirect(t, n)
      PROVE  Reserved'
  BY <1>2, ThreadAssumption
  DEF SendDirect, CanSend, IInv, TypeOK, LockDiscipline, Reserved, pendVars
<1>3. ASSUME NEW t \in Senders, NEW n \in MessageSizes, SendReserve(t, n)
      PROVE  Reserved'
  BY <1>3, ThreadAssumption
  DEF SendReserve, CanSend, IInv, TypeOK, LockDiscipline, Reserved,
      BlockAvailable, cmdVars
<1>4. ASSUME NEW t \in Senders, SendPublish(t)
      PROVE  Reserved'
  BY <1>4
  DEF SendPublish, IInv, TypeOK, LockDiscipline, Reserved, BlockAvailable,
      pendVars, cmdVars
<1>5. ASSUME NEW t \in Senders, SendQueue(t)
      PROVE  Reserved'
  BY <1>5 DEF SendQueue, IInv, TypeOK, LockDiscipline, Reserved
<1>6. ASSUME NEW c \in Cpus, PollStart(c) \/ PollAgain(c) \/ PollMissed(c)
      PROVE  Reserved'
  BY <1>6
  DEF PollStart, PollAgain, PollMissed, IInv, Reserved, BlockAvailable,
      pendVars, sendVars, cmdVars
<1>7. ASSUME NEW c \in Cpus, PollGoesOn(c), ~DrainBlock(c)
      PROVE  Reserved'
  <2>1. Same
    BY <1>7
    DEF PollGoesOn, PollTxBusy, PollTxBegin, PollReap, PollTxNothing,
        PollCommit, PollNoWake, PollSeesStopped, PollWake, PollComplete,
        PollPendBusy, PollPendTry, PollNoPending, DrainBegin, DrainEnd,
        pendVars, sendVars, cmdVars
  <2> QED
    BY <2>1 DEF IInv, Reserved, BlockAvailable
<1>8. ASSUME NEW c \in Cpus, DrainBlock(c)
      PROVE  Reserved'
  <2>1. ppc[c] = "drain" /\ spc' = spc
    BY <1>8 DEF DrainBlock, sendVars
  <2>2. txLock = c /\ \A t \in Senders : t # c
    BY <2>1, ThreadAssumption DEF IInv, LockDiscipline
  <2>3. \A t \in Senders : spc[t] = "idle"
    BY <2>2 DEF IInv, LockDiscipline
  <2> QED
    BY <2>1, <2>3 DEF Reserved
<1>9. CASE CardComplete
  <2>1. Same
    BY <1>9 DEF CardComplete, pendVars, sendVars
  <2> QED
    BY <2>1 DEF IInv, Reserved, BlockAvailable
<1>10. CASE LinkDown \/ LinkUp \/ TxTimeout \/ TxTimeoutTask
  <2>1. Same
    BY <1>10
    DEF LinkDown, LinkUp, TxTimeout, TxTimeoutTask, pendVars, sendVars,
        cmdVars
  <2> QED
    BY <2>1 DEF IInv, Reserved, BlockAvailable
<1>11. CASE Close \/ Open \/ UNCHANGED vars
  <2>1. Same
    BY <1>11 DEF Close, Open, pendVars, sendVars, cmdVars, vars
  <2> QED
    BY <2>1 DEF IInv, Reserved, BlockAvailable
<1> QED
  BY <1>1, <1>2, <1>3, <1>4, <1>5, <1>6, <1>7, <1>8, <1>9, <1>10, <1>11
  DEF Next, SendBegins, SendGoesOn

-----------------------------------------------------------------------------
(* The invariant and the theorems.                                          *)

\* The driver starts in the invariant.
LEMMA InitInv == Init => IInv
<1> SUFFICES ASSUME Init PROVE IInv
  OBVIOUS
<1>1. TypeOK
  <2>1. desc \in [Slots -> Descs] /\ buf \in [Slots -> Skbs \cup {None}]
    BY DEF Init, Descs
  <2>2. frees \in [Skbs -> Nat] /\ taken \subseteq Skbs
    BY DEF Init
  <2>3. accepted \in 0 .. MaxCommands /\ executed \in 0 .. MaxCommands
        /\ downs \in 0 .. MaxDowns /\ timeoutCount \in 0 .. ResetThreshold + 1
    BY RingAssumption DEF Init
  <2>4. /\ cmdProducer \in Slots /\ lastCmdConsumer \in Slots
        /\ cmdConsumer \in Slots /\ xprod \in Slots /\ rlast \in Slots
        /\ rcons \in Slots /\ dprod \in Slots /\ dlen \in Slots
    BY ZeroInRange DEF Init
  <2>5. /\ txLock \in {None, Xmit} \cup Senders \cup Cpus
        /\ txExcl \in {None} \cup Cpus
        /\ xpc \in {"idle", "filled", "full"} /\ xskb \in Skbs \cup {None}
        /\ intr \subseteq Cpus
    BY ThreadAssumption DEF Init
  <2>6. /\ spc \in [Senders -> {"idle", "filled", "reserved"}]
        /\ sprod \in [Senders -> Slots]
        /\ slen \in [Senders -> MessageSizes \cup {0}]
    BY ZeroInRange DEF Init
  <2>7. /\ ppc \in [Cpus -> {"idle", "tx", "reap", "wake", "wakelock",
                             "complete", "pend", "pendlock", "drain"}]
        /\ again \in [Cpus -> BOOLEAN] /\ rcount \in 0 .. MaxStatusHandle
    BY ZeroInRange DEF Init
  <2>8. /\ pendCnt \in Nat /\ freeBlocks \in Nat
        /\ cmdList \in Seq(Seq(Commands)) /\ currBlock \in Seq(Commands)
    BY RingAssumption DEF Init
  <2>9. /\ stopped \in BOOLEAN /\ carrier \in BOOLEAN /\ running \in BOOLEAN
        /\ timeoutWork \in BOOLEAN /\ irq \in BOOLEAN /\ bugHit \in BOOLEAN
        /\ raced \in BOOLEAN /\ unmapped \subseteq Skbs /\ refreed \subseteq Skbs
    BY DEF Init
  <2>10. xpc = "filled" => xskb \in Skbs
    BY DEF Init
  <2> QED
    BY <2>1, <2>2, <2>3, <2>4, <2>5, <2>6, <2>7, <2>8, <2>9, <2>10 DEF TypeOK
<1>2. LockDiscipline
  BY ThreadAssumption DEF Init, LockDiscipline
<1>3. RingInOrder
  BY DEF Init, RingInOrder, CardInOrder, ReapInOrder, XmitInOrder, SendInOrder,
         DrainInOrder, InOrder, Dist
<1>4. PendingCounted
  BY RingAssumption DEF Init, PendingCounted
<1>5. Reserved
  BY DEF Init, Reserved
<1> QED
  BY <1>1, <1>2, <1>3, <1>4, <1>5 DEF IInv

\* A race is not forgotten.
LEMMA RacedStays == raced /\ [Next]_vars => raced'
BY DEF Next, XmitBegins, XmitGoesOn, SendBegins, SendGoesOn, PollGoesOn,
   XmitPullFail, XmitNoCarrier, XmitStart, XmitNoRoom, XmitMapFail,
   XmitPublish, XmitRequeue, SendDirect, SendReserve, SendPublish, SendQueue,
   PollStart, PollAgain, PollMissed, PollTxBusy, PollTxBegin, PollReap,
   PollTxNothing, PollCommit, PollNoWake, PollSeesStopped, PollWake,
   PollComplete, PollPendBusy, PollPendTry, PollNoPending, DrainBegin,
   DrainBlock, DrainEnd, CardComplete, LinkDown, LinkUp, TxTimeout,
   TxTimeoutTask, Close, Open, vars, histVars

\* Every step that is no race keeps the invariant.
LEMMA Inductive == IInv /\ ~raced' /\ [Next]_vars => IInv'
BY TypeStep, LockStep, RingStep, PendStep, ReservedStep DEF IInv

\* The inductive invariant holds in every reachable state: the types alone are
\* not inductive, because a message that is being queued stays within the
\* bound only while its sender holds tx_lock, and a block that is drained is
\* as long as the counter says only while the counter is right.
THEOREM Invariance == Spec => [](raced \/ IInv)
<1>1. (raced \/ IInv) /\ [Next]_vars => (raced \/ IInv)'
  BY Inductive, RacedStays
<1> QED
  BY InitInv, <1>1, PTL DEF Spec

\* Until two threads have been in the ring without a lock between them, every
\* variable keeps its type: in particular every index the driver uses lies
\* inside the ring.
THEOREM TypeCorrect == Spec => [](raced \/ TypeOK)
<1>1. IInv => TypeOK
  BY DEF IInv
<1> QED
  BY Invariance, <1>1, PTL

\* Until then tx_lock and tx_cpu_excl are mutual exclusion locks: whoever is
\* between their acquisition and their release is alone (unm_nic_xmit_frame,
\* nx_nic_send_cmd_descs, nx_nic_poll_sts).
THEOREM Locked == Spec => [](raced \/ LockDiscipline)
<1>1. IInv => LockDiscipline
  BY DEF IInv
<1> QED
  BY Invariance, <1>1, PTL

\* The indices keep their order around the ring, although the reaper reads and
\* writes lastCmdConsumer without tx_lock: no descriptor is written before it
\* is reaped, and none is reaped before the card is done with it.
THEOREM NeverOverrun == Spec => []NoOverrun
<1>1. raced \/ IInv => NoOverrun
  BY DEF IInv, NoOverrun
<1> QED
  BY Invariance, <1>1, PTL

\* The counter of waiting commands is right, so a command never overtakes one
\* that waits and the drain never stops early.
THEOREM Counted == Spec => [](raced \/ PendingCounted)
<1>1. IInv => PendingCounted
  BY DEF IInv
<1> QED
  BY Invariance, <1>1, PTL

\* The branch marked "This should never happen" in nx_queue_pend_cmd_desc is
\* not reached as long as nobody has released a tx_lock that another thread
\* held: a message that got a block is queued in full.
THEOREM NeverLost == Spec => []BlockReserved
<1>1. Init => BlockReserved
  BY DEF Init, BlockReserved, PendingBlockReserved
<1>2. (raced \/ IInv) /\ BlockReserved /\ [Next]_vars => BlockReserved'
  BY BlockStep, RacedStays DEF BlockReserved
<1> QED
  BY Invariance, <1>1, <1>2, PTL DEF Spec

-----------------------------------------------------------------------------
(* What the descriptors and buffers hold.                                  *)

\* How far an index is behind the last descriptor reaped.
At(i) == Dist(lastCmdConsumer, i)

\* Up to where buffers are filled, published or not.
BufTop == IF xpc = "filled" THEN xprod ELSE cmdProducer

\* From where on buffers are not reaped yet.
Reaped ==
  IF txExcl \in Cpus /\ ppc[txExcl] = "reap" THEN rlast ELSE lastCmdConsumer

\* The descriptors that the card has to execute, or will have.
Ahead(i) == At(cmdConsumer) <= At(i) /\ At(i) < At(Top)

\* A buffer holds a packet that is still to be reaped, or, at the producer, one
\* that was freed because its mapping failed.
Held(i) == /\ frees[buf[i]] = 0 /\ At(Reaped) <= At(i) /\ At(i) < At(BufTop)
           /\ xpc = "filled" => i = cmdProducer \/ At(i) < At(cmdProducer)
Left(i) == /\ frees[buf[i]] = 1 /\ buf[i] \in unmapped /\ buf[i] \notin refreed
           /\ xpc # "filled" /\ i = Top /\ i = BufTop

\* A packet is freed, or lies in one buffer, which is not reaped yet; freed twice if
\* its mapping failed and a close met it in its buffer.
PacketsPlaced ==
  /\ \A i \in Slots : buf[i] # None => buf[i] \in taken /\ (Held(i) \/ Left(i))
  /\ \A i, j \in Slots : buf[i] = buf[j] /\ buf[i] # None => i = j
  /\ \A s \in taken : \/ frees[s] = IF s \in refreed THEN 2 ELSE 1
                      \/ frees[s] = 0 /\ s \notin refreed /\ \E i \in Slots : buf[i] = s
  /\ \A s \in Skbs \ taken : frees[s] = 0 /\ s \notin unmapped /\ s \notin refreed
  /\ xpc = "filled" => buf[cmdProducer] = xskb /\ frees[xskb] = 0
  /\ \A s \in unmapped : frees[s] # 0

\* A packet that the card will read lies in the buffer of its descriptor, if in any.
FlightTrue ==
  /\ \A i \in Slots : buf[i] # None => buf[i] \in taken
  /\ \A i \in Slots : Ahead(i) /\ desc[i] \in Skbs =>
       desc[i] \in taken /\ \A j \in Slots : buf[j] = desc[i] => j = i
  /\ xpc = "filled" =>
       \A i \in Slots : Ahead(i) /\ At(i) < At(cmdProducer) => desc[i] # xskb

\* The commands in the ring, and their order.
InRing == accepted - pendCnt
CommandsPlaced ==
  /\ executed <= InRing
  /\ \A i \in Slots : Ahead(i) /\ desc[i] \in Commands =>
       executed < desc[i] /\ desc[i] <= InRing
  /\ \A i, j \in Slots : /\ Ahead(i) /\ Ahead(j) /\ At(i) < At(j)
                         /\ desc[i] \in Commands /\ desc[j] \in Commands
                         => desc[i] < desc[j]
  /\ \A k \in executed + 1 .. InRing : \E i \in Slots : Ahead(i) /\ desc[i] = k
  /\ xpc = "filled" =>
       \A i \in Slots : At(cmdProducer) <= At(i) /\ Ahead(i) => desc[i] \notin Commands

\* The commands that wait for room in the ring.
BlocksTrue ==
  /\ \A b \in 1 .. Len(cmdList), o \in 1 .. BlockSize :
       cmdList[b][o] = InRing + BlockSize * (b - 1) + o
  /\ \A o \in 1 .. Len(currBlock) : currBlock[o] = accepted - Len(currBlock) + o

-----------------------------------------------------------------------------
(* Places in the ring, seen from the last descriptor reaped.               *)

LEMMA AtIs ==
  ASSUME IInv, NEW i \in Slots
  PROVE  /\ At(i) \in Nat /\ At(i) < MaxTxDescCount
         /\ \A j \in Slots : At(i) = At(j) => i = j
  BY DistInSlots, DistInjective DEF At, IInv, TypeOK

\* Indices keep the order in which descriptors go round.
LEMMA Places ==
  ASSUME IInv
  PROVE  /\ {lastCmdConsumer, cmdConsumer, cmdProducer, Top, BufTop, Reaped} \subseteq Slots
         /\ At(lastCmdConsumer) = 0
         /\ At(Reaped) <= At(cmdConsumer) /\ At(cmdConsumer) <= At(cmdProducer)
         /\ At(cmdProducer) <= At(BufTop) /\ At(BufTop) <= At(Top)
<1>1. /\ {lastCmdConsumer, cmdConsumer, cmdProducer, rlast, rcons, xprod, dprod} \subseteq Slots
      /\ \A t \in Senders : sprod[t] \in Slots
  BY DEF IInv, TypeOK
<1>2. At(lastCmdConsumer) = 0 /\ \A i \in Slots : At(i) \in Nat
  BY <1>1, AtIs, DistZero DEF At
<1>3. At(cmdConsumer) <= At(cmdProducer)
  BY DEF IInv, RingInOrder, CardInOrder, InOrder, At
<1>4. Reaped \in Slots /\ At(Reaped) <= At(cmdConsumer)
  <2>1. CASE txExcl \in Cpus /\ ppc[txExcl] = "reap"
    <3>1. At(rlast) <= At(rcons) /\ At(rcons) <= At(cmdConsumer)
      BY <2>1 DEF IInv, RingInOrder, ReapInOrder, InOrder, At
    <3> QED BY <1>1, <1>2, <2>1, <3>1 DEF Reaped
  <2>2. CASE ~(txExcl \in Cpus /\ ppc[txExcl] = "reap")
    <3>1. Reaped = lastCmdConsumer
      BY <2>2 DEF Reaped
    <3> QED BY <1>1, <1>2, <3>1
  <2> QED BY <2>1, <2>2
<1>5. BufTop \in Slots /\ At(cmdProducer) <= At(BufTop)
  <2>1. CASE xpc = "filled"
    <3>1. At(cmdProducer) <= At(xprod)
      BY <2>1 DEF IInv, RingInOrder, XmitInOrder, InOrder, At
    <3> QED BY <1>1, <2>1, <3>1 DEF BufTop
  <2>2. CASE xpc # "filled"
    <3>1. BufTop = cmdProducer
      BY <2>2 DEF BufTop
    <3> QED BY <1>1, <1>2, <3>1
  <2> QED BY <2>1, <2>2
<1>6. Top \in Slots /\ At(BufTop) <= At(Top)
  <2>1. CASE xpc = "filled"
    <3>1. Top = BufTop
      BY <2>1 DEF Top, BufTop
    <3> QED BY <1>2, <1>5, <3>1
  <2>2. CASE xpc # "filled" /\ txLock \in Senders /\ spc[txLock] = "filled"
    <3>1. At(cmdProducer) <= At(sprod[txLock])
      BY <2>2 DEF IInv, RingInOrder, SendInOrder, InOrder, At
    <3> QED BY <1>1, <2>2, <3>1 DEF Top, BufTop
  <2>3. CASE xpc # "filled" /\ ~(txLock \in Senders /\ spc[txLock] = "filled") /\ txLock \in Cpus
    <3>1. ppc[txLock] = "drain"
      BY <2>3 DEF IInv, LockDiscipline
    <3>2. At(cmdProducer) <= At(dprod)
      BY <2>3, <3>1 DEF IInv, RingInOrder, DrainInOrder, InOrder, At
    <3> QED BY <1>1, <2>3, <3>2 DEF Top, BufTop
  <2>4. CASE xpc # "filled" /\ ~(txLock \in Senders /\ spc[txLock] = "filled") /\ txLock \notin Cpus
    <3>1. Top = cmdProducer /\ BufTop = cmdProducer
      BY <2>4 DEF Top, BufTop
    <3> QED BY <1>1, <1>2, <3>1
  <2> QED BY <2>1, <2>2, <2>3, <2>4
<1> QED BY <1>1, <1>2, <1>3, <1>4, <1>5, <1>6

\* The descriptors written from an index on.
LEMMA RangeIs ==
  ASSUME IInv, NEW p \in Slots, NEW n \in Nat, At(p) + n < MaxTxDescCount, NEW i \in Slots
  PROVE  /\ Dist(p, i) < n <=> At(p) <= At(i) /\ At(i) < At(p) + n
         /\ At(p) <= At(i) => Dist(p, i) = At(i) - At(p)
         /\ Dist(p, i) \in Nat
<1>1. lastCmdConsumer \in Slots
  BY DEF IInv, TypeOK
<1> QED BY <1>1, RingAssumption DEF At, Dist, Slots

\* Seen from a later index, what is from there on keeps its order.
LEMMA ShiftIs ==
  ASSUME IInv, NEW l \in Slots, NEW i \in Slots
  PROVE  /\ At(l) <= At(i) => Dist(l, i) = At(i) - At(l)
         /\ At(i) < At(l) => Dist(l, i) = At(i) + MaxTxDescCount - At(l)
<1>1. lastCmdConsumer \in Slots
  BY DEF IInv, TypeOK
<1> QED BY <1>1, RingAssumption DEF At, Dist, Slots

\* Who holds tx_lock says up to where the ring is filled.
LEMMA TopIs ==
  ASSUME IInv
  PROVE  /\ txLock = None => Top = cmdProducer /\ BufTop = cmdProducer /\ xpc = "idle"
         /\ \A t \in Senders : txLock = t =>
              /\ Top = IF spc[t] = "filled" THEN sprod[t] ELSE cmdProducer
              /\ BufTop = cmdProducer /\ xpc = "idle"
         /\ \A c \in Cpus : txLock = c => Top = dprod /\ BufTop = cmdProducer /\ xpc = "idle"
         /\ xpc = "filled" => txLock = Xmit /\ Top = xprod /\ BufTop = xprod
         /\ xpc = "full" => txLock = Xmit /\ Top = cmdProducer /\ BufTop = cmdProducer
<1>1. xpc \in {"idle", "filled", "full"} /\ (xpc # "idle" <=> txLock = Xmit)
  BY DEF IInv, TypeOK, LockDiscipline
<1>2. Xmit \notin Senders \cup Cpus /\ None \notin Senders \cup Cpus /\ None # Xmit
      /\ Senders \cap Cpus = {}
  BY ThreadAssumption
<1>3. \A c \in Cpus : txLock = c => ppc[c] = "drain"
  BY DEF IInv, LockDiscipline
<1> QED BY <1>1, <1>2, <1>3 DEF Top, BufTop

-----------------------------------------------------------------------------
(* What the steps do to descriptors, buffers and packets.                  *)

\* Steps that leave the filled descriptors as they are, up to the same index.
RingStays ==
  /\ UNCHANGED <<lastCmdConsumer, cmdConsumer, desc, executed, Top>>
  /\ xpc' = "filled" => xpc = "filled" /\ UNCHANGED <<xskb, cmdProducer>>

\* Of these, steps that are about no packet and no command.
Quiet ==
  /\ RingStays
  /\ UNCHANGED <<buf, frees, taken, accepted, pendCnt, cmdList, currBlock>>
  /\ Reaped' \in {Reaped, lastCmdConsumer}
  /\ BufTop' = BufTop \/ (xpc # "filled" /\ BufTop' = Top)

\* Commands are written behind what is filled.
Puts(seq) ==
  /\ Len(seq) \in Nat \ {0} /\ At(Top) + Len(seq) < MaxTxDescCount
  /\ Top' = Advance(Top, Len(seq)) /\ BufTop' = BufTop /\ Reaped' = Reaped
  /\ desc' = Written(Top, seq) /\ buf' = Cleared(Top, Len(seq))
  /\ xpc # "filled" /\ xpc' # "filled"
  /\ UNCHANGED <<lastCmdConsumer, cmdConsumer, executed, frees, taken>>

Loud ==
  \/ \E s \in Skbs : \/ XmitPullFail(s) \/ XmitNoCarrier(s)
                     \/ \E n \in FragDescs, h \in HeaderDescs : XmitStart(s, n, h)
  \/ XmitMapFail
  \/ \E t \in Senders : SendQueue(t) \/ \E n \in MessageSizes : SendDirect(t, n)
  \/ \E c \in Cpus : PollReap(c) \/ PollCommit(c) \/ DrainBlock(c)
  \/ CardComplete \/ Close

LEMMA QuietStep ==
  ASSUME ~raced', IInv, [Next]_vars
  PROVE  Quiet \/ Loud
<1> USE DEF Quiet, RingStays
<1>0. IInv' /\ txLock \in {None, Xmit} \cup Senders \cup Cpus /\ LockDiscipline
  BY Inductive DEF IInv, TypeOK
<1>1. CASE XmitPublish
  <2>1. /\ UNCHANGED <<lastCmdConsumer, cmdConsumer, desc, executed, buf, frees, taken,
                       accepted, pendCnt, cmdList, currBlock, txExcl, ppc, rlast>>
        /\ xpc = "filled" /\ xpc' = "idle" /\ cmdProducer' = xprod /\ txLock' = None
    BY <1>1 DEF XmitPublish, skbVars, pendVars, reapVars, pollVars, cmdVars
  <2>2. Top' = Top /\ BufTop' = BufTop
    BY <2>1, TopIs, ThreadAssumption DEF Top, BufTop
  <2> QED BY <2>1, <2>2 DEF Reaped
<1>2. ASSUME NEW t \in Senders, SendPublish(t) PROVE Quiet
  <2>1. /\ UNCHANGED <<lastCmdConsumer, cmdConsumer, desc, executed, buf, frees, taken,
                       accepted, pendCnt, cmdList, currBlock, txExcl, ppc, rlast, xpc>>
        /\ spc[t] = "filled" /\ cmdProducer' = sprod[t] /\ txLock' = None
    BY <1>2 DEF SendPublish, skbVars, pendVars, reapVars, pollVars, cmdVars, xmitVars
  <2>2. txLock = t
    BY <1>0, <2>1 DEF LockDiscipline
  <2>3. Top = sprod[t] /\ xpc = "idle"
    BY <2>1, <2>2, TopIs
  <2>4. Top' = sprod[t] /\ BufTop' = sprod[t]
    BY <2>1, <2>3, ThreadAssumption DEF Top, BufTop
  <2> QED BY <2>1, <2>3, <2>4 DEF Reaped
<1>3. ASSUME NEW c \in Cpus, DrainEnd(c) PROVE Quiet
  <2>1. /\ UNCHANGED <<lastCmdConsumer, cmdConsumer, desc, executed, buf, frees, taken,
                       accepted, pendCnt, cmdList, currBlock, rlast, xpc>>
        /\ ppc[c] = "drain" /\ cmdProducer' = dprod /\ txLock' = None /\ txExcl' = None
    BY <1>3 DEF DrainEnd, skbVars, pendVars, reapVars, cmdVars, xmitVars
  <2>2. txLock = c
    BY <1>0, <2>1 DEF LockDiscipline
  <2>3. Top = dprod /\ xpc = "idle"
    BY <2>1, <2>2, TopIs
  <2>4. Top' = dprod /\ BufTop' = dprod
    BY <2>1, <2>3, ThreadAssumption DEF Top, BufTop
  <2>5. Reaped' = lastCmdConsumer
    BY <2>1, ThreadAssumption DEF Reaped
  <2> QED BY <2>1, <2>3, <2>4, <2>5
<1>4. ASSUME NEW c \in Cpus, DrainBegin(c) PROVE Quiet
  <2>1. /\ UNCHANGED <<lastCmdConsumer, cmdConsumer, cmdProducer, desc, executed, buf, frees, taken,
                       accepted, pendCnt, cmdList, currBlock, rlast, xpc, spc, txExcl>>
        /\ txLock = None /\ txLock' = c /\ dprod' = cmdProducer
        /\ ppc[c] = "pendlock" /\ ppc' = [ppc EXCEPT ![c] = "drain"]
    BY <1>4 DEF DrainBegin, GoTo, ringVars, skbVars, pendVars, reapVars, cmdVars, xmitVars, sendVars
  <2>2. Top = cmdProducer /\ BufTop = cmdProducer /\ xpc = "idle"
    BY <2>1, TopIs
  <2>3. Top' = cmdProducer /\ BufTop' = cmdProducer
    BY <2>1, <2>2, ThreadAssumption DEF Top, BufTop
  <2>4. txExcl = c
    BY <1>0, <2>1 DEF LockDiscipline
  <2>5. Reaped' = lastCmdConsumer
    BY <2>1, <2>4 DEF Reaped, IInv, TypeOK
  <2> QED BY <2>1, <2>2, <2>3, <2>5
<1>5. ASSUME NEW t \in Senders, NEW n \in MessageSizes, SendReserve(t, n) PROVE Quiet
  <2>1. /\ UNCHANGED <<lastCmdConsumer, cmdConsumer, cmdProducer, desc, executed, buf, frees, taken,
                       accepted, pendCnt, cmdList, currBlock, rlast, xpc, txExcl, ppc>>
        /\ txLock = None /\ txLock' = t /\ spc' = [spc EXCEPT ![t] = "reserved"]
    BY <1>5 DEF SendReserve, CanSend, ringVars, skbVars, reapVars, cmdVars, xmitVars, pollVars
  <2>2. Top = cmdProducer /\ BufTop = cmdProducer /\ xpc = "idle"
    BY <2>1, TopIs
  <2>3. Top' = cmdProducer /\ BufTop' = cmdProducer
    BY <2>1, <2>2, ThreadAssumption DEF Top, BufTop, IInv, TypeOK
  <2> QED BY <2>1, <2>2, <2>3 DEF Reaped
<1>6. CASE (\E s \in Skbs, n \in FragDescs : XmitNoRoom(s, n)) \/ XmitRequeue
  <2>1. /\ UNCHANGED <<lastCmdConsumer, cmdConsumer, cmdProducer, desc, executed, buf, frees, taken,
                       accepted, pendCnt, cmdList, currBlock, rlast, txExcl, ppc>>
        /\ \/ txLock = None /\ txLock' = Xmit /\ xpc' = "full"
           \/ xpc = "full" /\ txLock' = None /\ xpc' = "idle"
    BY <1>6 DEF XmitNoRoom, XmitRequeue, CanXmit, ringVars, skbVars, reapVars, cmdVars, pollVars,
         pendVars
  <2>2. Top = cmdProducer /\ BufTop = cmdProducer
    BY <2>1, TopIs
  <2>3. Top' = cmdProducer /\ BufTop' = cmdProducer
    BY <2>1, ThreadAssumption DEF Top, BufTop
  <2> QED BY <2>1, <2>2, <2>3 DEF Reaped
<1>7. ASSUME NEW c \in Cpus, PollTxBegin(c) \/ PollTxNothing(c) \/ PollTxBusy(c) \/ PollNoWake(c)
                             \/ PollSeesStopped(c) \/ PollWake(c)
      PROVE  Quiet
  <2>1. /\ UNCHANGED <<lastCmdConsumer, cmdConsumer, cmdProducer, desc, executed, buf, frees, taken,
                       accepted, pendCnt, cmdList, currBlock, xpc, xskb, xprod, txLock, spc, sprod,
                       dprod>>
    BY <1>7 DEF PollTxBegin, PollTxNothing, PollTxBusy, PollNoWake, PollSeesStopped, PollWake,
         ringVars, skbVars, cmdVars, pendVars, xmitVars, sendVars, drainVars
  <2>2. Top' = Top /\ BufTop' = BufTop
    BY <2>1 DEF Top, BufTop
  <2>3. Reaped' \in {Reaped, lastCmdConsumer}
    <3>1. CASE PollTxBegin(c)
      <4>1. rlast' = lastCmdConsumer
        BY <3>1 DEF PollTxBegin
      <4> QED BY <2>1, <4>1 DEF Reaped
    <3>2. CASE PollTxBusy(c)
      BY <2>1, <3>2, <1>0 DEF PollTxBusy, GoTo, Reaped, reapVars, LockDiscipline, IInv, TypeOK
    <3>3. CASE PollTxNothing(c) \/ PollNoWake(c) \/ PollWake(c)
      <4>1. txExcl' = None
        BY <3>3 DEF PollTxNothing, PollNoWake, PollWake
      <4> QED BY <2>1, <4>1, ThreadAssumption DEF Reaped
    <3>4. CASE PollSeesStopped(c)
      <4>1. ppc[c] = "wake" /\ ppc' = [ppc EXCEPT ![c] = "wakelock"] /\ txExcl' = txExcl
        BY <3>4 DEF PollSeesStopped, GoTo
      <4>2. txExcl = c
        BY <1>0, <4>1 DEF LockDiscipline
      <4> QED BY <2>1, <4>1, <4>2 DEF Reaped, IInv, TypeOK
    <3> QED BY <1>7, <3>1, <3>2, <3>3, <3>4
  <2> QED BY <2>1, <2>2, <2>3
<1>8. ASSUME NEW c \in Cpus,
             PollPendBusy(c) \/ PollPendTry(c) \/ PollNoPending(c) \/ PollStart(c) \/ PollAgain(c)
               \/ PollMissed(c) \/ \E more \in BOOLEAN : PollComplete(c, more)
      PROVE  Quiet
  <2>1. /\ UNCHANGED <<lastCmdConsumer, cmdConsumer, cmdProducer, desc, executed, buf, frees, taken,
                       accepted, pendCnt, cmdList, currBlock, xpc, xskb, xprod, txLock, spc, sprod,
                       dprod, rlast>>
    BY <1>8 DEF PollPendBusy, PollPendTry, PollNoPending, PollStart, PollAgain, PollMissed,
         PollComplete, ringVars, skbVars, cmdVars, pendVars, xmitVars, sendVars, drainVars, reapVars
  <2>2. Top' = Top /\ BufTop' = BufTop
    BY <2>1 DEF Top, BufTop
  <2>3. /\ ppc[c] # "reap" \/ UNCHANGED ppc
        /\ ppc'[c] # "reap" \/ UNCHANGED ppc
        /\ \A d \in Cpus : d # c => ppc'[d] = ppc[d]
    BY <1>8 DEF PollPendBusy, PollPendTry, PollNoPending, PollStart, PollAgain, PollMissed, PollReturn,
         PollComplete, GoTo, IInv, TypeOK
  <2>4. txExcl' \in {txExcl, None, c} /\ (txExcl' = c => txExcl = c \/ ppc'[c] # "reap")
    BY <1>8 DEF PollPendBusy, PollPendTry, PollNoPending, PollStart, PollAgain, PollMissed, PollReturn,
         PollComplete, GoTo, IInv, TypeOK, pollVars
  <2>5. Reaped' \in {Reaped, lastCmdConsumer}
    BY <2>1, <2>3, <2>4, ThreadAssumption DEF Reaped
  <2> QED BY <2>1, <2>2, <2>5
<1>9. CASE LinkDown \/ LinkUp \/ TxTimeout \/ TxTimeoutTask \/ Open \/ UNCHANGED vars
  <2>1. /\ UNCHANGED <<lastCmdConsumer, cmdConsumer, cmdProducer, desc, executed, buf, frees, taken,
                       accepted, pendCnt, cmdList, currBlock, xpc, xskb, xprod, txLock, spc, sprod,
                       dprod, rlast, txExcl, ppc>>
    BY <1>9 DEF LinkDown, LinkUp, TxTimeout, TxTimeoutTask, Open, vars, pollVars,
         ringVars, skbVars, cmdVars, pendVars, xmitVars, sendVars, drainVars, reapVars
  <2> QED BY <2>1 DEF Top, BufTop, Reaped
<1> QED
  BY <1>1, <1>2, <1>3, <1>4, <1>5, <1>6, <1>7, <1>8, <1>9
  DEF Loud, Next, XmitBegins, XmitGoesOn, SendBegins, SendGoesOn, PollGoesOn

\* A message that does not wait.
LEMMA SendDirectIs ==
  ASSUME IInv, NEW t \in Senders, NEW n \in MessageSizes, SendDirect(t, n)
  PROVE  /\ Puts(NextCommands(n)) /\ NextCommands(n) \in Seq(Commands)
         /\ Len(NextCommands(n)) = n /\ n \in Nat
         /\ \A k \in 1 .. n : NextCommands(n)[k] = accepted + k
         /\ pendCnt = 0 /\ accepted' = accepted + n
         /\ UNCHANGED <<pendCnt, cmdList, currBlock>>
<1>1. /\ txLock = None /\ txLock' = t /\ accepted + n <= MaxCommands /\ pendCnt \in Nat
      /\ ~(pendCnt > 0) /\ HasRoom(n)
      /\ desc' = Written(cmdProducer, NextCommands(n)) /\ buf' = Cleared(cmdProducer, n)
      /\ accepted' = accepted + n
      /\ spc' = [spc EXCEPT ![t] = "filled"]
      /\ sprod' = [sprod EXCEPT ![t] = Advance(cmdProducer, n)]
      /\ UNCHANGED <<cmdProducer, lastCmdConsumer, cmdConsumer, pendCnt, cmdList, currBlock, xpc,
                     rlast, ppc, txExcl, frees, taken, executed>>
  BY DEF SendDirect, CanSend, MustQueue, IInv, TypeOK, pendVars, xmitVars, reapVars, pollVars,
     skbVars
<1>2. n \in Nat \ {0} /\ accepted \in 0 .. MaxCommands
  BY RingAssumption DEF IInv, TypeOK
<1>3. pendCnt = 0
  BY <1>1
<1>4. Top = cmdProducer /\ BufTop = cmdProducer /\ xpc = "idle" /\ spc \in [Senders -> {"idle", "filled", "reserved"}]
      /\ sprod \in [Senders -> Slots] /\ cmdProducer \in Slots /\ lastCmdConsumer \in Slots
  BY <1>1, TopIs DEF IInv, TypeOK
<1>5. Top' = Advance(cmdProducer, n) /\ BufTop' = cmdProducer
  BY <1>1, <1>4 DEF Top, BufTop
<1>6. At(Top) + n < MaxTxDescCount
  BY <1>1, <1>2, <1>4, HasRoomDist DEF At
<1>7. NextCommands(n) \in Seq(Commands) /\ Len(NextCommands(n)) = n
  BY <1>1, <1>2, NextCommandsType
<1>8. \A k \in 1 .. n : NextCommands(n)[k] = accepted + k
  BY DEF NextCommands
<1>9. Reaped' = Reaped
  BY <1>1 DEF Reaped
<1>10. Puts(NextCommands(n))
  BY <1>1, <1>2, <1>4, <1>5, <1>6, <1>7, <1>9 DEF Puts
<1> QED BY <1>1, <1>2, <1>3, <1>7, <1>8, <1>10

\* A block of commands that waited.
LEMMA DrainIs ==
  ASSUME IInv, NEW c \in Cpus, DrainBlock(c)
  PROVE  \E block \in Seq(Commands) :
           /\ Puts(block) /\ accepted' = accepted /\ pendCnt' = pendCnt - Len(block)
           /\ \/ /\ cmdList # <<>> /\ block = Head(cmdList) /\ Len(block) = BlockSize
                 /\ cmdList' = Tail(cmdList) /\ currBlock' = currBlock
              \/ /\ cmdList = <<>> /\ block = currBlock
                 /\ cmdList' = cmdList /\ currBlock' = <<>>
<1>1. /\ ppc[c] = "drain"
      /\ UNCHANGED <<cmdProducer, lastCmdConsumer, cmdConsumer, txLock, xpc, spc, sprod, rlast, ppc,
                     txExcl, frees, taken, accepted, executed>>
  BY DEF DrainBlock, xmitVars, sendVars, reapVars, pollVars, skbVars, cmdVars
<1>2. txLock = c
  BY <1>1 DEF IInv, LockDiscipline
<1>3. Top = dprod /\ BufTop = cmdProducer /\ xpc = "idle" /\ c \notin Senders
  BY <1>2, TopIs, ThreadAssumption
<1>4. Top' = dprod' /\ BufTop' = BufTop /\ Reaped' = Reaped
  BY <1>1, <1>2, <1>3 DEF Top, BufTop, Reaped
<1>5. At(dprod) + dlen < MaxTxDescCount /\ dprod \in Slots /\ dlen \in Nat
      /\ At(dprod) \in Nat
  BY <1>1, AtIs, RingAssumption DEF IInv, RingInOrder, DrainInOrder, At, TypeOK, Slots
<1>6. ASSUME NEW block \in Seq(Commands), MoveBlock(block), Len(block) <= dlen, Len(block) # 0
      PROVE  Puts(block)
  <2>1. Len(block) \in Nat \ {0} /\ At(Top) + Len(block) < MaxTxDescCount
    BY <1>3, <1>5, <1>6, RingAssumption
  <2> QED BY <1>1, <1>3, <1>4, <1>6, <2>1 DEF MoveBlock, Puts
<1>7. CASE FullBlockFits /\ MoveBlock(Head(cmdList)) /\ cmdList' = Tail(cmdList) /\ UNCHANGED currBlock
  <2>1. cmdList \in Seq(Seq(Commands)) /\ cmdList # <<>> /\ BlockSize <= dlen
    BY <1>7 DEF IInv, TypeOK, FullBlockFits
  <2>2. Head(cmdList) \in Seq(Commands) /\ Head(cmdList) = cmdList[1] /\ 1 \in 1 .. Len(cmdList)
    BY <2>1
  <2>3. Len(Head(cmdList)) = BlockSize
    BY <2>2 DEF IInv, PendingCounted
  <2>4. Puts(Head(cmdList)) /\ pendCnt' = pendCnt - Len(Head(cmdList))
    BY <1>6, <1>7, <2>1, <2>2, <2>3, RingAssumption DEF MoveBlock
  <2> QED BY <1>1, <1>7, <2>1, <2>2, <2>3, <2>4
<1>8. CASE CurrBlockFits /\ MoveBlock(currBlock) /\ currBlock' = <<>> /\ UNCHANGED cmdList
  <2>1. currBlock \in Seq(Commands) /\ cmdList = <<>> /\ currBlock # <<>> /\ Len(currBlock) <= dlen
    BY <1>8 DEF IInv, TypeOK, CurrBlockFits
  <2>2. Len(currBlock) # 0
    BY <2>1
  <2>3. Puts(currBlock) /\ pendCnt' = pendCnt - Len(currBlock)
    BY <1>6, <1>8, <2>1, <2>2 DEF MoveBlock
  <2> QED BY <1>1, <1>8, <2>1, <2>3
<1> QED BY <1>7, <1>8 DEF DrainBlock

\* A packet that takes its place in the ring.
LEMMA XmitStartIs ==
  ASSUME IInv, NEW s \in Skbs, NEW n \in FragDescs, NEW h \in HeaderDescs, XmitStart(s, n, h)
  PROVE  /\ s \notin taken /\ taken' = taken \cup {s} /\ xpc' = "filled" /\ xskb' = s
         /\ Top = cmdProducer /\ BufTop = cmdProducer /\ xpc # "filled"
         /\ n + h \in Nat \ {0} /\ At(cmdProducer) + (n + h) < MaxTxDescCount
         /\ Top' = Advance(cmdProducer, n + h) /\ BufTop' = Top' /\ Reaped' = Reaped
         /\ desc' = Written(cmdProducer, [k \in 1 .. n + h |-> IF k = 1 THEN s ELSE Cont])
         /\ buf' = [buf EXCEPT ![cmdProducer] = s]
         /\ UNCHANGED <<lastCmdConsumer, cmdConsumer, cmdProducer, frees, executed, accepted, pendCnt,
                        cmdList, currBlock>>
<1>1. n \in Nat \ {0} /\ h \in 0 .. 2
  BY RingAssumption
<1>2. /\ txLock = None /\ HasRoom(n + 2) /\ s \notin taken /\ taken' = taken \cup {s}
      /\ xpc' = "filled" /\ xskb' = s /\ xprod' = Advance(cmdProducer, n + h)
      /\ desc' = Written(cmdProducer, [k \in 1 .. n + h |-> IF k = 1 THEN s ELSE Cont])
      /\ buf' = [buf EXCEPT ![cmdProducer] = s]
      /\ UNCHANGED <<lastCmdConsumer, cmdConsumer, cmdProducer, frees, executed, accepted, pendCnt,
                     cmdList, currBlock, rlast, ppc, txExcl>>
  BY DEF XmitStart, CanXmit, pendVars, reapVars, pollVars, cmdVars
<1>3. Top = cmdProducer /\ BufTop = cmdProducer /\ xpc = "idle"
  BY <1>2, TopIs
<1>4. Top' = Advance(cmdProducer, n + h) /\ BufTop' = Top' /\ Reaped' = Reaped
  BY <1>2 DEF Top, BufTop, Reaped
<1>5. n + h \in Nat \ {0} /\ n + h <= n + 2 /\ n + 2 \in Nat
  BY <1>1
<1>6. At(cmdProducer) + (n + h) < MaxTxDescCount
  <2>1. cmdProducer \in Slots /\ lastCmdConsumer \in Slots
    BY DEF IInv, TypeOK
  <2>2. At(cmdProducer) + (n + 2) < MaxTxDescCount /\ At(cmdProducer) \in Nat
    BY <1>2, <1>5, <2>1, HasRoomDist, AtIs DEF At
  <2> QED BY <1>1, <2>2, RingAssumption
<1> QED BY <1>2, <1>3, <1>4, <1>5, <1>6

\* Steps in which only the packets and buffers, or what waits, change.
LEMMA OffRing ==
  ASSUME ~raced', IInv,
         \/ \E s \in Skbs : XmitPullFail(s) \/ XmitNoCarrier(s)
         \/ \E t \in Senders : SendQueue(t)
         \/ \E c \in Cpus : PollReap(c)
         \/ Close
  PROVE  RingStays /\ BufTop' = BufTop
<1> USE DEF RingStays
<1>1. ASSUME NEW s \in Skbs, XmitPullFail(s) \/ XmitNoCarrier(s) PROVE RingStays /\ BufTop' = BufTop
  <2>1. UNCHANGED <<lastCmdConsumer, cmdConsumer, cmdProducer, desc, executed, xpc, xskb, xprod, txLock,
                    spc, sprod, dprod>>
    BY <1>1 DEF XmitPullFail, XmitNoCarrier, DropPacket, ringVars, cmdVars, xmitVars, sendVars,
       drainVars
  <2> QED BY <2>1 DEF Top, BufTop
<1>2. ASSUME NEW t \in Senders, SendQueue(t) PROVE RingStays /\ BufTop' = BufTop
  <2>1. /\ UNCHANGED <<lastCmdConsumer, cmdConsumer, cmdProducer, desc, executed, xpc, xskb, xprod>>
        /\ spc[t] = "reserved" /\ txLock' = None
    BY <1>2 DEF SendQueue, ringVars, xmitVars
  <2>2. txLock = t
    BY <2>1 DEF IInv, LockDiscipline
  <2>3. Top = cmdProducer /\ BufTop = cmdProducer /\ xpc = "idle"
    BY <2>1, <2>2, TopIs
  <2>4. Top' = cmdProducer /\ BufTop' = cmdProducer
    BY <2>1, <2>3, ThreadAssumption DEF Top, BufTop
  <2> QED BY <2>1, <2>3, <2>4
<1>3. ASSUME NEW c \in Cpus, PollReap(c) PROVE RingStays /\ BufTop' = BufTop
  <2>1. UNCHANGED <<lastCmdConsumer, cmdConsumer, cmdProducer, desc, executed, xpc, xskb, xprod, txLock,
                    spc, sprod, dprod>>
    BY <1>3 DEF PollReap, cmdVars, xmitVars, sendVars, drainVars
  <2> QED BY <2>1 DEF Top, BufTop
<1>4. CASE Close
  <2>1. UNCHANGED <<lastCmdConsumer, cmdConsumer, cmdProducer, desc, executed, xpc, xskb, xprod, txLock,
                    spc, sprod, dprod>>
    BY <1>4 DEF Close, cmdVars, xmitVars, sendVars, drainVars
  <2> QED BY <2>1 DEF Top, BufTop
<1> QED BY <1>1, <1>2, <1>3, <1>4

\* The descriptors ahead of the card are the same while the ring stays.
LEMMA AheadStays ==
  ASSUME RingStays, NEW i \in Slots
  PROVE  /\ Ahead(i)' = Ahead(i) /\ At(i)' = At(i)
         /\ xpc' = "filled" => (At(cmdProducer))' = At(cmdProducer)
BY DEF RingStays, Ahead, At

\* A poll is done with what it reaped.
LEMMA CommitIs ==
  ASSUME IInv, NEW c \in Cpus, PollCommit(c)
  PROVE  /\ rlast \in Slots /\ Reaped = rlast /\ lastCmdConsumer' = rlast /\ Reaped' = rlast
         /\ Top' = Top /\ BufTop' = BufTop /\ xpc' = xpc /\ xskb' = xskb
         /\ UNCHANGED <<cmdConsumer, cmdProducer, desc, buf, frees, taken, executed, accepted, pendCnt,
                        cmdList, currBlock>>
<1>1. /\ ppc[c] = "reap" /\ lastCmdConsumer' = rlast
      /\ ppc' = [ppc EXCEPT ![c] = "wake"]
      /\ UNCHANGED <<cmdConsumer, cmdProducer, desc, buf, frees, taken, executed, accepted, pendCnt,
                     cmdList, currBlock, xpc, xskb, xprod, txLock, spc, sprod, dprod, txExcl>>
  BY DEF PollCommit, GoTo, pendVars, xmitVars, sendVars, drainVars, skbVars, cmdVars
<1>2. txExcl = c
  BY <1>1 DEF IInv, LockDiscipline
<1>3. rlast \in Slots /\ ppc \in [Cpus -> {"idle", "tx", "reap", "wake", "wakelock", "complete",
                                           "pend", "pendlock", "drain"}]
  BY DEF IInv, TypeOK
<1> QED BY <1>1, <1>2, <1>3 DEF Reaped, Top, BufTop

LEMMA CommitShifts ==
  ASSUME IInv, NEW c \in Cpus, PollCommit(c)
  PROVE  /\ \A i \in Slots : Ahead(i)' <=> Ahead(i)
         /\ \A i, j \in Slots : At(rlast) <= At(i) /\ At(rlast) <= At(j)
                                  => (At(i)' < At(j)' <=> At(i) < At(j))
         /\ \A i \in Slots : At(rlast) <= At(i)
              => (At(i)' < (At(cmdProducer))' <=> At(i) < At(cmdProducer))
         /\ \A i \in Slots : At(rlast) <= At(i)
              => ((At(cmdProducer))' <= At(i)' <=> At(cmdProducer) <= At(i))
         /\ \A i \in Slots : At(rlast) <= At(i)
              => (At(i)' < (At(BufTop))' <=> At(i) < At(BufTop))
         /\ (At(Reaped))' = 0 /\ \A i \in Slots : At(i)' \in Nat
<1> DEFINE new(i) == Dist(rlast, i)
<1>1. /\ rlast \in Slots /\ Reaped = rlast /\ lastCmdConsumer' = rlast /\ Reaped' = rlast
      /\ UNCHANGED <<cmdConsumer, cmdProducer, Top, BufTop>>
  BY CommitIs
<1>2. /\ {cmdConsumer, cmdProducer, Top, BufTop} \subseteq Slots
      /\ At(rlast) <= At(cmdConsumer) /\ At(cmdConsumer) <= At(cmdProducer)
      /\ At(cmdProducer) <= At(BufTop) /\ At(BufTop) <= At(Top)
  BY <1>1, Places
<1>3. \A i \in Slots : At(i) \in Nat /\ At(i) < MaxTxDescCount
  BY AtIs
<1>4. \A i \in Slots : /\ At(rlast) <= At(i) => new(i) = At(i) - At(rlast)
                       /\ At(i) < At(rlast) => new(i) = At(i) + MaxTxDescCount - At(rlast)
  BY <1>1, ShiftIs
<1>5. \A i \in Slots : At(i)' = new(i)
  BY <1>1 DEF At
<1>6. /\ (At(cmdProducer))' = new(cmdProducer) /\ (At(cmdConsumer))' = new(cmdConsumer)
      /\ (At(Top))' = new(Top) /\ (At(BufTop))' = new(BufTop) /\ (At(Reaped))' = new(rlast)
  BY <1>1 DEF At
<1>7. /\ new(cmdConsumer) = At(cmdConsumer) - At(rlast)
      /\ new(cmdProducer) = At(cmdProducer) - At(rlast)
      /\ new(BufTop) = At(BufTop) - At(rlast) /\ new(Top) = At(Top) - At(rlast)
      /\ new(rlast) = 0
  BY <1>1, <1>2, <1>3, <1>4
<1>8. \A i \in Slots : new(i) \in Nat
  BY <1>1, <1>3, <1>4, RingAssumption
<1> HIDE DEF new
<1>9. ASSUME NEW i \in Slots PROVE Ahead(i)' <=> Ahead(i)
  <2>1. Ahead(i)' <=> new(cmdConsumer) <= new(i) /\ new(i) < new(Top)
    BY <1>1, <1>5, <1>6 DEF Ahead
  <2>2. At(i) \in Nat /\ At(rlast) \in Nat /\ At(cmdConsumer) \in Nat /\ At(Top) \in Nat
        /\ At(Top) < MaxTxDescCount
    BY <1>1, <1>2, <1>3
  <2>3. CASE At(rlast) <= At(i)
    BY <1>2, <1>4, <1>7, <2>1, <2>2, <2>3 DEF Ahead
  <2>4. CASE At(i) < At(rlast)
    <3>1. ~(new(i) < new(Top)) /\ ~(At(cmdConsumer) <= At(i))
      BY <1>2, <1>4, <1>7, <2>2, <2>4, RingAssumption
    <3> QED BY <2>1, <3>1 DEF Ahead
  <2> QED BY <2>2, <2>3, <2>4
<1>10. ASSUME NEW i \in Slots, At(rlast) <= At(i)
       PROVE  /\ \A j \in Slots : At(rlast) <= At(j) => (At(i)' < At(j)' <=> At(i) < At(j))
              /\ At(i)' < (At(cmdProducer))' <=> At(i) < At(cmdProducer)
              /\ (At(cmdProducer))' <= At(i)' <=> At(cmdProducer) <= At(i)
              /\ At(i)' < (At(BufTop))' <=> At(i) < At(BufTop)
  <2>1. At(i) \in Nat /\ At(rlast) \in Nat /\ At(cmdProducer) \in Nat /\ At(BufTop) \in Nat
    BY <1>1, <1>2, <1>3
  <2>2. At(i)' = At(i) - At(rlast)
    BY <1>4, <1>5, <1>10
  <2>3. ASSUME NEW j \in Slots, At(rlast) <= At(j) PROVE At(i)' < At(j)' <=> At(i) < At(j)
    <3>1. At(j)' = At(j) - At(rlast) /\ At(j) \in Nat
      BY <1>3, <1>4, <1>5, <2>3
    <3> QED BY <2>1, <2>2, <3>1
  <2> QED BY <1>6, <1>7, <2>1, <2>2, <2>3
<1> QED BY <1>1, <1>5, <1>6, <1>7, <1>8, <1>9, <1>10

\* What commands are written to.
LEMMA PutsIs ==
  ASSUME IInv, NEW seq \in Seq(Commands), Puts(seq)
  PROVE  /\ \A i \in Slots : At(i)' = At(i)
         /\ \A i \in Slots : Ahead(i)' <=> \/ Ahead(i)
                                           \/ At(Top) <= At(i) /\ At(i) < At(Top) + Len(seq)
         /\ \A i \in Slots : At(i) < At(Top) => desc'[i] = desc[i] /\ buf'[i] = buf[i]
         /\ \A i \in Slots : At(Top) <= At(i) /\ At(i) < At(Top) + Len(seq) =>
              /\ At(i) - At(Top) + 1 \in 1 .. Len(seq)
              /\ desc'[i] = seq[At(i) - At(Top) + 1] /\ desc'[i] \in Commands
         /\ \A i \in Slots : buf'[i] \in {buf[i], None}
         /\ (At(Top))' = At(Top) + Len(seq) /\ (At(Top))' \in Nat
<1>1. /\ Len(seq) \in Nat \ {0} /\ At(Top) + Len(seq) < MaxTxDescCount
      /\ Top' = Advance(Top, Len(seq))
      /\ desc' = Written(Top, seq) /\ buf' = Cleared(Top, Len(seq))
      /\ UNCHANGED <<lastCmdConsumer, cmdConsumer>>
  BY DEF Puts
<1>2. /\ Top \in Slots /\ lastCmdConsumer \in Slots /\ cmdConsumer \in Slots /\ At(Top) \in Nat
      /\ At(cmdConsumer) <= At(Top) /\ At(cmdConsumer) \in Nat
  <2>1. {Top, lastCmdConsumer, cmdConsumer, cmdProducer, BufTop} \subseteq Slots
        /\ At(cmdConsumer) <= At(cmdProducer) /\ At(cmdProducer) <= At(BufTop) /\ At(BufTop) <= At(Top)
    BY Places
  <2> QED BY <2>1, AtIs
<1>3. \A i \in Slots : At(i)' = At(i) /\ At(i) \in Nat
  BY <1>1, AtIs DEF At
<1>4. (At(Top))' = At(Top) + Len(seq)
  BY <1>1, <1>2, DistAdvance DEF At
<1>5. (At(cmdConsumer))' = At(cmdConsumer)
  BY <1>1 DEF At
<1>6. ASSUME NEW i \in Slots
      PROVE  Ahead(i)' <=> \/ Ahead(i)
                           \/ At(Top) <= At(i) /\ At(i) < At(Top) + Len(seq)
  <2>1. Ahead(i)' <=> At(cmdConsumer) <= At(i) /\ At(i) < At(Top) + Len(seq)
    BY <1>3, <1>4, <1>5 DEF Ahead
  <2> QED BY <1>1, <1>2, <1>3, <2>1 DEF Ahead
<1>7. \A i \in Slots :
        /\ Dist(Top, i) < Len(seq) <=> At(Top) <= At(i) /\ At(i) < At(Top) + Len(seq)
        /\ At(Top) <= At(i) => Dist(Top, i) = At(i) - At(Top)
  BY <1>1, <1>2, RangeIs
<1>8. /\ \A i \in Slots : desc'[i] = IF Dist(Top, i) < Len(seq) THEN seq[Dist(Top, i) + 1] ELSE desc[i]
      /\ \A i \in Slots : buf'[i] = IF Dist(Top, i) < Len(seq) THEN None ELSE buf[i]
  BY <1>1 DEF Written, Cleared
<1>9. ASSUME NEW i \in Slots, At(i) < At(Top) PROVE desc'[i] = desc[i] /\ buf'[i] = buf[i]
  <2>1. ~(Dist(Top, i) < Len(seq))
    BY <1>2, <1>3, <1>7, <1>9
  <2> QED BY <1>8, <2>1
<1>10. ASSUME NEW i \in Slots, At(Top) <= At(i), At(i) < At(Top) + Len(seq)
       PROVE  /\ At(i) - At(Top) + 1 \in 1 .. Len(seq)
              /\ desc'[i] = seq[At(i) - At(Top) + 1] /\ desc'[i] \in Commands
  <2>1. At(i) - At(Top) + 1 \in 1 .. Len(seq)
    BY <1>1, <1>2, <1>3, <1>10
  <2>2. desc'[i] = seq[At(i) - At(Top) + 1]
    BY <1>7, <1>8, <1>10
  <2>3. seq[At(i) - At(Top) + 1] \in Commands
    BY <2>1
  <2> QED BY <2>1, <2>2, <2>3
<1>11. (At(Top))' \in Nat
  BY <1>1, <1>2, <1>4
<1> QED BY <1>3, <1>4, <1>6, <1>8, <1>9, <1>10, <1>11

\* The card is done with a packet or a command.
LEMMA CardIs ==
  ASSUME IInv, CardComplete
  PROVE  /\ UNCHANGED <<lastCmdConsumer, desc, buf, frees, taken, accepted, pendCnt, cmdList,
                        currBlock, cmdProducer, xpc, xskb>>
         /\ Top' = Top /\ BufTop' = BufTop /\ Reaped' = Reaped
         /\ \A i \in Slots : At(i)' = At(i)
         /\ Ahead(cmdConsumer)
         /\ \A i \in Slots : Ahead(i)' => Ahead(i) /\ At(cmdConsumer) < At(i)
         /\ \A i \in Slots : Ahead(i) /\ ~Ahead(i)' => i = cmdConsumer \/ desc[i] = Cont
         /\ executed' = IF desc[cmdConsumer] \in Commands THEN desc[cmdConsumer] ELSE executed
<1>1. /\ UNCHANGED <<lastCmdConsumer, desc, buf, frees, taken, accepted, pendCnt, cmdList,
                     currBlock, cmdProducer, xpc, xskb, xprod, spc, sprod, dprod, txLock, txExcl,
                     ppc, rlast>>
      /\ executed' = IF desc[cmdConsumer] \in Commands THEN desc[cmdConsumer] ELSE executed
  BY DEF CardComplete, pendVars, xmitVars, sendVars, drainVars, reapVars, skbVars
<1>2. Top' = Top /\ BufTop' = BufTop /\ Reaped' = Reaped
  BY <1>1 DEF Top, BufTop, Reaped
<1>3. /\ {lastCmdConsumer, cmdConsumer, cmdProducer, Top} \subseteq Slots
      /\ At(cmdConsumer) <= At(cmdProducer) /\ At(cmdProducer) <= At(Top)
  <2>1. {lastCmdConsumer, cmdConsumer, cmdProducer, Top, BufTop} \subseteq Slots
        /\ At(cmdConsumer) <= At(cmdProducer) /\ At(cmdProducer) <= At(BufTop) /\ At(BufTop) <= At(Top)
    BY Places
  <2> QED BY <2>1, AtIs
<1>4. Dist(cmdConsumer, cmdProducer) = At(cmdProducer) - At(cmdConsumer)
  BY <1>3, ShiftIs
<1>5. PICK n \in 1 .. Dist(cmdConsumer, cmdProducer) :
        /\ \A k \in 1 .. n - 1 : desc[Advance(cmdConsumer, k)] = Cont
        /\ cmdConsumer' = Advance(cmdConsumer, n)
  BY DEF CardComplete
<1>6. /\ At(cmdConsumer) \in Nat /\ At(cmdProducer) \in Nat /\ At(Top) \in Nat
      /\ At(Top) < MaxTxDescCount /\ At(cmdProducer) < MaxTxDescCount
      /\ \A i \in Slots : At(i) \in Nat
  BY <1>3, AtIs
<1>7. n \in Nat /\ n >= 1 /\ At(cmdConsumer) + n <= At(cmdProducer)
  BY <1>4, <1>5, <1>6
<1>8. \A k \in Nat : k <= n => /\ Advance(cmdConsumer, k) \in Slots
                               /\ At(Advance(cmdConsumer, k)) = At(cmdConsumer) + k
  <2> SUFFICES ASSUME NEW k \in Nat, k <= n
               PROVE  /\ Advance(cmdConsumer, k) \in Slots
                      /\ At(Advance(cmdConsumer, k)) = At(cmdConsumer) + k
    OBVIOUS
  <2>1. At(cmdConsumer) + k < MaxTxDescCount
    <3> DEFINE x == At(cmdConsumer)
               y == At(cmdProducer)
    <3>1. x \in Nat /\ y \in Nat /\ y < MaxTxDescCount /\ MaxTxDescCount \in Nat
      BY <1>6, RingAssumption
    <3>2. n \in Nat /\ x + n <= y
      BY <1>7
    <3> HIDE DEF x, y
    <3>3. x + k < MaxTxDescCount
      BY <3>1, <3>2
    <3> QED BY <3>3 DEF x
  <2>2. cmdConsumer \in Slots /\ lastCmdConsumer \in Slots
    BY <1>3
  <2>3. Dist(lastCmdConsumer, cmdConsumer) + k < MaxTxDescCount
    BY <2>1 DEF At
  <2>4. /\ Advance(cmdConsumer, k) \in Slots
        /\ Dist(lastCmdConsumer, Advance(cmdConsumer, k)) = Dist(lastCmdConsumer, cmdConsumer) + k
    BY <2>2, <2>3, DistAdvance
  <2> QED BY <2>4 DEF At
<1>9. \A i \in Slots : At(i)' = At(i)
  BY <1>1 DEF At
<1>10. (At(cmdConsumer))' = At(cmdConsumer) + n
  <2>1. (At(cmdConsumer))' = At(Advance(cmdConsumer, n))
    BY <1>1, <1>5 DEF At
  <2> QED BY <1>7, <1>8, <2>1
<1>11. (At(Top))' = At(Top)
  BY <1>1, <1>2 DEF At
<1>12. \A i \in Slots : Ahead(i)' <=> At(cmdConsumer) + n <= At(i) /\ At(i) < At(Top)
  BY <1>9, <1>10, <1>11 DEF Ahead
<1>13. Ahead(cmdConsumer)
  BY <1>3, <1>6, <1>7 DEF Ahead
<1>14. \A i \in Slots : Ahead(i)' => Ahead(i) /\ At(cmdConsumer) < At(i)
  BY <1>6, <1>7, <1>12 DEF Ahead
<1>15. ASSUME NEW i \in Slots, Ahead(i), ~Ahead(i)', i # cmdConsumer PROVE desc[i] = Cont
  <2>1. At(cmdConsumer) <= At(i) /\ At(i) < At(cmdConsumer) + n
    BY <1>6, <1>7, <1>12, <1>15 DEF Ahead
  <2>2. At(cmdConsumer) # At(i)
    BY <1>3, <1>15, AtIs
  <2> DEFINE k == At(i) - At(cmdConsumer)
  <2>3. k \in 1 .. n - 1 /\ k \in Nat /\ k <= n /\ At(cmdConsumer) + k = At(i)
    BY <1>6, <1>7, <2>1, <2>2
  <2> HIDE DEF k
  <2>4. Advance(cmdConsumer, k) = i
    BY <1>8, <2>3, AtIs
  <2> QED BY <1>5, <2>3, <2>4
<1> QED BY <1>1, <1>2, <1>9, <1>13, <1>14, <1>15

-----------------------------------------------------------------------------
(* Packets under the card.                                                 *)

\* A dropped packet, one whose mapping fails, and what a close frees.
LEMMA MapFailIs ==
  ASSUME ~raced', IInv, XmitMapFail
  PROVE  /\ frees' = [frees EXCEPT ![xskb] = @ + 1] /\ xpc = "filled" /\ xpc' = "idle"
         /\ Top' = cmdProducer /\ BufTop' = cmdProducer /\ Reaped' = Reaped
         /\ UNCHANGED <<lastCmdConsumer, cmdConsumer, cmdProducer, desc, buf, taken, executed, accepted,
                        pendCnt, cmdList, currBlock>>
         /\ \A i \in Slots : /\ At(i)' = At(i)
                             /\ Ahead(i)' <=> Ahead(i) /\ At(i) < At(cmdProducer)
<1>1. /\ xpc = "filled" /\ xpc' = "idle" /\ txLock' = None
      /\ frees' = [frees EXCEPT ![xskb] = @ + 1]
      /\ UNCHANGED <<lastCmdConsumer, cmdConsumer, cmdProducer, desc, buf, taken, executed, accepted,
                     pendCnt, cmdList, currBlock, txExcl, ppc, rlast>>
  BY DEF XmitMapFail, DropPacket, ringVars, pendVars, reapVars, pollVars, cmdVars
<1>2. Top' = cmdProducer /\ BufTop' = cmdProducer /\ Reaped' = Reaped
  BY <1>1, ThreadAssumption DEF Top, BufTop, Reaped
<1>3. \A i \in Slots : At(i)' = At(i) /\ At(i) \in Nat
  BY <1>1, AtIs DEF At
<1>4. (At(Top))' = At(cmdProducer) /\ (At(cmdConsumer))' = At(cmdConsumer)
  BY <1>1, <1>2 DEF At
<1>5. /\ At(cmdProducer) <= At(Top) /\ At(cmdProducer) \in Nat /\ At(Top) \in Nat
  <2>1. {Top, cmdProducer} \subseteq Slots
        /\ At(cmdProducer) <= At(BufTop) /\ At(BufTop) <= At(Top) /\ BufTop \in Slots
    BY Places
  <2> QED BY <2>1, AtIs
<1>6. \A i \in Slots : Ahead(i)' <=> Ahead(i) /\ At(i) < At(cmdProducer)
  BY <1>3, <1>4, <1>5 DEF Ahead
<1> QED BY <1>1, <1>2, <1>3, <1>6

LEMMA PullIs ==
  ASSUME ~raced', IInv, NEW s \in Skbs, XmitPullFail(s) \/ XmitNoCarrier(s)
  PROVE  /\ s \notin taken /\ taken' = taken \cup {s} /\ frees' = [frees EXCEPT ![s] = @ + 1]
         /\ Reaped' = Reaped
         /\ UNCHANGED <<buf, accepted, pendCnt, cmdList, currBlock>>
<1>1. /\ s \notin taken /\ taken' = taken \cup {s} /\ frees' = [frees EXCEPT ![s] = @ + 1]
      /\ UNCHANGED <<buf, accepted, pendCnt, cmdList, currBlock, txExcl, ppc, rlast, lastCmdConsumer>>
  BY DEF XmitPullFail, XmitNoCarrier, CanXmit, DropPacket, ringVars, pendVars, reapVars, pollVars,
     cmdVars
<1> QED BY <1>1 DEF Reaped

LEMMA ReapIs ==
  ASSUME IInv, NEW c \in Cpus, PollReap(c)
  PROVE  /\ rlast \in Slots /\ Reaped = rlast /\ At(rlast) < At(cmdConsumer)
         /\ Reaped' = Advance(rlast, 1) /\ (At(Reaped))' = At(rlast) + 1
         /\ frees' = IF buf[rlast] = None THEN frees ELSE [frees EXCEPT ![buf[rlast]] = @ + 1]
         /\ buf' = [buf EXCEPT ![rlast] = None]
         /\ UNCHANGED <<taken, accepted, pendCnt, cmdList, currBlock>>
<1>1. /\ ppc[c] = "reap" /\ rlast # rcons /\ rlast' = Advance(rlast, 1)
      /\ frees' = IF buf[rlast] = None THEN frees ELSE [frees EXCEPT ![buf[rlast]] = @ + 1]
      /\ buf' = [buf EXCEPT ![rlast] = None]
      /\ UNCHANGED <<taken, accepted, pendCnt, cmdList, currBlock, txExcl, ppc, lastCmdConsumer>>
  BY DEF PollReap, ReapMore, pendVars, pollVars, cmdVars
<1>2. txExcl = c
  BY <1>1 DEF IInv, LockDiscipline
<1>3. {rlast, rcons, cmdConsumer, lastCmdConsumer} \subseteq Slots
  BY DEF IInv, TypeOK
<1>4. At(rlast) <= At(rcons) /\ At(rcons) <= At(cmdConsumer)
  BY <1>1 DEF IInv, RingInOrder, ReapInOrder, InOrder, At
<1>5. At(rlast) # At(rcons) /\ At(rlast) \in Nat /\ At(rcons) \in Nat /\ At(cmdConsumer) \in Nat
      /\ At(cmdConsumer) < MaxTxDescCount
  BY <1>1, <1>3, AtIs
<1>6. At(rlast) < At(cmdConsumer) /\ At(rlast) + 1 < MaxTxDescCount
  <2> DEFINE x == At(rlast)
             y == At(rcons)
             z == At(cmdConsumer)
  <2>1. x \in Nat /\ y \in Nat /\ z \in Nat /\ z < MaxTxDescCount /\ x # y
    BY <1>5
  <2>2. x <= y /\ y <= z
    BY <1>4
  <2> HIDE DEF x, y, z
  <2>3. x < z /\ x + 1 < MaxTxDescCount
    BY <2>1, <2>2, RingAssumption
  <2> QED BY <2>3 DEF x, z
<1>7. Reaped = rlast /\ Reaped' = Advance(rlast, 1)
  BY <1>1, <1>2 DEF Reaped
<1>8. (At(Reaped))' = At(Advance(rlast, 1))
  BY <1>1, <1>7 DEF At
<1>9. At(Advance(rlast, 1)) = At(rlast) + 1
  BY <1>3, <1>6, DistAdvance DEF At
<1> QED BY <1>1, <1>3, <1>6, <1>7, <1>8, <1>9

LEMMA CloseIs ==
  ASSUME IInv, Close
  PROVE  /\ frees' = [s \in Skbs |-> frees[s] + Cardinality({i \in Slots : buf[i] = s})]
         /\ buf' = [i \in Slots |-> None] /\ running /\ ~running'
         /\ UNCHANGED <<taken, accepted, pendCnt, cmdList, currBlock>>
BY DEF Close, pendVars, cmdVars

\* Nothing new is filled: what is ahead of the card was, the buffers keep their packets
\* or lose them, and the packet being filled is the same.
Shrinks ==
  /\ \A i \in Slots : Ahead(i)' => Ahead(i) /\ desc'[i] = desc[i]
  /\ \A i \in Slots : buf'[i] \in {buf[i], None}
  /\ taken \subseteq taken'
  /\ xpc' = "filled" =>
       /\ xpc = "filled" /\ xskb' = xskb
       /\ \A i \in Slots : Ahead(i) /\ At(i)' < (At(cmdProducer))' => At(i) < At(cmdProducer)

LEMMA ShrinksStep ==
  ASSUME ~raced', IInv, Quiet \/ Loud
  PROVE  \/ Shrinks
         \/ \E s \in Skbs, n \in FragDescs, h \in HeaderDescs : XmitStart(s, n, h)
         \/ \E seq \in Seq(Commands) : Puts(seq)
<1> USE DEF Shrinks
<1>0. buf \in [Slots -> Skbs \cup {None}] /\ rlast \in Slots
  BY DEF IInv, TypeOK
<1>1. ASSUME RingStays, \A i \in Slots : buf'[i] \in {buf[i], None}, taken \subseteq taken'
      PROVE  Shrinks
  <2>1. \A i \in Slots : Ahead(i)' = Ahead(i) /\ At(i)' = At(i)
    BY <1>1, AheadStays
  <2>2. xpc' = "filled" => /\ xpc = "filled" /\ xskb' = xskb
                           /\ (At(cmdProducer))' = At(cmdProducer)
    BY <1>1 DEF RingStays, At
  <2>3. desc' = desc
    BY <1>1 DEF RingStays
  <2> QED BY <1>1, <2>1, <2>2, <2>3
<1>2. CASE Quiet
  BY <1>1, <1>2 DEF Quiet
<1>3. ASSUME NEW s \in Skbs, XmitPullFail(s) \/ XmitNoCarrier(s) PROVE Shrinks
  <2>1. RingStays
    BY <1>3, OffRing
  <2>2. buf' = buf /\ taken \subseteq taken'
    BY <1>3, PullIs
  <2> QED BY <1>1, <2>1, <2>2
<1>4. ASSUME NEW t \in Senders, SendQueue(t) PROVE Shrinks
  <2>1. RingStays
    BY <1>4, OffRing
  <2>2. buf' = buf /\ taken' = taken
    BY <1>4 DEF SendQueue, ringVars, skbVars
  <2> QED BY <1>1, <2>1, <2>2
<1>5. ASSUME NEW c \in Cpus, PollReap(c) PROVE Shrinks
  <2>1. RingStays
    BY <1>5, OffRing
  <2>2. buf' = [buf EXCEPT ![rlast] = None] /\ taken' = taken
    BY <1>5, ReapIs
  <2> QED BY <1>0, <1>1, <2>1, <2>2
<1>6. CASE Close
  <2>1. RingStays
    BY <1>6, OffRing
  <2>2. buf' = [i \in Slots |-> None] /\ taken' = taken
    BY <1>6, CloseIs
  <2> QED BY <1>1, <2>1, <2>2
<1>7. CASE XmitMapFail
  <2>1. /\ UNCHANGED <<desc, buf, taken>> /\ xpc' = "idle"
        /\ \A i \in Slots : Ahead(i)' => Ahead(i)
    BY <1>7, MapFailIs
  <2> QED BY <2>1
<1>8. ASSUME NEW c \in Cpus, PollCommit(c) PROVE Shrinks
  <2>1. UNCHANGED <<desc, buf, taken, xpc, xskb>> /\ Reaped = rlast
    BY <1>8, CommitIs
  <2>2. \A i \in Slots : Ahead(i)' <=> Ahead(i)
    BY <1>8, CommitShifts
  <2>3. ASSUME NEW i \in Slots, Ahead(i), At(i)' < (At(cmdProducer))' PROVE At(i) < At(cmdProducer)
    <3>1. At(rlast) <= At(cmdConsumer) /\ At(cmdConsumer) <= At(i) /\ cmdConsumer \in Slots
      BY <2>1, <2>3, Places DEF Ahead
    <3>2. At(rlast) <= At(i)
      BY <1>0, <3>1, AtIs
    <3> QED BY <1>8, <2>3, <3>2, CommitShifts
  <2> QED BY <2>1, <2>2, <2>3
<1>9. CASE CardComplete
  <2>1. /\ UNCHANGED <<desc, buf, taken, xpc, xskb, cmdProducer, lastCmdConsumer>>
        /\ \A i \in Slots : At(i)' = At(i)
        /\ \A i \in Slots : Ahead(i)' => Ahead(i)
    BY <1>9, CardIs
  <2>2. (At(cmdProducer))' = At(cmdProducer)
    BY <2>1 DEF At
  <2> QED BY <2>1, <2>2
<1>10. ASSUME NEW t \in Senders, NEW n \in MessageSizes, SendDirect(t, n)
       PROVE  \E seq \in Seq(Commands) : Puts(seq)
  BY <1>10, SendDirectIs
<1>11. ASSUME NEW c \in Cpus, DrainBlock(c) PROVE \E seq \in Seq(Commands) : Puts(seq)
  BY <1>11, DrainIs
<1> QED BY <1>2, <1>3, <1>4, <1>5, <1>6, <1>7, <1>8, <1>9, <1>10, <1>11 DEF Loud

LEMMA FlightStep ==
  ASSUME ~raced', IInv, FlightTrue, Quiet \/ Loud
  PROVE  FlightTrue'
<1>0. /\ buf \in [Slots -> Skbs \cup {None}] /\ taken \subseteq Skbs /\ None \notin Skbs
      /\ desc \in [Slots -> Descs]
  BY ThreadAssumption DEF IInv, TypeOK
<1>1. CASE Shrinks
  <2>1. \A i \in Slots : buf'[i] # None => buf'[i] \in taken'
    BY <1>0, <1>1 DEF Shrinks, FlightTrue
  <2>2. ASSUME NEW i \in Slots, Ahead(i)', desc'[i] \in Skbs
        PROVE  desc'[i] \in taken' /\ \A j \in Slots : buf'[j] = desc'[i] => j = i
    <3>1. Ahead(i) /\ desc'[i] = desc[i] /\ desc[i] # None
      BY <1>0, <1>1, <2>2 DEF Shrinks
    <3>2. desc[i] \in taken /\ \A j \in Slots : buf[j] = desc[i] => j = i
      BY <2>2, <3>1 DEF FlightTrue
    <3> QED BY <1>1, <3>1, <3>2 DEF Shrinks
  <2>3. ASSUME xpc' = "filled", NEW i \in Slots, Ahead(i)', At(i)' < (At(cmdProducer))'
        PROVE  desc'[i] # xskb'
    <3>1. /\ Ahead(i) /\ desc'[i] = desc[i] /\ xpc = "filled" /\ xskb' = xskb
          /\ At(i) < At(cmdProducer)
      BY <1>1, <2>3 DEF Shrinks
    <3> QED BY <3>1 DEF FlightTrue
  <2> QED BY <2>1, <2>2, <2>3 DEF FlightTrue
<1>2. ASSUME NEW s \in Skbs, NEW n \in FragDescs, NEW h \in HeaderDescs, XmitStart(s, n, h)
      PROVE  FlightTrue'
  <2> DEFINE len == n + h
             p == cmdProducer
  <2>1. /\ s \notin taken /\ taken' = taken \cup {s} /\ xpc' = "filled" /\ xskb' = s
        /\ Top = p /\ len \in Nat \ {0} /\ At(p) + len < MaxTxDescCount
        /\ Top' = Advance(p, len)
        /\ desc' = Written(p, [k \in 1 .. len |-> IF k = 1 THEN s ELSE Cont])
        /\ buf' = [buf EXCEPT ![p] = s]
        /\ UNCHANGED <<lastCmdConsumer, cmdConsumer, cmdProducer>>
    BY <1>2, XmitStartIs
  <2>2. p \in Slots /\ At(p) \in Nat
    BY AtIs DEF IInv, TypeOK
  <2> HIDE DEF len, p
  <2>3. \A i \in Slots : /\ At(i)' = At(i) /\ At(i) \in Nat
                         /\ Dist(p, i) \in Nat
                         /\ Dist(p, i) < len <=> At(p) <= At(i) /\ At(i) < At(p) + len
                         /\ At(p) <= At(i) => Dist(p, i) = At(i) - At(p)
    <3>1. \A i \in Slots : At(i)' = At(i)
      BY <2>1 DEF At
    <3> QED BY <2>1, <2>2, <3>1, AtIs, RangeIs
  <2>4. (At(Top))' = At(p) + len /\ (At(cmdConsumer))' = At(cmdConsumer) /\ (At(cmdProducer))' = At(p)
    <3>1. lastCmdConsumer \in Slots
      BY DEF IInv, TypeOK
    <3>2. (At(Top))' = At(p) + len
      BY <2>1, <2>2, <3>1, DistAdvance DEF At
    <3> QED BY <2>1, <3>2 DEF At, p
  <2>5. \A i \in Slots : Ahead(i)' => \/ At(i) < At(p) /\ Ahead(i)
                                      \/ At(p) <= At(i) /\ At(i) < At(p) + len
    BY <2>1, <2>2, <2>3, <2>4 DEF Ahead
  <2>6. \A i \in Slots : At(i) < At(p) => desc'[i] = desc[i]
    <3> SUFFICES ASSUME NEW i \in Slots, At(i) < At(p) PROVE desc'[i] = desc[i]
      OBVIOUS
    <3>1. ~(Dist(p, i) < len)
      BY <2>2, <2>3
    <3>2. Len([k \in 1 .. len |-> IF k = 1 THEN s ELSE Cont]) = len
      BY <2>1
    <3> QED BY <2>1, <3>1, <3>2 DEF Written
  <2>7. \A i \in Slots : At(p) <= At(i) /\ At(i) < At(p) + len =>
          desc'[i] = IF i = p THEN s ELSE Cont
    <3> SUFFICES ASSUME NEW i \in Slots, At(p) <= At(i), At(i) < At(p) + len
                 PROVE  desc'[i] = IF i = p THEN s ELSE Cont
      OBVIOUS
    <3>1. Dist(p, i) < len /\ Dist(p, i) \in Nat /\ Dist(p, i) = At(i) - At(p)
      BY <2>3
    <3>2. Len([k \in 1 .. len |-> IF k = 1 THEN s ELSE Cont]) = len
      BY <2>1
    <3>3. Dist(p, i) + 1 \in 1 .. len
      BY <2>1, <3>1
    <3>4. desc'[i] = IF Dist(p, i) + 1 = 1 THEN s ELSE Cont
      BY <2>1, <3>1, <3>2, <3>3 DEF Written
    <3>5. Dist(p, i) = 0 <=> i = p
      BY <2>2, <2>3, <3>1, AtIs
    <3> QED BY <3>1, <3>4, <3>5
  <2>8. \A j \in Slots : buf'[j] = IF j = p THEN s ELSE buf[j]
    BY <1>0, <2>1
  <2>9. \A j \in Slots : buf[j] # s
    BY <1>0, <2>1 DEF FlightTrue
  <2>10. Cont \notin Skbs
    BY DescAssumption
  <2>11. ASSUME NEW i \in Slots, Ahead(i)', desc'[i] \in Skbs
         PROVE  desc'[i] \in taken' /\ \A j \in Slots : buf'[j] = desc'[i] => j = i
    <3>1. CASE At(i) < At(p) /\ Ahead(i)
      <4>1. desc'[i] = desc[i]
        BY <2>6, <3>1
      <4>2. desc[i] \in taken /\ \A j \in Slots : buf[j] = desc[i] => j = i
        BY <2>11, <3>1, <4>1 DEF FlightTrue
      <4>3. desc[i] # s
        BY <2>1, <4>2
      <4> QED BY <2>1, <2>8, <4>1, <4>2, <4>3
    <3>2. CASE At(p) <= At(i) /\ At(i) < At(p) + len
      <4>1. i = p /\ desc'[i] = s
        BY <2>7, <2>10, <2>11, <3>2
      <4> QED BY <2>1, <2>8, <2>9, <4>1
    <3> QED BY <2>5, <2>11, <3>1, <3>2
  <2>12. \A i \in Slots : Ahead(i)' /\ At(i)' < (At(cmdProducer))' => desc'[i] # xskb'
    <3> SUFFICES ASSUME NEW i \in Slots, Ahead(i)', At(i)' < (At(cmdProducer))'
                 PROVE  desc'[i] # s
      BY <2>1
    <3>1. At(i) < At(p) /\ ~(At(p) <= At(i))
      BY <2>2, <2>3, <2>4
    <3>2. Ahead(i) /\ desc'[i] = desc[i]
      BY <2>5, <2>6, <3>1
    <3> QED BY <2>1, <3>2 DEF FlightTrue
  <2>13. \A j \in Slots : buf'[j] # None => buf'[j] \in taken'
    BY <2>1, <2>8 DEF FlightTrue
  <2> QED BY <2>11, <2>12, <2>13 DEF FlightTrue
<1>3. ASSUME NEW seq \in Seq(Commands), Puts(seq) PROVE FlightTrue'
  <2>1. /\ taken' = taken /\ xpc' # "filled"
        /\ \A i \in Slots : Ahead(i)' => \/ Ahead(i)
                                         \/ At(Top) <= At(i) /\ At(i) < At(Top) + Len(seq)
        /\ \A i \in Slots : At(i) < At(Top) => desc'[i] = desc[i]
        /\ \A i \in Slots : At(Top) <= At(i) /\ At(i) < At(Top) + Len(seq) => desc'[i] \in Commands
        /\ \A i \in Slots : buf'[i] \in {buf[i], None}
    BY <1>3, PutsIs DEF Puts
  <2>2. Commands \cap Skbs = {}
    BY DescAssumption DEF Commands
  <2>3. ASSUME NEW i \in Slots, Ahead(i)', desc'[i] \in Skbs
        PROVE  Ahead(i) /\ desc'[i] = desc[i] /\ desc[i] # None
    BY <1>0, <2>1, <2>2, <2>3 DEF Ahead
  <2>4. ASSUME NEW i \in Slots, Ahead(i)', desc'[i] \in Skbs
        PROVE  desc'[i] \in taken' /\ \A j \in Slots : buf'[j] = desc'[i] => j = i
    BY <2>1, <2>3, <2>4 DEF FlightTrue
  <2>5. \A i \in Slots : buf'[i] # None => buf'[i] \in taken'
    BY <2>1 DEF FlightTrue
  <2> QED BY <2>1, <2>4, <2>5 DEF FlightTrue
<1> QED BY <1>1, <1>2, <1>3, ShrinksStep

LEMMA InFlightIs ==
  ASSUME IInv, NEW i \in InFlight
  PROVE  i \in Slots /\ Ahead(i) /\ At(i) < At(cmdProducer)
<1>1. i \in Slots /\ Dist(cmdConsumer, i) < Dist(cmdConsumer, cmdProducer)
  BY DEF InFlight
<1>2. /\ {cmdConsumer, cmdProducer, Top, BufTop} \subseteq Slots
      /\ At(cmdConsumer) <= At(cmdProducer) /\ At(cmdProducer) <= At(BufTop)
      /\ At(BufTop) <= At(Top)
  BY Places
<1>3. /\ At(cmdConsumer) \in Nat /\ At(cmdProducer) \in Nat /\ At(i) \in Nat
      /\ At(BufTop) \in Nat /\ At(Top) \in Nat
  BY <1>1, <1>2, AtIs
<1>4. Dist(cmdConsumer, cmdProducer) = At(cmdProducer) - At(cmdConsumer)
  BY <1>2, ShiftIs
<1>5. At(cmdConsumer) <= At(i) /\ At(i) < At(cmdProducer)
  <2> DEFINE n == At(cmdProducer) - At(cmdConsumer)
  <2>1. n \in Nat /\ Dist(cmdConsumer, i) < n
    BY <1>1, <1>2, <1>3, <1>4
  <2>2. At(cmdConsumer) + n = At(cmdProducer)
    BY <1>3
  <2>3. At(cmdConsumer) + n < MaxTxDescCount
    BY <1>2, <2>2, AtIs
  <2> HIDE DEF n
  <2>4. At(cmdConsumer) <= At(i) /\ At(i) < At(cmdConsumer) + n
    BY <1>1, <1>2, <2>1, <2>3, RangeIs
  <2> QED BY <2>2, <2>4
<1> QED BY <1>1, <1>2, <1>3, <1>5 DEF Ahead

\* Only these steps free a packet.
LEMMA WhoFrees ==
  ASSUME ~raced', IInv, [Next]_vars, running', NEW s \in Skbs, frees'[s] > frees[s]
  PROVE  \/ s \notin taken
         \/ xpc = "filled" /\ s = xskb
         \/ \E c \in Cpus : PollReap(c) /\ buf[rlast] = s
<1>0. frees \in [Skbs -> Nat] /\ buf \in [Slots -> Skbs \cup {None}] /\ rlast \in Slots
  BY DEF IInv, TypeOK
<1>1. frees' # frees
  BY <1>0
<1>2. Quiet \/ Loud
  BY QuietStep
<1>3. ~Quiet
  BY <1>1 DEF Quiet
<1>4. ASSUME NEW x \in Skbs, XmitPullFail(x) \/ XmitNoCarrier(x) PROVE s \notin taken
  <2>1. x \notin taken /\ frees' = [frees EXCEPT ![x] = @ + 1]
    BY <1>4, PullIs
  <2>2. s = x
    BY <1>0, <2>1
  <2> QED BY <2>1, <2>2
<1>5. ASSUME NEW x \in Skbs, NEW n \in FragDescs, NEW h \in HeaderDescs, XmitStart(x, n, h)
      PROVE  FALSE
  BY <1>1, <1>5, XmitStartIs
<1>6. CASE XmitMapFail
  <2>1. frees' = [frees EXCEPT ![xskb] = @ + 1] /\ xpc = "filled"
    BY <1>6, MapFailIs
  <2>2. s = xskb
    BY <1>0, <2>1
  <2> QED BY <2>1, <2>2
<1>7. ASSUME NEW t \in Senders, SendQueue(t) PROVE FALSE
  BY <1>1, <1>7 DEF SendQueue, skbVars
<1>8. ASSUME NEW t \in Senders, NEW n \in MessageSizes, SendDirect(t, n) PROVE FALSE
  BY <1>1, <1>8, SendDirectIs DEF Puts
<1>9. ASSUME NEW c \in Cpus, PollReap(c) PROVE buf[rlast] = s
  <2>1. frees' = IF buf[rlast] = None THEN frees ELSE [frees EXCEPT ![buf[rlast]] = @ + 1]
    BY <1>9, ReapIs
  <2>2. buf[rlast] # None
    BY <1>1, <2>1
  <2>3. buf[rlast] \in Skbs /\ frees' = [frees EXCEPT ![buf[rlast]] = @ + 1]
    BY <1>0, <2>1, <2>2
  <2> QED BY <1>0, <2>3
<1>10. ASSUME NEW c \in Cpus, PollCommit(c) PROVE FALSE
  BY <1>1, <1>10, CommitIs
<1>11. ASSUME NEW c \in Cpus, DrainBlock(c) PROVE FALSE
  BY <1>1, <1>11, DrainIs DEF Puts
<1>12. CASE CardComplete
  BY <1>1, <1>12, CardIs
<1>13. CASE Close
  BY <1>13, CloseIs
<1> QED BY <1>2, <1>3, <1>4, <1>5, <1>6, <1>7, <1>8, <1>9, <1>10, <1>11, <1>12, <1>13 DEF Loud

LEMMA FreedIsDone ==
  ASSUME ~raced', IInv, FlightTrue, [Next]_vars, running',
         NEW s \in Skbs, frees'[s] > frees[s], NEW i \in InFlight
  PROVE  desc[i] # s
<1>1. i \in Slots /\ Ahead(i) /\ At(i) < At(cmdProducer)
  BY InFlightIs
<1>2. CASE s \notin taken
  BY <1>1, <1>2 DEF FlightTrue
<1>3. CASE xpc = "filled" /\ s = xskb
  BY <1>1, <1>3 DEF FlightTrue
<1>4. ASSUME NEW c \in Cpus, PollReap(c), buf[rlast] = s PROVE desc[i] # s
  <2>1. rlast \in Slots /\ At(rlast) < At(cmdConsumer)
    BY <1>4, ReapIs
  <2>2. rlast # i
    <3>1. At(cmdConsumer) <= At(i)
      BY <1>1 DEF Ahead
    <3>2. At(i) \in Nat /\ At(cmdConsumer) \in Nat /\ At(rlast) \in Nat
      BY <1>1, <2>1, Places, AtIs
    <3>3. At(rlast) # At(i)
      BY <2>1, <3>1, <3>2
    <3> QED BY <3>3
  <2> QED BY <1>1, <1>4, <2>1, <2>2 DEF FlightTrue
<1> QED BY <1>2, <1>3, <1>4, WhoFrees

\* While the interface is up no packet is freed that the card has still to read: the
\* reaper frees only what the card has executed, and the transmit path what it never
\* published.
THEOREM NothingFreedInFlight == Spec => NoFreeInFlight
<1>1. Init => FlightTrue
  <2> SUFFICES ASSUME Init PROVE FlightTrue
    OBVIOUS
  <2>1. /\ \A i \in Slots : buf[i] = None /\ desc[i] = Unused
        /\ xpc = "idle"
    BY DEF Init
  <2>2. Unused \notin Skbs
    BY DescAssumption
  <2> QED BY <2>1, <2>2 DEF FlightTrue
<1>2. /\ raced \/ (IInv /\ FlightTrue)
      /\ [Next]_vars
      => raced' \/ (IInv' /\ FlightTrue')
  BY FlightStep, QuietStep, Inductive, RacedStays
<1>3. /\ raced \/ (IInv /\ FlightTrue)
      /\ [Next]_vars
      => [running /\ running' /\ ~raced' =>
            \A s \in Skbs : frees'[s] > frees[s] =>
              \A i \in InFlight : desc[i] # s]_vars
  BY FreedIsDone, RacedStays
<1> QED BY <1>1, <1>2, <1>3, InitInv, PTL DEF Spec, NoFreeInFlight

-----------------------------------------------------------------------------
(* Every packet is accounted for.                                          *)

\* Only a mapping that fails and a close mark a packet.
LEMMA MarksStay ==
  ASSUME [Next]_vars, ~XmitMapFail, ~Close
  PROVE  UNCHANGED <<unmapped, refreed>>
BY DEF Next, XmitBegins, XmitGoesOn, SendBegins, SendGoesOn, PollGoesOn,
   XmitPullFail, XmitNoCarrier, XmitStart, XmitNoRoom,
   XmitPublish, XmitRequeue, SendDirect, SendReserve, SendPublish, SendQueue,
   PollStart, PollAgain, PollMissed, PollTxBusy, PollTxBegin, PollReap,
   PollTxNothing, PollCommit, PollNoWake, PollSeesStopped, PollWake,
   PollComplete, PollPendBusy, PollPendTry, PollNoPending, DrainBegin,
   DrainBlock, DrainEnd, CardComplete, LinkDown, LinkUp, TxTimeout,
   TxTimeoutTask, Open, vars, histVars

\* What a buffer holds, in terms of the sets of packets.
LEMMA BuffersHold ==
  ASSUME IInv, PacketsPlaced, NEW i \in Slots, buf[i] # None
  PROVE  /\ buf[i] \in taken /\ buf[i] \in Skbs /\ buf[i] \notin refreed
         /\ Held(i) \/ Left(i)
         /\ Held(i) => buf[i] \notin unmapped /\ i # BufTop
<1>1. buf[i] \in taken /\ buf[i] \in Skbs /\ (Held(i) \/ Left(i))
  BY DEF IInv, TypeOK, PacketsPlaced
<1>2. buf[i] \notin refreed
  BY <1>1 DEF PacketsPlaced, Held, Left
<1>3. Held(i) => buf[i] \notin unmapped
  BY <1>1 DEF PacketsPlaced, Held
<1>4. Held(i) => i # BufTop
  <2>1. At(i) \in Nat
    BY AtIs
  <2> QED BY <2>1 DEF Held
<1> QED BY <1>1, <1>2, <1>3, <1>4

\* Packets stay where they are, or one that was left in its buffer is forgotten there.
LEMMA PlacesKept ==
  ASSUME IInv, PacketsPlaced, UNCHANGED <<frees, taken, unmapped, refreed>>,
         xpc' = "filled" => xpc = "filled" /\ UNCHANGED <<xskb, cmdProducer>>,
         \A i \in Slots : buf'[i] = buf[i] \/ (buf'[i] = None /\ Left(i)),
         \A i \in Slots : Held(i) =>
           /\ (At(Reaped))' <= At(i)' /\ At(i)' < (At(BufTop))'
           /\ xpc' = "filled" /\ At(i) < At(cmdProducer) => At(i)' < (At(cmdProducer))',
         \A i \in Slots : Left(i) /\ buf'[i] # None => i = Top' /\ i = BufTop'
  PROVE  PacketsPlaced'
<1>0. None \notin Skbs /\ taken \subseteq Skbs /\ cmdProducer \in Slots
  BY ThreadAssumption DEF IInv, TypeOK
<1>1. ASSUME NEW i \in Slots, buf'[i] # None
      PROVE  buf'[i] \in taken' /\ (Held(i)' \/ Left(i)')
  <2>1. buf'[i] = buf[i] /\ buf[i] \in taken /\ (Held(i) \/ Left(i))
    BY <1>1, BuffersHold
  <2>2. CASE Held(i)
    <3>1. Held(i)'
      BY <2>1, <2>2 DEF Held
    <3> QED BY <2>1, <3>1
  <2>3. CASE Left(i)
    <3>1. Left(i)'
      BY <1>1, <2>1, <2>3 DEF Left
    <3> QED BY <2>1, <3>1
  <2> QED BY <2>1, <2>2, <2>3
<1>2. \A i, j \in Slots : buf'[i] = buf'[j] /\ buf'[i] # None => i = j
  BY DEF PacketsPlaced
<1>3. ASSUME NEW s \in taken'
      PROVE  \/ frees'[s] = IF s \in refreed' THEN 2 ELSE 1
             \/ frees'[s] = 0 /\ s \notin refreed' /\ \E i \in Slots : buf'[i] = s
  <2>1. CASE frees[s] # 0
    BY <1>3, <2>1 DEF PacketsPlaced
  <2>2. CASE frees[s] = 0
    <3>1. PICK i \in Slots : buf[i] = s
      BY <1>3, <2>2 DEF PacketsPlaced
    <3>2. s \notin refreed /\ buf'[i] = s
      BY <1>0, <1>3, <2>2, <3>1 DEF PacketsPlaced, Left
    <3> QED BY <2>2, <3>2
  <2> QED BY <2>1, <2>2
<1>4. \A s \in Skbs \ taken' : frees'[s] = 0 /\ s \notin unmapped' /\ s \notin refreed'
  BY DEF PacketsPlaced
<1>5. xpc' = "filled" => buf'[cmdProducer'] = xskb' /\ frees'[xskb'] = 0
  BY <1>0 DEF PacketsPlaced, Left
<1>6. \A s \in unmapped' : frees'[s] # 0
  BY DEF PacketsPlaced
<1> QED BY <1>1, <1>2, <1>3, <1>4, <1>5, <1>6 DEF PacketsPlaced

LEMMA PlacesStart ==
  ASSUME IInv, PacketsPlaced, [Next]_vars,
         NEW s \in Skbs, NEW n \in FragDescs, NEW h \in HeaderDescs, XmitStart(s, n, h)
  PROVE  PacketsPlaced'
<1> DEFINE len == n + h
           p == cmdProducer
<1>1. /\ s \notin taken /\ taken' = taken \cup {s} /\ xpc' = "filled" /\ xskb' = s
      /\ Top = p /\ BufTop = p /\ len \in Nat \ {0} /\ At(p) + len < MaxTxDescCount
      /\ BufTop' = Advance(p, len) /\ Reaped' = Reaped
      /\ buf' = [buf EXCEPT ![p] = s]
      /\ UNCHANGED <<lastCmdConsumer, cmdConsumer, cmdProducer, frees>>
  BY XmitStartIs
<1>2. /\ p \in Slots /\ At(p) \in Nat /\ lastCmdConsumer \in Slots
      /\ buf \in [Slots -> Skbs \cup {None}] /\ s # None /\ taken \subseteq Skbs
      /\ Reaped \in Slots /\ At(Reaped) \in Nat /\ At(Reaped) <= At(cmdConsumer)
      /\ At(cmdConsumer) <= At(p) /\ At(cmdConsumer) \in Nat
  BY AtIs, Places, ThreadAssumption DEF IInv, TypeOK
<1>m. UNCHANGED <<unmapped, refreed>>
  BY DEF XmitStart, histVars
<1> HIDE DEF len, p
<1>3. \A i \in Slots : At(i)' = At(i) /\ At(i) \in Nat
  BY <1>1, AtIs DEF At
<1>4. /\ (At(BufTop))' = At(p) + len /\ (At(Reaped))' = At(Reaped) /\ At(Reaped) <= At(p)
      /\ (At(cmdProducer))' = At(p)
  <2>1. At(Advance(p, len)) = At(p) + len
    BY <1>1, <1>2, DistAdvance DEF At
  <2>2. /\ (At(BufTop))' = At(Advance(p, len)) /\ (At(Reaped))' = At(Reaped)
        /\ (At(cmdProducer))' = At(p)
    BY <1>1 DEF At, p
  <2> QED BY <1>2, <2>1, <2>2
<1>5. \A j \in Slots : buf'[j] = IF j = p THEN s ELSE buf[j]
  BY <1>1, <1>2
<1>6. \A j \in Slots : buf[j] # s
  BY <1>1, <1>2 DEF PacketsPlaced
<1>8. frees[s] = 0 /\ s \notin unmapped /\ s \notin refreed
  BY <1>1 DEF PacketsPlaced
<1>9. ASSUME NEW i \in Slots, buf'[i] # None
      PROVE  buf'[i] \in taken' /\ Held(i)'
  <2>1. CASE i = p
    <3>1. buf'[i] = s /\ frees'[s] = 0 /\ i = cmdProducer'
      BY <1>1, <1>2, <1>5, <1>8, <2>1 DEF p
    <3>2. (At(Reaped))' <= At(i)' /\ At(i)' < (At(BufTop))'
      BY <1>1, <1>2, <1>3, <1>4, <2>1
    <3> QED BY <1>1, <3>1, <3>2 DEF Held
  <2>2. CASE i # p
    <3>1. buf'[i] = buf[i] /\ buf[i] # None
      BY <1>5, <1>9, <2>2
    <3>2. buf[i] \in taken /\ Held(i)
      BY <1>1, <2>2, <3>1, BuffersHold DEF Left
    <3>3. frees[buf[i]] = 0 /\ At(Reaped) <= At(i) /\ At(i) < At(p)
      BY <1>1, <3>2 DEF Held
    <3>4. At(i) < At(p) + len
      BY <1>1, <1>2, <1>3, <3>3
    <3> QED BY <1>1, <1>3, <1>4, <3>1, <3>2, <3>3, <3>4 DEF Held
  <2> QED BY <2>1, <2>2
<1>10. ASSUME NEW i \in Slots, NEW j \in Slots, buf'[i] = buf'[j], buf'[i] # None
       PROVE  i = j
  BY <1>5, <1>6, <1>10 DEF PacketsPlaced
<1>11. ASSUME NEW x \in taken'
       PROVE  \/ frees'[x] = IF x \in refreed' THEN 2 ELSE 1
              \/ frees'[x] = 0 /\ x \notin refreed' /\ \E i \in Slots : buf'[i] = x
  <2>1. CASE x = s
    BY <1>1, <1>2, <1>5, <1>8, <1>m, <2>1
  <2>2. CASE x # s
    <3>1. x \in taken
      BY <1>1, <1>11, <2>2
    <3>2. CASE frees[x] # 0
      BY <1>1, <1>m, <3>1, <3>2 DEF PacketsPlaced
    <3>3. CASE frees[x] = 0
      <4>1. x \notin refreed
        BY <3>1, <3>3 DEF PacketsPlaced
      <4>2. PICK i \in Slots : buf[i] = x
        BY <3>1, <3>3 DEF PacketsPlaced
      <4>3. x # None
        BY <1>2, <3>1, ThreadAssumption
      <4>4. i # p
        BY <1>1, <3>3, <4>2, <4>3, BuffersHold DEF Held, Left
      <4>5. buf'[i] = x
        BY <1>5, <4>2, <4>4
      <4> QED BY <1>1, <1>m, <3>3, <4>1, <4>5
    <3> QED BY <3>2, <3>3
  <2> QED BY <2>1, <2>2
<1>12. \A x \in Skbs \ taken' : frees'[x] = 0 /\ x \notin unmapped' /\ x \notin refreed'
  BY <1>1, <1>m DEF PacketsPlaced
<1>13. buf'[cmdProducer'] = xskb' /\ frees'[xskb'] = 0
  BY <1>1, <1>2, <1>5, <1>8 DEF p
<1>14. \A x \in unmapped' : frees'[x] # 0
  BY <1>1, <1>m DEF PacketsPlaced
<1> QED BY <1>9, <1>10, <1>11, <1>12, <1>13, <1>14 DEF PacketsPlaced

LEMMA PlacesReap ==
  ASSUME ~raced', IInv, PacketsPlaced, [Next]_vars, NEW c \in Cpus, PollReap(c)
  PROVE  PacketsPlaced'
<1>1. /\ rlast \in Slots /\ Reaped = rlast /\ (At(Reaped))' = At(rlast) + 1
      /\ At(rlast) < At(cmdConsumer)
      /\ frees' = IF buf[rlast] = None THEN frees ELSE [frees EXCEPT ![buf[rlast]] = @ + 1]
      /\ buf' = [buf EXCEPT ![rlast] = None] /\ taken' = taken
  BY ReapIs
<1>2. RingStays /\ BufTop' = BufTop /\ UNCHANGED <<unmapped, refreed>>
  BY OffRing DEF PollReap, histVars
<1>3. /\ buf \in [Slots -> Skbs \cup {None}] /\ frees \in [Skbs -> Nat] /\ None \notin Skbs
      /\ taken \subseteq Skbs /\ cmdProducer \in Slots
  BY ThreadAssumption DEF IInv, TypeOK
<1>4. /\ \A i \in Slots : At(i)' = At(i) /\ At(i) \in Nat
      /\ (At(BufTop))' = At(BufTop)
      /\ xpc' = "filled" => (At(cmdProducer))' = At(cmdProducer)
  BY <1>2, AtIs DEF At, RingStays
<1>r. rlast # cmdProducer /\ rlast # BufTop
  <2>1. /\ {cmdConsumer, cmdProducer, BufTop} \subseteq Slots
        /\ At(cmdConsumer) <= At(cmdProducer) /\ At(cmdProducer) <= At(BufTop)
    BY Places
  <2>2. /\ At(cmdConsumer) \in Nat /\ At(cmdProducer) \in Nat /\ At(BufTop) \in Nat
        /\ At(rlast) \in Nat
    BY <1>1, <2>1, AtIs
  <2>3. At(rlast) < At(cmdProducer) /\ At(rlast) < At(BufTop)
    BY <1>1, <2>1, <2>2
  <2> QED BY <2>2, <2>3
<1>5. \A i \in Slots : buf'[i] = IF i = rlast THEN None ELSE buf[i]
  BY <1>1, <1>3
<1>6. \A s \in Skbs : frees'[s] = IF buf[rlast] = s THEN frees[s] + 1 ELSE frees[s]
  BY <1>1, <1>3
<1>h. buf[rlast] # None => frees[buf[rlast]] = 0 /\ buf[rlast] \notin refreed
  BY <1>1, <1>r, BuffersHold DEF Held, Left
<1>7. ASSUME NEW i \in Slots, buf'[i] # None
      PROVE  buf'[i] \in taken' /\ (Held(i)' \/ Left(i)')
  <2>1. i # rlast /\ buf'[i] = buf[i] /\ buf[i] # None
    BY <1>5, <1>7
  <2>2. buf[i] \in taken /\ buf[i] \in Skbs /\ (Held(i) \/ Left(i))
    BY <2>1, BuffersHold
  <2>3. buf[rlast] # buf[i]
    BY <1>1, <2>1 DEF PacketsPlaced
  <2>4. frees'[buf[i]] = frees[buf[i]]
    BY <1>6, <2>2, <2>3
  <2>5. CASE Held(i)
    <3>1. At(rlast) # At(i)
      BY <1>1, <2>1, AtIs
    <3>2. (At(Reaped))' <= At(i)' /\ At(i)' < (At(BufTop))'
      BY <1>1, <1>4, <2>5, <3>1 DEF Held
    <3>3. xpc' = "filled" => i = cmdProducer' \/ At(i)' < (At(cmdProducer))'
      BY <1>2, <1>4, <2>5 DEF Held, RingStays
    <3>4. frees'[buf'[i]] = 0
      BY <2>1, <2>4, <2>5 DEF Held
    <3>5. Held(i)'
      BY <3>2, <3>3, <3>4 DEF Held
    <3> QED BY <1>1, <2>1, <2>2, <3>5
  <2>6. CASE Left(i)
    <3>1. Left(i)'
      BY <1>2, <2>1, <2>4, <2>6 DEF Left, RingStays
    <3> QED BY <1>1, <2>1, <2>2, <3>1
  <2> QED BY <2>2, <2>5, <2>6
<1>8. ASSUME NEW i \in Slots, NEW j \in Slots, buf'[i] = buf'[j], buf'[i] # None
      PROVE  i = j
  BY <1>5, <1>8 DEF PacketsPlaced
<1>9. ASSUME NEW s \in taken'
      PROVE  \/ frees'[s] = IF s \in refreed' THEN 2 ELSE 1
             \/ frees'[s] = 0 /\ s \notin refreed' /\ \E i \in Slots : buf'[i] = s
  <2>1. s \in taken /\ s \in Skbs
    BY <1>1, <1>3, <1>9
  <2>2. CASE buf[rlast] = s
    BY <1>2, <1>3, <1>6, <1>h, <2>1, <2>2
  <2>3. CASE buf[rlast] # s
    <3>1. frees'[s] = frees[s]
      BY <1>6, <2>1, <2>3
    <3>2. CASE frees[s] = 0
      <4>1. s \notin refreed
        BY <2>1, <3>2 DEF PacketsPlaced
      <4>2. PICK i \in Slots : buf[i] = s
        BY <2>1, <3>2 DEF PacketsPlaced
      <4>3. buf'[i] = s
        BY <1>5, <2>3, <4>2
      <4> QED BY <1>2, <3>1, <3>2, <4>1, <4>3
    <3>3. CASE frees[s] # 0
      BY <1>2, <2>1, <3>1, <3>3 DEF PacketsPlaced
    <3> QED BY <3>2, <3>3
  <2> QED BY <2>2, <2>3
<1>10. ASSUME NEW s \in Skbs \ taken' PROVE frees'[s] = 0 /\ s \notin unmapped' /\ s \notin refreed'
  <2>1. s \notin taken /\ frees[s] = 0 /\ s \notin unmapped /\ s \notin refreed
    BY <1>1, <1>10 DEF PacketsPlaced
  <2>2. buf[rlast] # s
    BY <1>1, <1>3, <2>1 DEF PacketsPlaced
  <2> QED BY <1>2, <1>6, <2>1, <2>2
<1>11. xpc' = "filled" => buf'[cmdProducer'] = xskb' /\ frees'[xskb'] = 0
  <2> SUFFICES ASSUME xpc' = "filled" PROVE buf'[cmdProducer'] = xskb' /\ frees'[xskb'] = 0
    OBVIOUS
  <2>1. xpc = "filled" /\ xskb' = xskb /\ cmdProducer' = cmdProducer /\ xskb \in Skbs
    BY <1>2 DEF RingStays, IInv, TypeOK
  <2>2. buf[cmdProducer] = xskb /\ frees[xskb] = 0
    BY <2>1 DEF PacketsPlaced
  <2>3. buf[rlast] # xskb
    BY <1>1, <1>3, <1>r, <2>1, <2>2 DEF PacketsPlaced
  <2> QED BY <1>3, <1>5, <1>6, <1>r, <2>1, <2>2, <2>3
<1>12. \A s \in unmapped' : frees'[s] # 0
  <2>1. unmapped \subseteq Skbs /\ \A s \in unmapped : frees[s] # 0
    BY DEF IInv, TypeOK, PacketsPlaced
  <2> QED BY <1>2, <1>3, <1>6, <2>1
<1> QED BY <1>7, <1>8, <1>9, <1>10, <1>11, <1>12 DEF PacketsPlaced

LEMMA PlacesClose ==
  ASSUME IInv, PacketsPlaced, Close
  PROVE  PacketsPlaced'
<1>1. /\ frees' = [s \in Skbs |-> frees[s] + Cardinality({i \in Slots : buf[i] = s})]
      /\ \A i \in Slots : buf'[i] = None
      /\ taken' = taken /\ taken \subseteq Skbs /\ None \notin Skbs
      /\ unmapped' = unmapped /\ unmapped \subseteq Skbs /\ xpc' = "idle"
      /\ refreed' = refreed \cup {s \in unmapped : \E i \in Slots : buf[i] = s}
  BY CloseIs, ThreadAssumption DEF IInv, TypeOK, Close, xmitVars
<1>2. ASSUME NEW s \in Skbs, \A i \in Slots : buf[i] # s
      PROVE  frees'[s] = frees[s] /\ (s \in refreed' <=> s \in refreed)
  <2>1. {i \in Slots : buf[i] = s} = {}
    BY <1>2
  <2>2. Cardinality({i \in Slots : buf[i] = s}) = 0
    BY <2>1, FS_EmptySet
  <2> QED BY <1>1, <1>2, <2>2 DEF IInv, TypeOK
<1>3. ASSUME NEW s \in Skbs, NEW i \in Slots, buf[i] = s
      PROVE  frees'[s] = (IF s \in refreed' THEN 2 ELSE 1) /\ s \in taken
  <2>1. s # None
    BY <1>1
  <2>2. /\ s \in taken /\ s \notin refreed /\ (Held(i) \/ Left(i))
        /\ Held(i) => s \notin unmapped
    BY <1>3, <2>1, BuffersHold
  <2>3. {j \in Slots : buf[j] = s} = {i}
    BY <1>3, <2>1 DEF PacketsPlaced
  <2>4. Cardinality({j \in Slots : buf[j] = s}) = 1
    BY <2>3, FS_Singleton
  <2>5. frees'[s] = frees[s] + 1 /\ (s \in refreed' <=> s \in unmapped)
    BY <1>1, <1>3, <2>2, <2>4
  <2>6. CASE Held(i)
    BY <1>3, <2>2, <2>5, <2>6 DEF Held
  <2>7. CASE Left(i)
    BY <1>3, <2>2, <2>5, <2>7 DEF Left
  <2> QED BY <2>2, <2>6, <2>7
<1>4. ASSUME NEW s \in taken' PROVE frees'[s] = IF s \in refreed' THEN 2 ELSE 1
  <2>1. s \in taken /\ s \in Skbs
    BY <1>1, <1>4
  <2>2. CASE \E i \in Slots : buf[i] = s
    BY <1>3, <2>1, <2>2
  <2>3. CASE \A i \in Slots : buf[i] # s
    <3>1. frees[s] = IF s \in refreed THEN 2 ELSE 1
      BY <2>1, <2>3 DEF PacketsPlaced
    <3> QED BY <1>2, <2>1, <2>3, <3>1
  <2> QED BY <2>2, <2>3
<1>5. ASSUME NEW s \in Skbs \ taken' PROVE frees'[s] = 0 /\ s \notin unmapped' /\ s \notin refreed'
  <2>1. s \notin taken /\ frees[s] = 0 /\ s \notin unmapped /\ s \notin refreed
    BY <1>1, <1>5 DEF PacketsPlaced
  <2>2. \A i \in Slots : buf[i] # s
    BY <1>3, <2>1
  <2> QED BY <1>1, <1>2, <2>1, <2>2
<1>6. ASSUME NEW s \in unmapped' PROVE frees'[s] # 0
  <2>1. s \in taken'
    BY <1>1, <1>5, <1>6
  <2> QED BY <1>4, <2>1
<1>7. \A i \in Slots : buf'[i] # None => buf'[i] \in taken' /\ (Held(i) \/ Left(i))'
  BY <1>1
<1>8. \A i, j \in Slots : buf'[i] = buf'[j] /\ buf'[i] # None => i = j
  BY <1>1
<1>9. xpc' # "filled"
  BY <1>1
<1>10. /\ \A s \in taken' : frees'[s] = IF s \in refreed' THEN 2 ELSE 1
       /\ \A s \in Skbs \ taken' : frees'[s] = 0 /\ s \notin unmapped' /\ s \notin refreed'
       /\ \A s \in unmapped' : frees'[s] # 0
  BY <1>4, <1>5, <1>6
<1> QED BY <1>7, <1>8, <1>9, <1>10 DEF PacketsPlaced

LEMMA PlacesDropped ==
  ASSUME ~raced', IInv, PacketsPlaced, NEW s \in Skbs, XmitPullFail(s) \/ XmitNoCarrier(s)
  PROVE  PacketsPlaced'
<1>1. /\ s \notin taken /\ taken' = taken \cup {s} /\ frees' = [frees EXCEPT ![s] = @ + 1]
      /\ Reaped' = Reaped /\ buf' = buf
  BY PullIs
<1>2. RingStays /\ BufTop' = BufTop /\ UNCHANGED <<unmapped, refreed>> /\ xpc' = "idle"
  BY OffRing DEF XmitPullFail, XmitNoCarrier, CanXmit, xmitVars, histVars
<1>3. /\ \A i \in Slots : At(i)' = At(i)
      /\ (At(BufTop))' = At(BufTop) /\ (At(Reaped))' = At(Reaped)
  BY <1>1, <1>2 DEF At, RingStays
<1>4. frees \in [Skbs -> Nat] /\ taken \subseteq Skbs /\ unmapped \subseteq Skbs
  BY DEF IInv, TypeOK
<1>5. /\ frees[s] = 0 /\ frees'[s] = 1 /\ s \notin unmapped /\ s \notin refreed
      /\ \A x \in Skbs \ {s} : frees'[x] = frees[x]
  BY <1>1, <1>4 DEF PacketsPlaced
<1>6. ASSUME NEW i \in Slots, buf'[i] # None
      PROVE  buf'[i] \in taken' /\ (Held(i)' \/ Left(i)')
  <2>1. buf'[i] = buf[i] /\ buf[i] \in taken /\ buf[i] \in Skbs /\ (Held(i) \/ Left(i))
    BY <1>1, <1>6, BuffersHold
  <2>2. frees'[buf[i]] = frees[buf[i]]
    BY <1>1, <1>5, <2>1
  <2>3. CASE Held(i)
    <3>1. Held(i)'
      BY <1>2, <1>3, <2>1, <2>2, <2>3 DEF Held
    <3> QED BY <1>1, <2>1, <3>1
  <2>4. CASE Left(i)
    <3>1. Left(i)'
      BY <1>2, <2>1, <2>2, <2>4 DEF Left, RingStays
    <3> QED BY <1>1, <2>1, <3>1
  <2> QED BY <2>1, <2>3, <2>4
<1>7. \A i, j \in Slots : buf'[i] = buf'[j] /\ buf'[i] # None => i = j
  BY <1>1 DEF PacketsPlaced
<1>8. ASSUME NEW x \in taken'
      PROVE  \/ frees'[x] = IF x \in refreed' THEN 2 ELSE 1
             \/ frees'[x] = 0 /\ x \notin refreed' /\ \E i \in Slots : buf'[i] = x
  <2>1. CASE x = s
    BY <1>2, <1>5, <2>1
  <2>2. CASE x # s
    <3>1. x \in taken /\ frees'[x] = frees[x]
      BY <1>1, <1>4, <1>5, <1>8, <2>2
    <3> QED BY <1>1, <1>2, <3>1 DEF PacketsPlaced
  <2> QED BY <2>1, <2>2
<1>9. \A x \in Skbs \ taken' : frees'[x] = 0 /\ x \notin unmapped' /\ x \notin refreed'
  BY <1>1, <1>2, <1>5 DEF PacketsPlaced
<1>10. \A x \in unmapped' : frees'[x] # 0
  BY <1>2, <1>4, <1>5 DEF PacketsPlaced
<1> QED BY <1>2, <1>6, <1>7, <1>8, <1>9, <1>10 DEF PacketsPlaced

\* The packet whose mapping fails is freed and left in its buffer.
LEMMA PlacesUnmapped ==
  ASSUME ~raced', IInv, PacketsPlaced, XmitMapFail
  PROVE  PacketsPlaced'
<1>1. /\ frees' = [frees EXCEPT ![xskb] = @ + 1] /\ xpc = "filled" /\ xpc' = "idle"
      /\ Top' = cmdProducer /\ BufTop' = cmdProducer /\ Reaped' = Reaped
      /\ UNCHANGED <<lastCmdConsumer, cmdConsumer, cmdProducer, buf, taken>>
      /\ \A i \in Slots : At(i)' = At(i)
  BY MapFailIs
<1>2. unmapped' = unmapped \cup {xskb} /\ refreed' = refreed
  BY DEF XmitMapFail
<1>3. /\ frees \in [Skbs -> Nat] /\ taken \subseteq Skbs /\ unmapped \subseteq Skbs
      /\ xskb \in Skbs /\ None \notin Skbs /\ cmdProducer \in Slots
  BY <1>1, ThreadAssumption DEF IInv, TypeOK
<1>4. buf[cmdProducer] = xskb /\ frees[xskb] = 0
  BY <1>1 DEF PacketsPlaced
<1>5. xskb \in taken /\ xskb \notin refreed
  BY <1>3, <1>4, BuffersHold
<1>6. frees'[xskb] = 1 /\ \A x \in Skbs \ {xskb} : frees'[x] = frees[x]
  BY <1>1, <1>3, <1>4
<1>7. (At(BufTop))' = At(cmdProducer) /\ (At(Reaped))' = At(Reaped)
  BY <1>1 DEF At
<1>8. ASSUME NEW i \in Slots, buf'[i] # None
      PROVE  buf'[i] \in taken' /\ (Held(i)' \/ Left(i)')
  <2>1. CASE i = cmdProducer
    <3>1. Left(i)'
      BY <1>1, <1>2, <1>4, <1>5, <1>6, <2>1 DEF Left
    <3> QED BY <1>1, <1>4, <1>5, <2>1, <3>1
  <2>2. CASE i # cmdProducer
    <3>1. buf[i] \in taken /\ buf[i] \in Skbs /\ Held(i) /\ buf[i] # xskb
      BY <1>1, <1>3, <1>4, <1>8, <2>2, BuffersHold DEF Left, PacketsPlaced
    <3>2. frees'[buf'[i]] = 0 /\ At(Reaped) <= At(i) /\ At(i) < At(cmdProducer)
      BY <1>1, <1>6, <2>2, <3>1 DEF Held
    <3>3. Held(i)'
      BY <1>1, <1>7, <3>2 DEF Held
    <3> QED BY <1>1, <3>1, <3>3
  <2> QED BY <2>1, <2>2
<1>9. \A i, j \in Slots : buf'[i] = buf'[j] /\ buf'[i] # None => i = j
  BY <1>1 DEF PacketsPlaced
<1>10. ASSUME NEW x \in taken'
       PROVE  \/ frees'[x] = IF x \in refreed' THEN 2 ELSE 1
              \/ frees'[x] = 0 /\ x \notin refreed' /\ \E i \in Slots : buf'[i] = x
  <2>1. CASE x = xskb
    BY <1>2, <1>5, <1>6, <2>1
  <2>2. CASE x # xskb
    <3>1. x \in taken /\ frees'[x] = frees[x]
      BY <1>1, <1>3, <1>6, <1>10, <2>2
    <3> QED BY <1>1, <1>2, <3>1 DEF PacketsPlaced
  <2> QED BY <2>1, <2>2
<1>11. ASSUME NEW x \in Skbs \ taken'
       PROVE  frees'[x] = 0 /\ x \notin unmapped' /\ x \notin refreed'
  <2>1. x \notin taken /\ x # xskb
    BY <1>1, <1>5, <1>11
  <2>2. frees[x] = 0 /\ x \notin unmapped /\ x \notin refreed
    BY <1>11, <2>1 DEF PacketsPlaced
  <2> QED BY <1>2, <1>6, <2>1, <2>2
<1>12. \A x \in unmapped' : frees'[x] # 0
  <2>1. \A x \in unmapped : frees[x] # 0
    BY DEF PacketsPlaced
  <2> QED BY <1>2, <1>3, <1>6, <2>1
<1> QED BY <1>1, <1>8, <1>9, <1>10, <1>11, <1>12 DEF PacketsPlaced

LEMMA PlacesStep ==
  ASSUME ~raced', IInv, PacketsPlaced, [Next]_vars
  PROVE  PacketsPlaced'
<1> USE DEF Held
<1>0. /\ {Reaped, BufTop, Top, lastCmdConsumer} \subseteq Slots
      /\ At(BufTop) <= At(Top) /\ At(lastCmdConsumer) = 0
      /\ \A i \in Slots : At(i) \in Nat
      /\ Quiet \/ Loud
  BY AtIs, Places, QuietStep
<1>1. CASE Quiet /\ ~XmitMapFail /\ ~Close
  <2>1. /\ UNCHANGED <<lastCmdConsumer, buf, frees, taken, unmapped, refreed>>
        /\ Reaped' \in {Reaped, lastCmdConsumer} /\ BufTop' \in {BufTop, Top} /\ Top' = Top
        /\ xpc' = "filled" => xpc = "filled" /\ UNCHANGED <<xskb, cmdProducer>>
    BY <1>1, MarksStay DEF Quiet, RingStays
  <2>2. /\ (At(Reaped))' = At(Reaped) \/ (At(Reaped))' = 0
        /\ (At(BufTop))' = At(BufTop) \/ (At(BufTop))' = At(Top)
        /\ \A i \in Slots : At(i)' = At(i)
        /\ xpc' = "filled" => (At(cmdProducer))' = At(cmdProducer)
    BY <1>0, <2>1 DEF At
  <2>3. ASSUME NEW i \in Slots, Held(i)
        PROVE  /\ (At(Reaped))' <= At(i)' /\ At(i)' < (At(BufTop))'
               /\ xpc' = "filled" /\ At(i) < At(cmdProducer) => At(i)' < (At(cmdProducer))'
    <3>1. At(Reaped) <= At(i) /\ At(i) < At(BufTop)
      BY <2>3
    <3>2. At(i)' = At(i) /\ At(i) \in Nat /\ At(BufTop) \in Nat /\ At(Top) \in Nat
      BY <1>0, <2>2
    <3>3. (At(Reaped))' <= At(i)'
      BY <2>2, <3>1, <3>2
    <3>4. At(i)' < (At(BufTop))'
      BY <1>0, <2>2, <3>1, <3>2
    <3> QED BY <2>2, <3>2, <3>3, <3>4
  <2>4. \A i \in Slots : Left(i) => i = Top' /\ i = BufTop'
    BY <2>1 DEF Left
  <2> HIDE DEF Held
  <2> QED BY <2>1, <2>3, <2>4, PlacesKept
<1>2. ASSUME NEW s \in Skbs, XmitPullFail(s) \/ XmitNoCarrier(s) PROVE PacketsPlaced'
  BY <1>2, PlacesDropped
<1>3. ASSUME NEW s \in Skbs, NEW n \in FragDescs, NEW h \in HeaderDescs, XmitStart(s, n, h)
      PROVE  PacketsPlaced'
  BY <1>3, PlacesStart
<1>4. CASE XmitMapFail
  BY <1>4, PlacesUnmapped
<1>5. ASSUME NEW t \in Senders, SendQueue(t) PROVE PacketsPlaced'
  <2>1. RingStays /\ BufTop' = BufTop
    BY <1>5, OffRing
  <2>2. UNCHANGED <<lastCmdConsumer, buf, frees, taken, unmapped, refreed, txExcl, ppc, rlast>>
    BY <1>5 DEF SendQueue, ringVars, skbVars, reapVars, pollVars, histVars
  <2>3. Reaped' = Reaped
    BY <2>2 DEF Reaped
  <2>4. /\ (At(Reaped))' = At(Reaped) /\ (At(BufTop))' = At(BufTop)
        /\ \A i \in Slots : At(i)' = At(i)
        /\ xpc' = "filled" => (At(cmdProducer))' = At(cmdProducer)
    BY <2>1, <2>2, <2>3 DEF At, RingStays
  <2>5. \A i \in Slots : Left(i) => i = Top' /\ i = BufTop'
    BY <2>1 DEF Left, RingStays
  <2>6. \A i \in Slots : Held(i) =>
           /\ (At(Reaped))' <= At(i)' /\ At(i)' < (At(BufTop))'
           /\ xpc' = "filled" /\ At(i) < At(cmdProducer) => At(i)' < (At(cmdProducer))'
    BY <2>4
  <2>7. xpc' = "filled" => xpc = "filled" /\ UNCHANGED <<xskb, cmdProducer>>
    BY <2>1 DEF RingStays
  <2> HIDE DEF Held
  <2> QED BY <2>2, <2>5, <2>6, <2>7, PlacesKept
<1>6. ASSUME NEW seq \in Seq(Commands), Puts(seq), UNCHANGED <<unmapped, refreed>>
      PROVE  PacketsPlaced'
  <2>1. /\ UNCHANGED <<lastCmdConsumer, frees, taken>> /\ Reaped' = Reaped /\ BufTop' = BufTop
        /\ xpc # "filled" /\ xpc' # "filled" /\ Len(seq) \in Nat \ {0}
        /\ \A i \in Slots : At(i) < At(Top) => buf'[i] = buf[i]
        /\ \A i \in Slots : buf'[i] \in {buf[i], None}
        /\ buf' = Cleared(Top, Len(seq))
    BY <1>6, PutsIs DEF Puts
  <2>2. buf'[Top] = None
    BY <1>0, <2>1, DistZero DEF Cleared
  <2>3. ASSUME NEW i \in Slots PROVE buf'[i] = buf[i] \/ (buf'[i] = None /\ Left(i))
    <3>1. CASE buf[i] = None
      BY <2>1, <3>1
    <3>2. CASE buf[i] # None /\ ~Left(i)
      <4>1. At(i) < At(BufTop)
        BY <3>2, BuffersHold
      <4>2. At(i) < At(Top)
        BY <1>0, <4>1
      <4> QED BY <2>1, <4>2
    <3>3. CASE Left(i)
      BY <2>2, <3>3 DEF Left
    <3> QED BY <3>1, <3>2, <3>3
  <2>4. /\ (At(Reaped))' = At(Reaped) /\ (At(BufTop))' = At(BufTop)
        /\ \A i \in Slots : At(i)' = At(i)
    BY <2>1 DEF At
  <2>5. \A i \in Slots : Left(i) => buf'[i] = None
    BY <2>2 DEF Left
  <2>6. \A i \in Slots : Held(i) => (At(Reaped))' <= At(i)' /\ At(i)' < (At(BufTop))'
    BY <2>4
  <2> HIDE DEF Held
  <2> QED BY <1>6, <2>1, <2>3, <2>5, <2>6, PlacesKept
<1>7. ASSUME NEW c \in Cpus, PollReap(c) PROVE PacketsPlaced'
  BY <1>7, PlacesReap
<1>8. ASSUME NEW c \in Cpus, PollCommit(c) PROVE PacketsPlaced'
  <2>1. /\ UNCHANGED <<buf, frees, taken, xpc, xskb, cmdProducer, unmapped, refreed>>
        /\ Reaped = rlast /\ Top' = Top /\ BufTop' = BufTop
    BY <1>8, CommitIs DEF PollCommit, histVars
  <2>2. /\ \A i \in Slots : At(rlast) <= At(i) => (At(i)' < (At(BufTop))' <=> At(i) < At(BufTop))
        /\ \A i \in Slots : At(rlast) <= At(i)
             => (At(i)' < (At(cmdProducer))' <=> At(i) < At(cmdProducer))
        /\ (At(Reaped))' = 0 /\ \A i \in Slots : At(i)' \in Nat
    BY <1>8, CommitShifts
  <2>3. \A i \in Slots : Held(i) => At(rlast) <= At(i) /\ At(i) < At(BufTop)
    BY <2>1
  <2>4. \A i \in Slots : Held(i) =>
           /\ (At(Reaped))' <= At(i)' /\ At(i)' < (At(BufTop))'
           /\ xpc' = "filled" /\ At(i) < At(cmdProducer) => At(i)' < (At(cmdProducer))'
    BY <2>2, <2>3
  <2>5. \A i \in Slots : Left(i) => i = Top' /\ i = BufTop'
    BY <2>1 DEF Left
  <2> HIDE DEF Held
  <2> QED BY <2>1, <2>4, <2>5, PlacesKept
<1>9. CASE CardComplete
  <2>1. /\ UNCHANGED <<lastCmdConsumer, buf, frees, taken, xpc, xskb, cmdProducer, unmapped, refreed>>
        /\ Reaped' = Reaped /\ BufTop' = BufTop /\ Top' = Top
    BY <1>9, CardIs DEF CardComplete, histVars
  <2>2. /\ (At(Reaped))' = At(Reaped) /\ (At(BufTop))' = At(BufTop)
        /\ (At(cmdProducer))' = At(cmdProducer)
        /\ \A i \in Slots : At(i)' = At(i)
    BY <2>1 DEF At
  <2>3. \A i \in Slots : Held(i) =>
           /\ (At(Reaped))' <= At(i)' /\ At(i)' < (At(BufTop))'
           /\ xpc' = "filled" /\ At(i) < At(cmdProducer) => At(i)' < (At(cmdProducer))'
    BY <2>2
  <2>4. \A i \in Slots : Left(i) => i = Top' /\ i = BufTop'
    BY <2>1 DEF Left
  <2> HIDE DEF Held
  <2> QED BY <2>1, <2>3, <2>4, PlacesKept
<1>10. ASSUME NEW t \in Senders, NEW n \in MessageSizes, SendDirect(t, n) PROVE PacketsPlaced'
  <2>1. UNCHANGED <<unmapped, refreed>>
    BY <1>10 DEF SendDirect, histVars
  <2> QED BY <1>6, <1>10, <2>1, SendDirectIs
<1>11. ASSUME NEW c \in Cpus, DrainBlock(c) PROVE PacketsPlaced'
  <2>1. UNCHANGED <<unmapped, refreed>>
    BY <1>11 DEF DrainBlock, histVars
  <2> QED BY <1>6, <1>11, <2>1, DrainIs
<1>12. CASE Close
  BY <1>12, PlacesClose
<1> QED
  BY <1>0, <1>1, <1>2, <1>3, <1>4, <1>5, <1>7, <1>8, <1>9, <1>10, <1>11, <1>12 DEF Loud

\* Until two threads have been in the ring without a lock between them, every packet the
\* driver took is freed once or lies in exactly one buffer that will be reaped; only one
\* whose mapping failed may be freed once more, by a close.
THEOREM PacketsAccounted == Spec => []SkbAccounted
<1>1. Init => IInv /\ PacketsPlaced
  BY InitInv DEF Init, PacketsPlaced
<1>2. /\ raced \/ (IInv /\ PacketsPlaced)
      /\ [Next]_vars
      => raced' \/ (IInv' /\ PacketsPlaced')
  BY PlacesStep, Inductive, RacedStays
<1>3. raced \/ (IInv /\ PacketsPlaced) => SkbAccounted
  <2> SUFFICES ASSUME IInv, PacketsPlaced, NEW s \in taken
               PROVE  frees[s] + Cardinality(Holding(s)) = IF s \in refreed THEN 2 ELSE 1
    BY DEF SkbAccounted
  <2>1. s # None /\ s \in Skbs
    BY ThreadAssumption DEF IInv, TypeOK
  <2>2. Holding(s) = {i \in Slots : buf[i] = s /\ Held(i)}
    <3>1. ASSUME NEW i \in Slots, buf[i] = s, Held(i)
          PROVE  InOrder(i, BufTop) /\ i # BufTop
      <4>1. At(i) < At(BufTop) /\ BufTop \in Slots
        BY <3>1, Places DEF Held
      <4>2. At(i) \in Nat /\ At(BufTop) \in Nat
        BY <4>1, AtIs
      <4> QED BY <4>1, <4>2 DEF InOrder, At
    <3>2. ASSUME NEW i \in Slots, buf[i] = s, i # BufTop
          PROVE  Held(i)
      BY <2>1, <3>2, BuffersHold DEF Left
    <3> QED BY <3>1, <3>2 DEF Holding, BufTop
  <2>3. CASE \E i \in Slots : buf[i] = s /\ Held(i)
    <3>1. PICK i \in Slots : buf[i] = s /\ Held(i)
      BY <2>3
    <3>2. Holding(s) = {i} /\ frees[s] = 0 /\ s \notin refreed
      BY <2>1, <2>2, <3>1, BuffersHold DEF PacketsPlaced, Held
    <3>3. Cardinality(Holding(s)) = 1
      BY <3>2, FS_Singleton
    <3> QED BY <3>2, <3>3
  <2>4. CASE \A i \in Slots : ~(buf[i] = s /\ Held(i))
    <3>1. Holding(s) = {}
      BY <2>2, <2>4
    <3>2. frees[s] = IF s \in refreed THEN 2 ELSE 1
      <4>1. CASE \E i \in Slots : buf[i] = s
        BY <2>1, <2>4, <4>1, BuffersHold DEF Left
      <4>2. CASE \A i \in Slots : buf[i] # s
        BY <4>2 DEF PacketsPlaced
      <4> QED BY <4>1, <4>2
    <3>3. Cardinality(Holding(s)) = 0
      BY <3>1, FS_EmptySet
    <3> QED BY <3>2, <3>3
  <2> QED BY <2>3, <2>4
<1> QED BY <1>1, <1>2, <1>3, PTL DEF Spec

-----------------------------------------------------------------------------
(* The commands in the ring and in the blocks.                             *)

LEMMA Counts ==
  ASSUME IInv
  PROVE  /\ accepted \in Nat /\ pendCnt \in Nat /\ executed \in Nat /\ InRing \in Int
         /\ BlockSize \in Nat /\ BlockSize > 0 /\ MaxTxDescCount \in Nat
         /\ desc \in [Slots -> Descs]
         /\ Cont \notin Commands /\ Skbs \cap Commands = {}
         /\ Commands \subseteq Nat
<1>1. MaxCommands \in Nat
  BY RingAssumption
<1> QED BY <1>1, RingAssumption, DescAssumption, ThreadAssumption DEF IInv, TypeOK, InRing, Commands

\* The descriptors of the commands stay as they are.
LEMMA CommandsKept ==
  ASSUME CommandsPlaced, UNCHANGED <<desc, executed, InRing>>,
         \A i \in Slots : Ahead(i)' <=> Ahead(i),
         \A i, j \in Slots : Ahead(i) /\ Ahead(j) => (At(i)' < At(j)' <=> At(i) < At(j)),
         xpc' = "filled" =>
           \A i \in Slots : (At(cmdProducer))' <= At(i)' /\ Ahead(i) => desc[i] \notin Commands
  PROVE  CommandsPlaced'
<1>1. \A i \in Slots : Ahead(i)' /\ desc'[i] \in Commands => executed' < desc'[i] /\ desc'[i] <= InRing'
  BY DEF CommandsPlaced
<1>2. \A i, j \in Slots : /\ Ahead(i)' /\ Ahead(j)' /\ At(i)' < At(j)'
                          /\ desc'[i] \in Commands /\ desc'[j] \in Commands
                          => desc'[i] < desc'[j]
  BY DEF CommandsPlaced
<1>3. \A k \in executed' + 1 .. InRing' : \E i \in Slots : Ahead(i)' /\ desc'[i] = k
  BY DEF CommandsPlaced
<1>4. executed' <= InRing'
  BY DEF CommandsPlaced
<1> QED BY <1>1, <1>2, <1>3, <1>4 DEF CommandsPlaced

LEMMA CommandsStay ==
  ASSUME CommandsPlaced, RingStays, UNCHANGED InRing
  PROVE  CommandsPlaced'
<1>1. UNCHANGED <<desc, executed>>
  BY DEF RingStays
<1>2. \A i \in Slots : /\ Ahead(i)' <=> Ahead(i)
                       /\ At(i)' = At(i)
                       /\ xpc' = "filled" => (At(cmdProducer))' = At(cmdProducer)
  BY AheadStays
<1>3. xpc' = "filled" => xpc = "filled"
  BY DEF RingStays
<1>4. ASSUME xpc' = "filled", NEW i \in Slots, (At(cmdProducer))' <= At(i)', Ahead(i)
      PROVE  desc[i] \notin Commands
  <2>1. At(cmdProducer) <= At(i) /\ xpc = "filled"
    BY <1>2, <1>3, <1>4
  <2> QED BY <1>4, <2>1 DEF CommandsPlaced
<1> QED BY <1>1, <1>2, <1>4, CommandsKept

LEMMA CommandsStart ==
  ASSUME IInv, CommandsPlaced,
         NEW s \in Skbs, NEW n \in FragDescs, NEW h \in HeaderDescs, XmitStart(s, n, h)
  PROVE  CommandsPlaced'
<1> DEFINE len == n + h
           p == cmdProducer
           seq == [k \in 1 .. len |-> IF k = 1 THEN s ELSE Cont]
<1>1. /\ Top = p /\ len \in Nat \ {0} /\ At(p) + len < MaxTxDescCount
      /\ Top' = Advance(p, len) /\ desc' = Written(p, seq) /\ xpc' = "filled"
      /\ UNCHANGED <<lastCmdConsumer, cmdConsumer, cmdProducer, executed, accepted, pendCnt>>
  BY XmitStartIs
<1>2. /\ p \in Slots /\ lastCmdConsumer \in Slots /\ cmdConsumer \in Slots
      /\ At(cmdConsumer) <= At(p)
  BY Places DEF IInv, TypeOK
<1>3. /\ Len(seq) = len
      /\ \A k \in 1 .. len : seq[k] \notin Commands
  BY <1>1, Counts
<1> HIDE DEF len, p, seq
<1>4. \A i \in Slots : /\ At(i)' = At(i) /\ At(i) \in Nat /\ Dist(p, i) \in Nat
                       /\ Dist(p, i) < len <=> At(p) <= At(i) /\ At(i) < At(p) + len
  <2>1. \A i \in Slots : At(i)' = At(i)
    BY <1>1 DEF At
  <2> QED BY <1>1, <1>2, <2>1, AtIs, RangeIs
<1>5. (At(Top))' = At(p) + len /\ (At(cmdConsumer))' = At(cmdConsumer) /\ (At(cmdProducer))' = At(p)
  <2>1. (At(Top))' = At(p) + len
    BY <1>1, <1>2, DistAdvance DEF At
  <2> QED BY <1>1, <2>1 DEF At, p
<1>6. ASSUME NEW i \in Slots
      PROVE  /\ Ahead(i) => At(i) < At(p) /\ Ahead(i)' /\ desc'[i] = desc[i]
             /\ Ahead(i)' /\ ~Ahead(i) => desc'[i] \notin Commands
             /\ At(p) <= At(i) /\ Ahead(i)' => desc'[i] \notin Commands
  <2>0. At(i) \in Nat /\ At(p) \in Nat /\ At(cmdConsumer) \in Nat /\ len \in Nat
    BY <1>1, <1>2, <1>4
  <2>1. Ahead(i) <=> At(cmdConsumer) <= At(i) /\ At(i) < At(p)
    BY <1>1 DEF Ahead
  <2>2. Ahead(i)' <=> At(cmdConsumer) <= At(i) /\ At(i) < At(p) + len
    BY <1>4, <1>5 DEF Ahead
  <2>3. At(i) < At(p) => desc'[i] = desc[i]
    <3>1. At(i) < At(p) => ~(Dist(p, i) < len)
      BY <1>4, <2>0
    <3> QED BY <1>1, <1>3, <3>1 DEF Written
  <2>4. At(p) <= At(i) /\ At(i) < At(p) + len => desc'[i] \notin Commands
    <3>1. At(p) <= At(i) /\ At(i) < At(p) + len => Dist(p, i) < len
      BY <1>4
    <3>2. Dist(p, i) < len => Dist(p, i) + 1 \in 1 .. len
      BY <1>1, <1>4
    <3>3. Dist(p, i) < len => desc'[i] = seq[Dist(p, i) + 1]
      BY <1>1, <1>3 DEF Written
    <3> QED BY <1>3, <3>1, <3>2, <3>3
  <2>5. At(i) < At(p) => At(i) < At(p) + len
    BY <2>0
  <2>6. At(p) <= At(i) <=> ~(At(i) < At(p))
    BY <2>0
  <2>7. Ahead(i) => At(i) < At(p) /\ Ahead(i)' /\ desc'[i] = desc[i]
    BY <2>1, <2>2, <2>3, <2>5
  <2>8. Ahead(i)' /\ ~Ahead(i) => desc'[i] \notin Commands
    BY <2>1, <2>2, <2>4, <2>6
  <2>9. At(p) <= At(i) /\ Ahead(i)' => desc'[i] \notin Commands
    BY <2>2, <2>4
  <2> QED BY <2>7, <2>8, <2>9
<1>7. ASSUME NEW i \in Slots, Ahead(i)', desc'[i] \in Commands
      PROVE  Ahead(i) /\ desc[i] \in Commands /\ desc'[i] = desc[i]
  BY <1>6, <1>7
<1>8. InRing' = InRing /\ executed' = executed
  BY <1>1 DEF InRing
<1>9. \A i \in Slots : Ahead(i)' /\ desc'[i] \in Commands => executed' < desc'[i] /\ desc'[i] <= InRing'
  BY <1>7, <1>8 DEF CommandsPlaced
<1>10. ASSUME NEW i \in Slots, NEW j \in Slots, Ahead(i)', Ahead(j)', At(i)' < At(j)',
              desc'[i] \in Commands, desc'[j] \in Commands
       PROVE  desc'[i] < desc'[j]
  <2>1. /\ Ahead(i) /\ desc[i] \in Commands /\ desc'[i] = desc[i]
        /\ Ahead(j) /\ desc[j] \in Commands /\ desc'[j] = desc[j]
    BY <1>7, <1>10
  <2>2. At(i) < At(j)
    BY <1>4, <1>10
  <2> QED BY <2>1, <2>2 DEF CommandsPlaced
<1>11. \A k \in executed' + 1 .. InRing' : \E i \in Slots : Ahead(i)' /\ desc'[i] = k
  BY <1>6, <1>8 DEF CommandsPlaced
<1>12. \A i \in Slots : (At(cmdProducer))' <= At(i)' /\ Ahead(i)' => desc'[i] \notin Commands
  BY <1>4, <1>5, <1>6
<1>13. executed' <= InRing'
  BY <1>8 DEF CommandsPlaced
<1> QED BY <1>9, <1>10, <1>11, <1>12, <1>13 DEF CommandsPlaced

LEMMA CommandsDropped ==
  ASSUME ~raced', IInv, CommandsPlaced, XmitMapFail
  PROVE  CommandsPlaced'
<1>1. /\ xpc = "filled" /\ xpc' = "idle"
      /\ UNCHANGED <<cmdProducer, desc, executed, accepted, pendCnt>>
      /\ \A i \in Slots : /\ At(i)' = At(i)
                          /\ Ahead(i)' <=> Ahead(i) /\ At(i) < At(cmdProducer)
  BY MapFailIs
<1>2. InRing' = InRing
  BY <1>1 DEF InRing
<1>3. ASSUME NEW k \in executed + 1 .. InRing PROVE \E i \in Slots : Ahead(i)' /\ desc'[i] = k
  <2>1. PICK i \in Slots : Ahead(i) /\ desc[i] = k
    BY DEF CommandsPlaced
  <2>2. k \in Commands
    <3>1. InRing <= MaxCommands /\ executed \in Nat /\ InRing \in Int /\ MaxCommands \in Nat
      BY Counts, RingAssumption DEF InRing, IInv, TypeOK
    <3> QED BY <3>1 DEF Commands
  <2>3. ~(At(cmdProducer) <= At(i))
    BY <1>1, <2>1, <2>2 DEF CommandsPlaced
  <2>4. At(cmdProducer) \in Nat /\ At(i) \in Nat
    BY AtIs, Places
  <2>5. At(i) < At(cmdProducer)
    BY <2>3, <2>4
  <2> QED BY <1>1, <2>1, <2>5
<1>4. \A i \in Slots : Ahead(i)' /\ desc'[i] \in Commands => executed' < desc'[i] /\ desc'[i] <= InRing'
  BY <1>1, <1>2 DEF CommandsPlaced
<1>5. \A i, j \in Slots : /\ Ahead(i)' /\ Ahead(j)' /\ At(i)' < At(j)'
                          /\ desc'[i] \in Commands /\ desc'[j] \in Commands
                          => desc'[i] < desc'[j]
  BY <1>1 DEF CommandsPlaced
<1>6. executed' <= InRing' /\ executed' = executed
  BY <1>1, <1>2 DEF CommandsPlaced
<1> QED BY <1>1, <1>2, <1>3, <1>4, <1>5, <1>6 DEF CommandsPlaced

\* Commands that follow those in the ring are written behind them.
LEMMA CommandsPut ==
  ASSUME IInv, CommandsPlaced, NEW seq \in Seq(Commands), Puts(seq),
         \A k \in 1 .. Len(seq) : seq[k] = InRing + k,
         InRing' = InRing + Len(seq)
  PROVE  CommandsPlaced'
<1> DEFINE n == Len(seq)
           t == At(Top)
<1>1. /\ n \in Nat \ {0} /\ t + n < MaxTxDescCount /\ executed' = executed /\ xpc' # "filled"
      /\ \A i \in Slots : At(i)' = At(i)
      /\ \A i \in Slots : Ahead(i)' <=> Ahead(i) \/ (t <= At(i) /\ At(i) < t + n)
      /\ \A i \in Slots : At(i) < t => desc'[i] = desc[i]
      /\ \A i \in Slots : t <= At(i) /\ At(i) < t + n =>
           At(i) - t + 1 \in 1 .. n /\ desc'[i] = seq[At(i) - t + 1]
  BY PutsIs DEF Puts
<1>2. /\ Top \in Slots /\ t \in Nat /\ lastCmdConsumer \in Slots /\ cmdConsumer \in Slots
      /\ At(cmdConsumer) <= t /\ At(cmdConsumer) \in Nat
      /\ \A i \in Slots : At(i) \in Nat
  <2>1. /\ {lastCmdConsumer, cmdConsumer, cmdProducer, Top, BufTop} \subseteq Slots
        /\ At(cmdConsumer) <= At(cmdProducer) /\ At(cmdProducer) <= At(BufTop) /\ At(BufTop) <= At(Top)
    BY Places
  <2> QED BY <2>1, AtIs
<1>3. InRing \in Int /\ executed \in Nat /\ executed <= InRing /\ Commands \subseteq Nat
  BY Counts DEF CommandsPlaced
<1>4. InRing' = InRing + n /\ \A k \in 1 .. n : seq[k] = InRing + k
  OBVIOUS
<1>5. \A i \in Slots : Ahead(i) => At(i) < t
  BY DEF Ahead
<1>6. Advance(Top, 0) = Top /\ \A k \in Nat : k < n => Advance(Top, k) \in Slots
                                                       /\ At(Advance(Top, k)) = t + k
  <2> SUFFICES ASSUME NEW k \in Nat, k < n
               PROVE  Advance(Top, k) \in Slots /\ At(Advance(Top, k)) = t + k
    BY <1>2, RingAssumption DEF Advance, Slots
  <2>1. t + k < MaxTxDescCount
    BY <1>1, <1>2, RingAssumption
  <2>2. Dist(lastCmdConsumer, Top) + k < MaxTxDescCount
    BY <2>1 DEF At
  <2>3. /\ Advance(Top, k) \in Slots
        /\ Dist(lastCmdConsumer, Advance(Top, k)) = Dist(lastCmdConsumer, Top) + k
    BY <1>2, <2>2, DistAdvance
  <2> QED BY <2>3 DEF At
<1> HIDE DEF n, t
<1>7. ASSUME NEW i \in Slots, Ahead(i)'
      PROVE  \/ Ahead(i) /\ At(i) < t /\ desc'[i] = desc[i]
             \/ t <= At(i) /\ At(i) < t + n /\ desc'[i] = InRing + (At(i) - t + 1)
  <2>1. CASE Ahead(i)
    BY <1>1, <1>5, <2>1
  <2>2. CASE t <= At(i) /\ At(i) < t + n
    BY <1>1, <1>4, <2>2
  <2> QED BY <1>1, <1>7, <2>1, <2>2
<1>8. ASSUME NEW i \in Slots, Ahead(i)', desc'[i] \in Commands
      PROVE  executed' < desc'[i] /\ desc'[i] <= InRing'
  <2>1. CASE Ahead(i) /\ desc'[i] = desc[i]
    <3>1. executed < desc[i] /\ desc[i] <= InRing /\ desc[i] \in Nat
      BY <1>3, <1>8, <2>1 DEF CommandsPlaced
    <3>2. desc[i] <= InRing + n
      BY <1>1, <1>3, <3>1
    <3> QED BY <1>1, <1>4, <2>1, <3>1, <3>2
  <2>2. CASE t <= At(i) /\ At(i) < t + n /\ desc'[i] = InRing + (At(i) - t + 1)
    <3>1. At(i) \in Nat
      BY <1>2
    <3> DEFINE a == At(i)
    <3>2. a \in Nat /\ t <= a /\ a < t + n
      BY <2>2, <3>1
    <3> HIDE DEF a
    <3>3. executed < InRing + (a - t + 1) /\ InRing + (a - t + 1) <= InRing + n
      BY SMTT(30), <1>1, <1>2, <1>3, <3>2
    <3> QED BY <1>1, <1>4, <2>2, <3>3 DEF a
  <2> QED BY <1>7, <1>8, <2>1, <2>2
<1>9. ASSUME NEW i \in Slots, NEW j \in Slots, Ahead(i)', Ahead(j)', At(i)' < At(j)',
             desc'[i] \in Commands, desc'[j] \in Commands
      PROVE  desc'[i] < desc'[j]
  <2>0. At(i) < At(j) /\ At(i) \in Nat /\ At(j) \in Nat
    BY <1>1, <1>2, <1>9
  <2>1. CASE Ahead(j) /\ At(j) < t /\ desc'[j] = desc[j]
    <3>1. At(i) < t /\ ~(t <= At(i))
      BY <1>2, <2>0, <2>1
    <3>2. Ahead(i) /\ desc'[i] = desc[i]
      BY <1>7, <1>9, <3>1
    <3> QED BY <1>9, <2>0, <2>1, <3>2 DEF CommandsPlaced
  <2>2. CASE t <= At(j) /\ At(j) < t + n /\ desc'[j] = InRing + (At(j) - t + 1)
    <3>1. CASE Ahead(i) /\ desc'[i] = desc[i]
      <4>1. desc[i] <= InRing /\ desc[i] \in Nat
        BY <1>3, <1>9, <3>1 DEF CommandsPlaced
      <4>2. InRing < InRing + (At(j) - t + 1) /\ InRing + (At(j) - t + 1) \in Int
        BY <1>2, <1>3, <2>0, <2>2
      <4>3. desc[i] < desc'[j]
        BY <1>3, <2>2, <4>1, <4>2
      <4> QED BY <3>1, <4>3
    <3>2. CASE t <= At(i) /\ At(i) < t + n /\ desc'[i] = InRing + (At(i) - t + 1)
      <4>1. InRing + (At(i) - t + 1) < InRing + (At(j) - t + 1)
        BY <1>2, <1>3, <2>0
      <4> QED BY <2>2, <3>2, <4>1
    <3> QED BY <1>7, <1>9, <3>1, <3>2
  <2> QED BY <1>7, <1>9, <2>1, <2>2
<1>10. ASSUME NEW k \in executed' + 1 .. InRing' PROVE \E i \in Slots : Ahead(i)' /\ desc'[i] = k
  <2>0. k \in Int /\ executed + 1 <= k /\ k <= InRing + n
    BY <1>1, <1>3, <1>4
  <2>1. CASE k <= InRing
    <3>1. k \in executed + 1 .. InRing
      BY <1>3, <2>0, <2>1
    <3>2. PICK i \in Slots : Ahead(i) /\ desc[i] = k
      BY <3>1 DEF CommandsPlaced
    <3> QED BY <1>1, <1>5, <3>2
  <2>2. CASE k > InRing
    <3> DEFINE o == k - InRing - 1
    <3>1. o \in Nat /\ o < n /\ o + 1 \in 1 .. n /\ InRing + (o + 1) = k
      BY <1>1, <1>3, <2>0, <2>2
    <3> HIDE DEF o
    <3>2. Advance(Top, o) \in Slots /\ At(Advance(Top, o)) = t + o
      BY <1>6, <3>1
    <3>3. PICK i \in Slots : At(i) = t + o
      BY <3>2
    <3>4. t <= At(i) /\ At(i) < t + n /\ At(i) - t + 1 = o + 1
      BY <1>1, <1>2, <3>1, <3>3
    <3>5. Ahead(i)' /\ desc'[i] = seq[o + 1]
      BY <1>1, <3>4
    <3> QED BY <1>4, <3>1, <3>5
  <2> QED BY <1>3, <2>0, <2>1, <2>2
<1>11. executed' <= InRing'
  BY <1>1, <1>3, <1>4
<1> QED BY <1>1, <1>8, <1>9, <1>10, <1>11 DEF CommandsPlaced

\* The card executes the next command, if one is next.
LEMMA CommandsExecuted ==
  ASSUME IInv, CommandsPlaced, CardComplete
  PROVE  CommandsPlaced' /\ executed' \in {executed, executed + 1}
<1>1. /\ UNCHANGED <<desc, cmdProducer, lastCmdConsumer, xpc, accepted, pendCnt>>
      /\ \A i \in Slots : At(i)' = At(i)
      /\ Ahead(cmdConsumer)
      /\ \A i \in Slots : Ahead(i)' => Ahead(i) /\ At(cmdConsumer) < At(i)
      /\ \A i \in Slots : Ahead(i) /\ ~Ahead(i)' => i = cmdConsumer \/ desc[i] = Cont
      /\ executed' = IF desc[cmdConsumer] \in Commands THEN desc[cmdConsumer] ELSE executed
  BY CardIs
<1> DEFINE d == desc[cmdConsumer]
<1>2. cmdConsumer \in Slots /\ InRing' = InRing /\ (At(cmdProducer))' = At(cmdProducer)
  BY <1>1 DEF IInv, TypeOK, InRing, At
<1>3. InRing \in Int /\ executed \in Nat /\ executed <= InRing /\ Commands \subseteq Nat
      /\ Cont \notin Commands /\ executed + 1 .. InRing \subseteq Commands
  <2>1. InRing <= MaxCommands /\ MaxCommands \in Nat
    BY Counts, RingAssumption DEF InRing, IInv, TypeOK
  <2> QED BY <2>1, Counts DEF CommandsPlaced, Commands
<1>4. d \in Commands => executed' = executed + 1 /\ executed + 1 <= InRing
  <2> SUFFICES ASSUME d \in Commands PROVE d = executed + 1 /\ executed + 1 <= InRing
    BY <1>1
  <2>1. executed < d /\ d <= InRing /\ d \in Nat
    BY <1>1, <1>2, <1>3 DEF CommandsPlaced
  <2>2. executed + 1 \in executed + 1 .. InRing
    BY <1>3, <2>1
  <2>3. PICK i \in Slots : Ahead(i) /\ desc[i] = executed + 1
    BY <2>2 DEF CommandsPlaced
  <2>4. CASE i = cmdConsumer
    BY <1>3, <2>1, <2>3, <2>4
  <2>5. CASE i # cmdConsumer
    <3>1. At(cmdConsumer) < At(i)
      <4>1. At(cmdConsumer) <= At(i)
        BY <2>3 DEF Ahead
      <4>2. At(cmdConsumer) \in Nat /\ At(i) \in Nat /\ At(i) # At(cmdConsumer)
        BY <1>2, <2>5, AtIs
      <4> QED BY <4>1, <4>2
    <3>2. desc[i] \in Commands
      BY <1>3, <2>2, <2>3
    <3>3. d < desc[i]
      BY <1>1, <1>2, <2>3, <3>1, <3>2 DEF CommandsPlaced
    <3> QED BY <1>3, <2>1, <2>3, <3>3
  <2> QED BY <2>4, <2>5
<1>5. d \notin Commands => executed' = executed
  BY <1>1
<1> HIDE DEF d
<1>6. ASSUME NEW i \in Slots, Ahead(i)', desc'[i] \in Commands
      PROVE  executed' < desc'[i] /\ desc'[i] <= InRing'
  <2>1. Ahead(i) /\ At(cmdConsumer) < At(i) /\ desc'[i] = desc[i]
    BY <1>1, <1>6
  <2>2. executed < desc[i] /\ desc[i] <= InRing
    BY <1>6, <2>1 DEF CommandsPlaced
  <2>3. CASE d \in Commands
    <3>1. d < desc[i]
      BY <1>1, <1>2, <1>6, <2>1, <2>3 DEF CommandsPlaced, d
    <3>2. executed' = d
      BY <1>1, <2>3 DEF d
    <3> QED BY <1>2, <2>1, <2>2, <3>1, <3>2
  <2>4. CASE d \notin Commands
    BY <1>2, <1>5, <2>1, <2>2, <2>4
  <2> QED BY <2>3, <2>4
<1>7. \A i, j \in Slots : /\ Ahead(i)' /\ Ahead(j)' /\ At(i)' < At(j)'
                          /\ desc'[i] \in Commands /\ desc'[j] \in Commands
                          => desc'[i] < desc'[j]
  BY <1>1 DEF CommandsPlaced
<1>8. ASSUME NEW k \in executed' + 1 .. InRing' PROVE \E i \in Slots : Ahead(i)' /\ desc'[i] = k
  <2>1. k \in executed + 1 .. InRing /\ (d \in Commands => k # d)
    <3>1. CASE d \in Commands
      <4>1. executed' = executed + 1 /\ executed' = d
        BY <1>1, <1>4, <3>1 DEF d
      <4> QED BY <1>2, <1>3, <1>8, <4>1
    <3>2. CASE d \notin Commands
      BY <1>2, <1>5, <1>8, <3>2
    <3> QED BY <3>1, <3>2
  <2>2. k \in Commands
    BY <1>3, <2>1
  <2>3. PICK i \in Slots : Ahead(i) /\ desc[i] = k
    BY <2>1 DEF CommandsPlaced
  <2>4. i # cmdConsumer /\ desc[i] # Cont
    BY <1>3, <2>1, <2>2, <2>3 DEF d
  <2>5. Ahead(i)'
    BY <1>1, <2>3, <2>4
  <2> QED BY <1>1, <2>3, <2>5
<1>9. executed' <= InRing' /\ executed' \in {executed, executed + 1}
  BY <1>2, <1>3, <1>4, <1>5
<1>10. xpc' = "filled" =>
         \A i \in Slots : (At(cmdProducer))' <= At(i)' /\ Ahead(i)' => desc'[i] \notin Commands
  BY <1>1, <1>2 DEF CommandsPlaced
<1> QED BY <1>6, <1>7, <1>8, <1>9, <1>10 DEF CommandsPlaced

LEMMA CommandsCommitted ==
  ASSUME IInv, CommandsPlaced, NEW c \in Cpus, PollCommit(c)
  PROVE  CommandsPlaced'
<1>1. UNCHANGED <<desc, executed, accepted, pendCnt, xpc>> /\ Reaped = rlast /\ rlast \in Slots
  BY CommitIs
<1>2. /\ \A i \in Slots : Ahead(i)' <=> Ahead(i)
      /\ \A i, j \in Slots : At(rlast) <= At(i) /\ At(rlast) <= At(j)
                               => (At(i)' < At(j)' <=> At(i) < At(j))
      /\ \A i \in Slots : At(rlast) <= At(i)
           => ((At(cmdProducer))' <= At(i)' <=> At(cmdProducer) <= At(i))
  BY CommitShifts
<1>3. ASSUME NEW i \in Slots, Ahead(i) PROVE At(rlast) <= At(i)
  <2>1. At(rlast) <= At(cmdConsumer) /\ At(cmdConsumer) <= At(i) /\ cmdConsumer \in Slots
    BY <1>1, <1>3, Places DEF Ahead
  <2> QED BY <1>1, <2>1, AtIs
<1>4. InRing' = InRing
  BY <1>1 DEF InRing
<1>5. \A i, j \in Slots : Ahead(i) /\ Ahead(j) => (At(i)' < At(j)' <=> At(i) < At(j))
  BY <1>2, <1>3
<1>6. xpc' = "filled" =>
        \A i \in Slots : (At(cmdProducer))' <= At(i)' /\ Ahead(i) => desc[i] \notin Commands
  BY <1>1, <1>2, <1>3 DEF CommandsPlaced
<1> QED BY <1>1, <1>2, <1>4, <1>5, <1>6, CommandsKept

\* The commands in the blocks follow those in the ring.
LEMMA BlocksKept ==
  ASSUME BlocksTrue, UNCHANGED <<accepted, pendCnt, cmdList, currBlock>>
  PROVE  BlocksTrue' /\ InRing' = InRing
<1>1. InRing' = InRing
  BY DEF InRing
<1> QED BY <1>1 DEF BlocksTrue

LEMMA NoneWait ==
  ASSUME IInv, pendCnt = 0
  PROVE  cmdList = <<>> /\ currBlock = <<>>
<1>1. /\ cmdList \in Seq(Seq(Commands)) /\ currBlock \in Seq(Commands)
      /\ pendCnt = BlockSize * Len(cmdList) + Len(currBlock)
  BY DEF IInv, TypeOK, PendingCounted
<1>2. Len(cmdList) \in Nat /\ Len(currBlock) \in Nat /\ BlockSize \in Nat /\ BlockSize > 0
  BY <1>1, RingAssumption
<1>3. BlockSize * Len(cmdList) \in Nat
  BY <1>2
<1>4. BlockSize * Len(cmdList) = 0 /\ Len(currBlock) = 0
  BY <1>1, <1>2, <1>3
<1>5. Len(cmdList) = 0
  BY <1>2, <1>4
<1> QED BY <1>1, <1>4, <1>5

\* What a message that is queued appends to the blocks.
LEMMA QueueIs ==
  ASSUME IInv, NEW t \in Senders, SendQueue(t)
  PROVE  LET both == currBlock \o NextCommands(slen[t])
         IN /\ slen[t] \in MessageSizes /\ slen[t] \in Nat
            /\ accepted' = accepted + slen[t] /\ pendCnt' = pendCnt + slen[t]
            /\ both \in Seq(Commands) /\ Len(both) = Len(currBlock) + slen[t]
            /\ \/ cmdList' = cmdList /\ currBlock' = both
               \/ /\ Len(both) >= BlockSize
                  /\ cmdList' = Append(cmdList, SubSeq(both, 1, BlockSize))
                  /\ currBlock' = SubSeq(both, BlockSize + 1, Len(both))
<1> DEFINE n     == slen[t]
           both  == currBlock \o NextCommands(n)
           fresh == IF currBlock = <<>> \/ Len(both) > BlockSize THEN 1 ELSE 0
           short == fresh > freeBlocks
           kept  == IF ~short THEN both
                    ELSE IF currBlock = <<>> THEN <<>>
                    ELSE SubSeq(both, 1, BlockSize)
<1>1. /\ n \in MessageSizes /\ n \in Nat /\ accepted + n <= MaxCommands /\ BlockAvailable(n)
  <2>1. spc[t] = "reserved"
    BY DEF SendQueue
  <2>2. n \in MessageSizes /\ accepted + n <= MaxCommands /\ BlockAvailable(n)
    BY <2>1 DEF IInv, Reserved
  <2>3. MessageSizes \subseteq Nat
    BY RingAssumption
  <2> HIDE DEF n
  <2> QED BY <2>2, <2>3
<1>2. both \in Seq(Commands) /\ Len(both) = Len(currBlock) + n /\ Len(currBlock) \in Nat
  <2>1. accepted \in 0 .. MaxCommands /\ currBlock \in Seq(Commands)
    BY DEF IInv, TypeOK
  <2>2. NextCommands(n) \in Seq(Commands) /\ Len(NextCommands(n)) = n
    BY <1>1, <2>1, NextCommandsType
  <2> QED BY <2>1, <2>2
<1>3. ~short
  <2>1. freeBlocks \in Nat /\ fresh \in {0, 1}
    BY DEF IInv, TypeOK
  <2>2. fresh = 1 => freeBlocks > 0
    <3>1. CASE currBlock # <<>> /\ Len(currBlock) + n <= BlockSize
      <4>1. Len(both) <= BlockSize
        BY <1>2, <3>1
      <4>2. ~(Len(both) > BlockSize)
        BY <1>1, <1>2, <4>1, RingAssumption
      <4> HIDE DEF both
      <4> QED BY <3>1, <4>2
    <3> QED BY <1>1, <3>1 DEF BlockAvailable
  <2> HIDE DEF fresh
  <2> QED BY <2>1, <2>2
<1>4. /\ pendCnt' = pendCnt + Len(kept) - Len(currBlock) /\ accepted' = accepted + n
      /\ IF Len(kept) >= BlockSize
           THEN /\ cmdList' = Append(cmdList, SubSeq(kept, 1, BlockSize))
                /\ currBlock' = SubSeq(kept, BlockSize + 1, Len(kept))
           ELSE /\ currBlock' = kept
                /\ UNCHANGED cmdList
  BY DEF SendQueue
<1>5. kept = both
  BY <1>3
<1> HIDE DEF n, both, short, kept
<1>6. pendCnt' = pendCnt + n
  <2>1. pendCnt' = pendCnt + Len(both) - Len(currBlock)
    BY <1>4, <1>5
  <2>2. pendCnt \in Nat
    BY DEF IInv, TypeOK
  <2>3. Len(both) = Len(currBlock) + n /\ Len(currBlock) \in Nat /\ n \in Nat
    BY <1>1, <1>2
  <2> QED BY <2>1, <2>2, <2>3
<1>7. \/ cmdList' = cmdList /\ currBlock' = both
      \/ /\ Len(both) >= BlockSize
         /\ cmdList' = Append(cmdList, SubSeq(both, 1, BlockSize))
         /\ currBlock' = SubSeq(both, BlockSize + 1, Len(both))
  BY <1>4, <1>5
<1>8. accepted' = accepted + n
  BY <1>4
<1> QED BY <1>1, <1>2, <1>6, <1>7, <1>8 DEF both, n

\* A sequence cut in two.
LEMMA CutAt ==
  ASSUME NEW S, NEW q \in Seq(S), NEW n \in Nat, n <= Len(q)
  PROVE  /\ SubSeq(q, 1, n) \in Seq(S) /\ Len(SubSeq(q, 1, n)) = n
         /\ \A k \in 1 .. n : SubSeq(q, 1, n)[k] = q[k] /\ k \in 1 .. Len(q)
         /\ SubSeq(q, n + 1, Len(q)) \in Seq(S)
         /\ Len(SubSeq(q, n + 1, Len(q))) = Len(q) - n
         /\ \A k \in 1 .. Len(q) - n :
              SubSeq(q, n + 1, Len(q))[k] = q[n + k] /\ n + k \in 1 .. Len(q)
<1>1. Len(q) \in Nat
  OBVIOUS
<1>2. SubSeq(q, 1, n) \in Seq(S) /\ Len(SubSeq(q, 1, n)) = n
  BY <1>1
<1>3. \A k \in 1 .. n : SubSeq(q, 1, n)[k] = q[k] /\ k \in 1 .. Len(q)
  BY <1>1
<1>4. SubSeq(q, n + 1, Len(q)) \in Seq(S) /\ Len(SubSeq(q, n + 1, Len(q))) = Len(q) - n
  BY <1>1
<1>5. ASSUME NEW k \in 1 .. Len(q) - n
      PROVE  SubSeq(q, n + 1, Len(q))[k] = q[n + k] /\ n + k \in 1 .. Len(q)
  BY <1>1
<1> QED BY <1>2, <1>3, <1>4, <1>5

LEMMA BlocksQueue ==
  ASSUME IInv, BlocksTrue, NEW t \in Senders, SendQueue(t)
  PROVE  BlocksTrue' /\ InRing' = InRing
<1> DEFINE n    == slen[t]
           both == currBlock \o NextCommands(n)
           len  == Len(currBlock)
           base == accepted - len
<1>1. /\ n \in Nat /\ accepted' = accepted + n /\ pendCnt' = pendCnt + n
      /\ both \in Seq(Commands) /\ Len(both) = len + n
      /\ \/ cmdList' = cmdList /\ currBlock' = both
         \/ /\ Len(both) >= BlockSize
            /\ cmdList' = Append(cmdList, SubSeq(both, 1, BlockSize))
            /\ currBlock' = SubSeq(both, BlockSize + 1, Len(both))
  BY QueueIs
<1>2. /\ accepted \in Nat /\ pendCnt \in Nat /\ InRing \in Int /\ BlockSize \in Nat /\ BlockSize > 0
      /\ cmdList \in Seq(Seq(Commands)) /\ currBlock \in Seq(Commands) /\ len \in Nat
      /\ base \in Int
  BY Counts DEF IInv, TypeOK
<1>3. InRing' = InRing
  BY <1>1, <1>2 DEF InRing
<1>4. base = InRing + BlockSize * Len(cmdList)
  <2>1. pendCnt = BlockSize * Len(cmdList) + len
    BY DEF IInv, PendingCounted
  <2>2. BlockSize * Len(cmdList) \in Nat
    BY <1>2
  <2> QED BY <1>2, <2>1, <2>2 DEF InRing
<1>5. \A o \in 1 .. Len(both) : both[o] = base + o
  <2> SUFFICES ASSUME NEW o \in 1 .. Len(both) PROVE both[o] = base + o
    OBVIOUS
  <2>1. CASE o <= len
    <3>1. o \in 1 .. len
      BY <1>2, <2>1
    <3>2. both[o] = currBlock[o]
      BY <1>2, <3>1
    <3> QED BY <3>1, <3>2 DEF BlocksTrue
  <2>2. CASE o > len
    <3>1. o - len \in 1 .. n
      BY <1>1, <1>2, <2>2
    <3>2. NextCommands(n)[o - len] = accepted + (o - len)
      BY <3>1 DEF NextCommands
    <3>3. Len(NextCommands(n)) = n
      BY <1>1 DEF NextCommands
    <3>4. both[o] = NextCommands(n)[o - len]
      BY <1>1, <1>2, <2>2, <3>1, <3>3
    <3> QED BY <1>2, <3>1, <3>2, <3>4
  <2> QED BY <1>1, <1>2, <2>1, <2>2
<1>6. CASE cmdList' = cmdList /\ currBlock' = both
  <2>1. \A b \in 1 .. Len(cmdList'), o \in 1 .. BlockSize :
           cmdList'[b][o] = InRing' + BlockSize * (b - 1) + o
    BY <1>3, <1>6 DEF BlocksTrue
  <2>2. accepted' - Len(currBlock') = base
    BY <1>1, <1>2, <1>6
  <2>3. \A o \in 1 .. Len(currBlock') : currBlock'[o] = accepted' - Len(currBlock') + o
    BY <1>5, <1>6, <2>2
  <2> QED BY <1>3, <2>1, <2>3 DEF BlocksTrue
<1>7. CASE /\ Len(both) >= BlockSize
           /\ cmdList' = Append(cmdList, SubSeq(both, 1, BlockSize))
           /\ currBlock' = SubSeq(both, BlockSize + 1, Len(both))
  <2> DEFINE full == SubSeq(both, 1, BlockSize)
             rest == SubSeq(both, BlockSize + 1, Len(both))
             m    == Len(cmdList)
  <2>1. /\ full \in Seq(Commands) /\ Len(full) = BlockSize
        /\ \A o \in 1 .. BlockSize : full[o] = both[o] /\ o \in 1 .. Len(both)
    <3>1. both \in Seq(Commands) /\ BlockSize \in Nat /\ BlockSize <= Len(both)
      BY <1>1, <1>2, <1>7
    <3> HIDE DEF both
    <3> QED BY <3>1, CutAt
  <2>2. /\ rest \in Seq(Commands) /\ Len(rest) = Len(both) - BlockSize
        /\ \A o \in 1 .. Len(rest) : rest[o] = both[BlockSize + o]
                                     /\ BlockSize + o \in 1 .. Len(both)
    <3>1. both \in Seq(Commands) /\ BlockSize \in Nat /\ BlockSize <= Len(both)
      BY <1>1, <1>2, <1>7
    <3> HIDE DEF both
    <3> QED BY <3>1, CutAt
  <2>3. /\ Len(cmdList') = m + 1 /\ m \in Nat
        /\ \A b \in 1 .. m + 1 : cmdList'[b] = IF b <= m THEN cmdList[b] ELSE full
    <3>1. Len(Append(cmdList, full)) = m + 1 /\ m \in Nat
      BY <1>2, <2>1
    <3>2. \A b \in 1 .. Len(Append(cmdList, full)) :
            Append(cmdList, full)[b] = IF b <= m THEN cmdList[b] ELSE full
      BY <1>2, <2>1, AppendAt
    <3> QED BY <1>7, <3>1, <3>2
  <2> HIDE DEF full, rest, both, base, m
  <2>4. ASSUME NEW b \in 1 .. Len(cmdList'), NEW o \in 1 .. BlockSize
        PROVE  cmdList'[b][o] = InRing' + BlockSize * (b - 1) + o
    <3>1. CASE b <= m
      <4>1. b \in 1 .. m /\ cmdList'[b] = cmdList[b]
        BY <2>3, <3>1
      <4> QED BY <1>3, <4>1 DEF BlocksTrue, m
    <3>2. CASE ~(b <= m)
      <4>1. b = m + 1 /\ cmdList'[b] = full
        BY <2>3, <3>2
      <4>2. full[o] = base + o
        BY <1>5, <2>1
      <4>3. b - 1 = m
        BY <2>3, <4>1
      <4> QED BY <1>3, <1>4, <4>1, <4>2, <4>3 DEF m
    <3> QED BY <3>1, <3>2
  <2>5. ASSUME NEW o \in 1 .. Len(currBlock')
        PROVE  currBlock'[o] = accepted' - Len(currBlock') + o
    <3>1. currBlock' = rest
      BY <1>7 DEF rest, both
    <3>2. rest[o] = base + (BlockSize + o)
      BY <1>5, <2>2, <3>1
    <3>3. accepted' - Len(rest) = base + BlockSize
      <4>1. Len(rest) = (len + n) - BlockSize /\ accepted' = accepted + n /\ n \in Nat
        BY <1>1, <2>2 DEF both
      <4> HIDE DEF n, len
      <4> QED BY <1>2, <4>1 DEF base
    <3>4. o \in Nat
      BY <2>2, <3>1
    <3> QED BY <1>2, <3>1, <3>2, <3>3, <3>4 DEF base
  <2> QED BY <1>3, <2>4, <2>5 DEF BlocksTrue
<1> QED BY <1>1, <1>3, <1>6, <1>7

LEMMA BlocksDrained ==
  ASSUME IInv, BlocksTrue, NEW block \in Seq(Commands),
         accepted' = accepted, pendCnt' = pendCnt - Len(block),
         \/ /\ cmdList # <<>> /\ block = Head(cmdList) /\ Len(block) = BlockSize
            /\ cmdList' = Tail(cmdList) /\ currBlock' = currBlock
         \/ /\ cmdList = <<>> /\ block = currBlock
            /\ cmdList' = cmdList /\ currBlock' = <<>>
  PROVE  /\ BlocksTrue' /\ InRing' = InRing + Len(block)
         /\ \A k \in 1 .. Len(block) : block[k] = InRing + k
<1>1. /\ accepted \in Nat /\ pendCnt \in Nat /\ InRing \in Int /\ BlockSize \in Nat /\ BlockSize > 0
      /\ cmdList \in Seq(Seq(Commands)) /\ currBlock \in Seq(Commands)
      /\ Len(cmdList) \in Nat /\ Len(currBlock) \in Nat /\ Len(block) \in Nat
  BY SMTT(30), Counts DEF IInv, TypeOK
<1>2. InRing' = InRing + Len(block)
  BY <1>1 DEF InRing
<1>3. CASE /\ cmdList # <<>> /\ block = Head(cmdList) /\ Len(block) = BlockSize
           /\ cmdList' = Tail(cmdList) /\ currBlock' = currBlock
  <2> DEFINE m == Len(cmdList)
  <2>1. /\ m >= 1 /\ block = cmdList[1] /\ Len(Tail(cmdList)) = m - 1
        /\ \A b \in 1 .. m - 1 : Tail(cmdList)[b] = cmdList[b + 1] /\ b + 1 \in 1 .. m
    BY <1>1, <1>3
  <2>2. \A k \in 1 .. Len(block) : block[k] = InRing + k
    <3>1. \A o \in 1 .. BlockSize : cmdList[1][o] = InRing + BlockSize * (1 - 1) + o
      BY <1>1, <2>1 DEF BlocksTrue
    <3>2. BlockSize * (1 - 1) = 0
      BY <1>1
    <3>3. \A o \in 1 .. BlockSize : cmdList[1][o] = InRing + o
      BY <1>1, <3>1, <3>2
    <3> QED BY <1>3, <2>1, <3>3
  <2>3. ASSUME NEW b \in 1 .. Len(cmdList'), NEW o \in 1 .. BlockSize
        PROVE  cmdList'[b][o] = InRing' + BlockSize * (b - 1) + o
    <3>1. b \in 1 .. m - 1 /\ cmdList'[b] = cmdList[b + 1] /\ b + 1 \in 1 .. m
      BY <1>3, <2>1
    <3>2. cmdList[b + 1][o] = InRing + BlockSize * ((b + 1) - 1) + o
      BY <3>1 DEF BlocksTrue
    <3>3. BlockSize * ((b + 1) - 1) = BlockSize + BlockSize * (b - 1) /\ BlockSize * (b - 1) \in Nat
      BY <1>1, <3>1
    <3>4. InRing' = InRing + BlockSize
      BY <1>2, <1>3
    <3> DEFINE x == BlockSize * (b - 1)
               y == BlockSize * ((b + 1) - 1)
    <3> HIDE DEF x, y
    <3>5. y = BlockSize + x /\ x \in Nat /\ cmdList'[b][o] = InRing + y + o
      BY <3>1, <3>2, <3>3 DEF x, y
    <3>6. cmdList'[b][o] = InRing' + x + o
      BY <1>1, <3>4, <3>5
    <3> QED BY <3>6 DEF x
  <2>4. \A o \in 1 .. Len(currBlock') : currBlock'[o] = accepted' - Len(currBlock') + o
    BY <1>3 DEF BlocksTrue
  <2> QED BY <1>2, <2>2, <2>3, <2>4 DEF BlocksTrue
<1>4. CASE /\ cmdList = <<>> /\ block = currBlock
           /\ cmdList' = cmdList /\ currBlock' = <<>>
  <2>1. InRing = accepted - Len(currBlock)
    <3>1. pendCnt = BlockSize * Len(cmdList) + Len(currBlock) /\ Len(cmdList) = 0
      BY <1>4 DEF IInv, PendingCounted
    <3>2. BlockSize * 0 = 0
      BY <1>1
    <3> QED BY <1>1, <3>1, <3>2 DEF InRing
  <2>2. \A k \in 1 .. Len(block) : block[k] = InRing + k
    BY <1>4, <2>1 DEF BlocksTrue
  <2>3. Len(cmdList') = 0 /\ Len(currBlock') = 0
    BY <1>4
  <2>4. BlocksTrue'
    BY <2>3 DEF BlocksTrue
  <2> QED BY <1>2, <2>2, <2>4
<1> QED BY <1>3, <1>4

\* A step accepts a message, or executes the next command, or none of both.
OneStep ==
  \/ UNCHANGED accepted /\ executed' \in {executed, executed + 1}
  \/ UNCHANGED executed /\ \E n \in MessageSizes : accepted' = accepted + n

LEMMA OrderStep ==
  ASSUME ~raced', IInv, CommandsPlaced, BlocksTrue, [Next]_vars
  PROVE  CommandsPlaced' /\ BlocksTrue' /\ OneStep
<1> USE DEF OneStep
<1>1. CASE Quiet
  <2>1. RingStays /\ UNCHANGED <<accepted, pendCnt, cmdList, currBlock>> /\ executed' = executed
    BY <1>1 DEF Quiet, RingStays
  <2>2. BlocksTrue' /\ InRing' = InRing
    BY <2>1, BlocksKept
  <2> QED BY <2>1, <2>2, CommandsStay
<1>2. ASSUME NEW s \in Skbs, XmitPullFail(s) \/ XmitNoCarrier(s)
      PROVE  CommandsPlaced' /\ BlocksTrue' /\ OneStep
  <2>1. RingStays /\ executed' = executed
    BY <1>2, OffRing DEF RingStays
  <2>2. UNCHANGED <<accepted, pendCnt, cmdList, currBlock>>
    BY <1>2, PullIs
  <2>3. BlocksTrue' /\ InRing' = InRing
    BY <2>2, BlocksKept
  <2> QED BY <2>1, <2>2, <2>3, CommandsStay
<1>3. ASSUME NEW s \in Skbs, NEW n \in FragDescs, NEW h \in HeaderDescs, XmitStart(s, n, h)
      PROVE  CommandsPlaced' /\ BlocksTrue' /\ OneStep
  <2>1. UNCHANGED <<executed, accepted, pendCnt, cmdList, currBlock>>
    BY <1>3, XmitStartIs
  <2> QED BY <1>3, <2>1, BlocksKept, CommandsStart
<1>4. CASE XmitMapFail
  <2>1. UNCHANGED <<executed, accepted, pendCnt, cmdList, currBlock>>
    BY <1>4, MapFailIs
  <2> QED BY <1>4, <2>1, BlocksKept, CommandsDropped
<1>5. ASSUME NEW t \in Senders, SendQueue(t)
      PROVE  CommandsPlaced' /\ BlocksTrue' /\ OneStep
  <2>1. RingStays /\ executed' = executed
    BY <1>5, OffRing DEF RingStays
  <2>2. BlocksTrue' /\ InRing' = InRing
    BY <1>5, BlocksQueue
  <2>3. slen[t] \in MessageSizes /\ accepted' = accepted + slen[t]
    BY <1>5, QueueIs
  <2> QED BY <2>1, <2>2, <2>3, CommandsStay
<1>6. ASSUME NEW t \in Senders, NEW n \in MessageSizes, SendDirect(t, n)
      PROVE  CommandsPlaced' /\ BlocksTrue' /\ OneStep
  <2> DEFINE seq == NextCommands(n)
  <2>1. /\ Puts(seq) /\ seq \in Seq(Commands) /\ Len(seq) = n /\ n \in Nat
        /\ \A k \in 1 .. n : seq[k] = accepted + k
        /\ pendCnt = 0 /\ accepted' = accepted + n
        /\ UNCHANGED <<pendCnt, cmdList, currBlock>>
    BY <1>6, SendDirectIs
  <2>2. executed' = executed
    BY <2>1 DEF Puts
  <2>3. InRing = accepted /\ InRing' = InRing + n
    BY <2>1, Counts DEF InRing
  <2> HIDE DEF seq
  <2>4. CommandsPlaced'
    BY <2>1, <2>3, CommandsPut
  <2>5. Len(cmdList') = 0 /\ Len(currBlock') = 0
    BY <2>1, NoneWait
  <2>6. BlocksTrue'
    BY <2>5 DEF BlocksTrue
  <2> QED BY <2>1, <2>2, <2>4, <2>6
<1>7. ASSUME NEW c \in Cpus, PollReap(c)
      PROVE  CommandsPlaced' /\ BlocksTrue' /\ OneStep
  <2>1. RingStays /\ executed' = executed
    BY <1>7, OffRing DEF RingStays
  <2>2. UNCHANGED <<accepted, pendCnt, cmdList, currBlock>>
    BY <1>7, ReapIs
  <2>3. BlocksTrue' /\ InRing' = InRing
    BY <2>2, BlocksKept
  <2> QED BY <2>1, <2>2, <2>3, CommandsStay
<1>8. ASSUME NEW c \in Cpus, PollCommit(c)
      PROVE  CommandsPlaced' /\ BlocksTrue' /\ OneStep
  <2>1. UNCHANGED <<executed, accepted, pendCnt, cmdList, currBlock>>
    BY <1>8, CommitIs
  <2> QED BY <1>8, <2>1, BlocksKept, CommandsCommitted
<1>9. ASSUME NEW c \in Cpus, DrainBlock(c)
      PROVE  CommandsPlaced' /\ BlocksTrue' /\ OneStep
  <2>1. PICK block \in Seq(Commands) :
           /\ Puts(block) /\ accepted' = accepted /\ pendCnt' = pendCnt - Len(block)
           /\ \/ /\ cmdList # <<>> /\ block = Head(cmdList) /\ Len(block) = BlockSize
                 /\ cmdList' = Tail(cmdList) /\ currBlock' = currBlock
              \/ /\ cmdList = <<>> /\ block = currBlock
                 /\ cmdList' = cmdList /\ currBlock' = <<>>
    BY <1>9, DrainIs
  <2>2. /\ BlocksTrue' /\ InRing' = InRing + Len(block)
        /\ \A k \in 1 .. Len(block) : block[k] = InRing + k
    BY <2>1, BlocksDrained
  <2>3. executed' = executed
    BY <2>1 DEF Puts
  <2> QED BY <2>1, <2>2, <2>3, CommandsPut
<1>10. CASE CardComplete
  <2>1. UNCHANGED <<accepted, pendCnt, cmdList, currBlock>>
    BY <1>10, CardIs
  <2> QED BY <1>10, <2>1, BlocksKept, CommandsExecuted
<1>11. CASE Close
  <2>1. RingStays /\ executed' = executed
    BY <1>11, OffRing DEF RingStays
  <2>2. UNCHANGED <<accepted, pendCnt, cmdList, currBlock>>
    BY <1>11, CloseIs
  <2>3. BlocksTrue' /\ InRing' = InRing
    BY <2>2, BlocksKept
  <2> QED BY <2>1, <2>2, <2>3, CommandsStay
<1>12. Quiet \/ Loud
  BY QuietStep
<1> QED BY <1>1, <1>2, <1>3, <1>4, <1>5, <1>6, <1>7, <1>8, <1>9, <1>10, <1>11, <1>12 DEF Loud

-----------------------------------------------------------------------------
(* The ring and the blocks as one queue.                                   *)

\* The elements of a set of places whose values ascend without a gap, counted.
LEMMA Ranks ==
  ASSUME NEW m \in Int, NEW P \in SUBSET (0 .. m), NEW g \in [P -> Int],
         NEW a \in Int, NEW b \in Int, a <= b,
         \A k \in P : a < g[k] /\ g[k] <= b,
         \A j, k \in P : j < k => g[j] < g[k],
         \A c \in a + 1 .. b : \E k \in P : g[k] = c
  PROVE  /\ Cardinality(P) = b - a
         /\ \A k \in P : Cardinality({j \in P : j <= k}) = g[k] - a
<1> DEFINE Below(d) == {k \in P : g[k] <= d}
<1>1. ASSUME NEW d \in a .. b PROVE Cardinality(Below(d)) = d - a
  <2> DEFINE S == Below(d)
             T == a + 1 .. d
             f == [k \in S |-> g[k]]
  <2>1. IsFiniteSet(S)
    <3>1. IsFiniteSet(0 .. m)
      BY FS_Interval
    <3> QED BY <3>1, FS_Subset
  <2>2. f \in [S -> T]
    <3>1. ASSUME NEW k \in S PROVE g[k] \in T
      <4>1. g[k] \in Int /\ a < g[k] /\ g[k] <= d /\ d \in Int
        OBVIOUS
      <4> QED BY <4>1
    <3> HIDE DEF S, T
    <3> QED BY <3>1
  <2>3. \A j, k \in S : f[j] = f[k] => j = k
    BY DEF Below
  <2>4. \A c \in T : \E k \in S : f[k] = c
    BY DEF Below
  <2>5. f \in Bijection(S, T)
    <3> HIDE DEF S, T, f
    <3> QED BY <2>2, <2>3, <2>4 DEF Bijection, Injection, IsInjective, Surjection
  <2>6. Cardinality(T) = Cardinality(S)
    <3> HIDE DEF S, T, f
    <3> QED BY <2>1, <2>5, FS_Bijection DEF ExistsBijection
  <2>7. Cardinality(T) = d - a
    <3>1. d \in Int /\ a <= d /\ a + 1 \in Int
      OBVIOUS
    <3>2. Cardinality(a + 1 .. d) = IF a + 1 > d THEN 0 ELSE d - (a + 1) + 1
      BY <3>1, FS_Interval
    <3> QED BY <3>1, <3>2
  <2> QED BY <2>6, <2>7
<1>2. Below(b) = P /\ \A k \in P : Below(g[k]) = {j \in P : j <= k} /\ g[k] \in a .. b
  <2>1. Below(b) = P
    OBVIOUS
  <2>2. ASSUME NEW k \in P, NEW j \in P PROVE g[j] <= g[k] <=> j <= k
    <3>1. j \in Int /\ k \in Int /\ g[j] \in Int /\ g[k] \in Int
      OBVIOUS
    <3>2. (j < k => g[j] < g[k]) /\ (k < j => g[k] < g[j])
      OBVIOUS
    <3> QED BY <3>1, <3>2
  <2>3. \A k \in P : Below(g[k]) = {j \in P : j <= k}
    BY <2>2
  <2>4. \A k \in P : g[k] \in a .. b
    OBVIOUS
  <2> QED BY <2>1, <2>3, <2>4
<1> HIDE DEF Below
<1>3. b \in a .. b
  OBVIOUS
<1> QED BY <1>1, <1>2, <1>3

\* The descriptors from the consumer to the top, by how far they are ahead.
LEMMA OffsetIs ==
  ASSUME IInv
  PROVE  /\ Dist(cmdConsumer, Top) \in Nat
         /\ \A k \in 0 .. Dist(cmdConsumer, Top) - 1 :
              /\ Advance(cmdConsumer, k) \in Slots /\ Ahead(Advance(cmdConsumer, k))
              /\ At(Advance(cmdConsumer, k)) = At(cmdConsumer) + k
         /\ \A i \in Slots : Ahead(i) =>
              \E k \in 0 .. Dist(cmdConsumer, Top) - 1 : i = Advance(cmdConsumer, k)
<1> DEFINE c == At(cmdConsumer)
           t == At(Top)
           n == Dist(cmdConsumer, Top)
<1>1. /\ {lastCmdConsumer, cmdConsumer, Top} \subseteq Slots
      /\ c \in Nat /\ t \in Nat /\ c <= t /\ t < MaxTxDescCount /\ MaxTxDescCount \in Nat
      /\ \A i \in Slots : At(i) \in Nat /\ \A j \in Slots : At(i) = At(j) => i = j
  <2>1. /\ {lastCmdConsumer, cmdConsumer, cmdProducer, Top, BufTop} \subseteq Slots
        /\ At(cmdConsumer) <= At(cmdProducer) /\ At(cmdProducer) <= At(BufTop)
        /\ At(BufTop) <= At(Top)
    BY Places
  <2>2. \A i \in Slots : /\ At(i) \in Nat /\ At(i) < MaxTxDescCount
                         /\ \A j \in Slots : At(i) = At(j) => i = j
    BY AtIs
  <2> QED BY <2>1, <2>2, RingAssumption
<1>2. n = t - c /\ n \in Nat
  <2>1. n = t - c
    BY <1>1, ShiftIs
  <2> HIDE DEF n, t, c
  <2> QED BY <1>1, <2>1
<1>3. \A i \in Slots : Ahead(i) <=> c <= At(i) /\ At(i) < t
  BY DEF Ahead
<1> HIDE DEF n, t
<1>4. ASSUME NEW k \in 0 .. n - 1
      PROVE  Advance(cmdConsumer, k) \in Slots /\ At(Advance(cmdConsumer, k)) = c + k
  <2>1. k \in Nat /\ c + k < MaxTxDescCount
    <3> HIDE DEF c
    <3> QED BY <1>1, <1>2
  <2>2. Dist(lastCmdConsumer, cmdConsumer) + k < MaxTxDescCount
    BY <2>1 DEF At
  <2>3. /\ Advance(cmdConsumer, k) \in Slots
        /\ Dist(lastCmdConsumer, Advance(cmdConsumer, k)) = Dist(lastCmdConsumer, cmdConsumer) + k
    BY <1>1, <2>1, <2>2, DistAdvance
  <2> QED BY <2>3 DEF At
<1> HIDE DEF c
<1>5. \A k \in 0 .. n - 1 : Ahead(Advance(cmdConsumer, k))
  <2> SUFFICES ASSUME NEW k \in 0 .. n - 1 PROVE Ahead(Advance(cmdConsumer, k))
    OBVIOUS
  <2>1. c <= c + k /\ c + k < t
    BY <1>1, <1>2
  <2> QED BY <1>3, <1>4, <2>1
<1>6. ASSUME NEW i \in Slots, Ahead(i) PROVE \E k \in 0 .. n - 1 : i = Advance(cmdConsumer, k)
  <2> DEFINE k == At(i) - c
  <2>1. k \in 0 .. n - 1 /\ At(i) = c + k
    BY <1>1, <1>2, <1>3, <1>6
  <2> HIDE DEF k
  <2>2. Advance(cmdConsumer, k) \in Slots /\ At(Advance(cmdConsumer, k)) = At(i)
    BY <1>4, <2>1
  <2>3. i = Advance(cmdConsumer, k)
    BY <1>1, <2>2
  <2> QED BY <2>1, <2>3
<1> QED BY <1>2, <1>4, <1>5, <1>6 DEF n, c

\* The ring holds the commands that follow the last one executed.
LEMMA RingHolds ==
  ASSUME IInv, CommandsPlaced
  PROVE  RingCommands = [k \in 1 .. InRing - executed |-> executed + k]
<1> DEFINE m == Dist(cmdConsumer, Top) - 1
           at(k) == Advance(cmdConsumer, k)
           P == {k \in 0 .. m : desc[at(k)] \in Commands}
           g == [k \in P |-> desc[at(k)]]
           upTo(k) == Cardinality({j \in P : j <= k})
<1>1. /\ m \in Int /\ \A k \in 0 .. m : at(k) \in Slots /\ Ahead(at(k)) /\ At(at(k)) = At(cmdConsumer) + k
      /\ \A i \in Slots : Ahead(i) => \E k \in 0 .. m : i = at(k)
  BY OffsetIs
<1>2. InRing \in Int /\ executed \in Nat /\ executed <= InRing /\ Commands \subseteq Nat
      /\ executed + 1 .. InRing \subseteq Commands /\ At(cmdConsumer) \in Nat
  <2>1. InRing <= MaxCommands /\ MaxCommands \in Nat
    BY Counts, RingAssumption DEF InRing, IInv, TypeOK
  <2>2. At(cmdConsumer) \in Nat
    BY Places, AtIs
  <2> QED BY <2>1, <2>2, Counts DEF CommandsPlaced, Commands
<1> HIDE DEF m, at
<1>3. P \in SUBSET (0 .. m) /\ g \in [P -> Int] /\ \A k \in P : g[k] = desc[at(k)]
  <2>1. \A k \in P : desc[at(k)] \in Int
    <3> SUFFICES ASSUME NEW k \in P PROVE desc[at(k)] \in Int
      OBVIOUS
    <3>1. desc[at(k)] \in Commands
      OBVIOUS
    <3>2. \A x \in Commands : x \in Int
      BY <1>2
    <3> HIDE DEF P, g, upTo
    <3> QED BY <3>1, <3>2
  <2>2. P \in SUBSET (0 .. m)
    OBVIOUS
  <2> HIDE DEF P
  <2> QED BY <2>1, <2>2
<1>4. \A k \in P : executed < g[k] /\ g[k] <= InRing
  BY <1>1, <1>3 DEF CommandsPlaced
<1>5. ASSUME NEW j \in P, NEW k \in P, j < k PROVE g[j] < g[k]
  <2>1. At(at(j)) < At(at(k))
    <3>1. At(at(j)) = At(cmdConsumer) + j /\ At(at(k)) = At(cmdConsumer) + k
      BY <1>1
    <3>2. j \in Int /\ k \in Int
      BY <1>1
    <3>3. At(cmdConsumer) + j < At(cmdConsumer) + k
      BY <1>2, <1>5, <3>2
    <3> QED BY <3>1, <3>3
  <2>2. /\ at(j) \in Slots /\ Ahead(at(j)) /\ desc[at(j)] \in Commands
        /\ at(k) \in Slots /\ Ahead(at(k)) /\ desc[at(k)] \in Commands
    BY <1>1
  <2>3. desc[at(j)] < desc[at(k)]
    BY <2>1, <2>2 DEF CommandsPlaced
  <2> QED BY <1>3, <2>3
<1>6. ASSUME NEW c \in executed + 1 .. InRing PROVE \E k \in P : g[k] = c
  <2>1. PICK i \in Slots : Ahead(i) /\ desc[i] = c
    BY DEF CommandsPlaced
  <2>2. PICK k \in 0 .. m : i = at(k)
    BY <1>1, <2>1
  <2>3. k \in P
    BY <1>2, <2>1, <2>2
  <2> QED BY <1>3, <2>1, <2>2, <2>3
<1>7. Cardinality(P) = InRing - executed /\ \A k \in P : upTo(k) = g[k] - executed
  <2>1. P \in SUBSET (0 .. m) /\ g \in [P -> Int] /\ m \in Int
    BY <1>1, <1>3
  <2>2. executed \in Int /\ InRing \in Int /\ executed <= InRing
    BY <1>2
  <2>3. \A j, k \in P : j < k => g[j] < g[k]
    BY <1>5
  <2>4. \A c \in executed + 1 .. InRing : \E k \in P : g[k] = c
    BY <1>6
  <2> HIDE DEF P, g
  <2> QED BY ZenonT(60), <1>4, <2>1, <2>2, <2>3, <2>4, Ranks
<1>8. RingCommands = [n \in 1 .. Cardinality(P) |-> desc[at(CHOOSE k \in P : upTo(k) = n)]]
  BY DEF RingCommands, m, at
<1> HIDE DEF P, g, upTo
<1>9. ASSUME NEW n \in 1 .. InRing - executed
      PROVE  desc[at(CHOOSE k \in P : upTo(k) = n)] = executed + n
  <2>1. executed + n \in executed + 1 .. InRing
    BY <1>2
  <2>2. PICK k \in P : g[k] = executed + n
    BY <1>6, <2>1
  <2>3. upTo(k) = n
    BY <1>2, <1>7, <2>2
  <2> DEFINE x == CHOOSE y \in P : upTo(y) = n
  <2>4. x \in P /\ upTo(x) = n
    BY <2>3
  <2> HIDE DEF x
  <2>5. g[x] = executed + n
    <3>1. n = g[x] - executed /\ g[x] \in Int
      BY <1>3, <1>7, <2>4
    <3> QED BY <1>2, <3>1
  <2>6. desc[at(x)] = executed + n
    BY <1>3, <2>4, <2>5
  <2> QED BY <2>6 DEF x
<1> QED BY <1>7, <1>8, <1>9

\* A place within blocks of the same length.
LEMMA DivMod ==
  ASSUME NEW a \in Nat, NEW b \in Nat, b > 0
  PROVE  a \div b \in Nat /\ a % b \in Nat /\ a % b < b /\ a = b * (a \div b) + (a % b)
OBVIOUS

LEMMA TimesUp ==
  ASSUME NEW b \in Nat, NEW x \in Int, NEW y \in Int, x <= y
  PROVE  b * x <= b * y
OBVIOUS

LEMMA InBlock ==
  ASSUME NEW a \in Nat, NEW b \in Nat, b > 0, NEW n \in Nat, a < b * n
  PROVE  a \div b < n
<1> DEFINE q == a \div b
<1>1. q \in Nat /\ b * q <= a
  BY DivMod
<1>2. b * n \in Nat /\ b * q \in Nat
  BY <1>1
<1> HIDE DEF q
<1>3. CASE n <= q
  <2>1. b * n <= b * q
    BY <1>1, <1>3, TimesUp
  <2> QED BY <1>1, <1>2, <2>1
<1> QED BY <1>1, <1>3 DEF q

\* The blocks hold the commands that follow those in the ring.
LEMMA BlocksHold ==
  ASSUME IInv, BlocksTrue
  PROVE  BlockCommands = [k \in 1 .. pendCnt |-> InRing + k]
<1> DEFINE full == BlockSize * Len(cmdList)
           len == Len(currBlock)
           q(k) == (k - 1) \div BlockSize
           o(k) == (k - 1) % BlockSize
<1>1. /\ accepted \in Nat /\ pendCnt \in Nat /\ InRing \in Int /\ BlockSize \in Nat /\ BlockSize > 0
      /\ Len(cmdList) \in Nat /\ len \in Nat /\ full \in Nat /\ pendCnt = full + len
  BY SMTT(30), Counts DEF IInv, TypeOK, PendingCounted
<1>2. BlockCommands = [k \in 1 .. full + len |-> IF k > full THEN currBlock[k - full]
                                                 ELSE cmdList[q(k) + 1][o(k) + 1]]
  BY DEF BlockCommands
<1>3. ASSUME NEW k \in 1 .. pendCnt, k > full PROVE currBlock[k - full] = InRing + k
  <2>1. k - full \in 1 .. len
    <3> HIDE DEF full, len
    <3> QED BY <1>1, <1>3
  <2>2. currBlock[k - full] = accepted - len + (k - full)
    BY <2>1 DEF BlocksTrue
  <2>3. accepted - len + (k - full) = InRing + k
    <3> HIDE DEF full, len
    <3> QED BY <1>1 DEF InRing
  <2> QED BY <2>2, <2>3
<1>4. ASSUME NEW k \in 1 .. pendCnt, ~(k > full) PROVE cmdList[q(k) + 1][o(k) + 1] = InRing + k
  <2>1. k - 1 \in Nat /\ k - 1 < full /\ k \in Nat
    <3> HIDE DEF full, len
    <3> QED BY <1>1, <1>4
  <2>2. q(k) \in Nat /\ o(k) \in Nat /\ o(k) < BlockSize /\ k - 1 = BlockSize * q(k) + o(k)
    BY <1>1, <2>1, DivMod
  <2>3. q(k) < Len(cmdList)
    BY <1>1, <2>1, InBlock
  <2> DEFINE b == q(k) + 1
             e == o(k) + 1
  <2>4. b \in 1 .. Len(cmdList) /\ e \in 1 .. BlockSize /\ b - 1 = q(k)
    <3> HIDE DEF q, o
    <3> QED BY <1>1, <2>2, <2>3
  <2>5. cmdList[b][e] = InRing + BlockSize * (b - 1) + e
    BY <2>4 DEF BlocksTrue
  <2>6. InRing + BlockSize * q(k) + (o(k) + 1) = InRing + k
    <3> DEFINE x == BlockSize * q(k)
               r == o(k)
    <3>1. x \in Nat /\ r \in Nat /\ k - 1 = x + r
      BY <1>1, <2>2
    <3>2. InRing \in Int /\ k \in Nat
      BY <1>1, <2>1
    <3> HIDE DEF x, r
    <3>3. InRing + x + (r + 1) = InRing + k
      BY <3>1, <3>2
    <3> QED BY <3>3 DEF x, r
  <2>7. InRing + BlockSize * (b - 1) + e = InRing + k
    BY <2>4, <2>6
  <2> QED BY <2>5, <2>7
<1> HIDE DEF full, len, q, o
<1> QED BY <1>1, <1>2, <1>3, <1>4

\* The queue of the channel: what is accepted and not executed, in order.
InQueue == RingCommands \o BlockCommands
QueueTrue ==
  /\ accepted \in Nat /\ executed \in Nat /\ executed <= accepted
  /\ InQueue = [k \in 1 .. accepted - executed |-> executed + k]

LEMMA QueueHolds ==
  ASSUME IInv, CommandsPlaced, BlocksTrue
  PROVE  QueueTrue
<1> DEFINE r == InRing - executed
           ring == [k \in 1 .. r |-> executed + k]
           blocks == [k \in 1 .. pendCnt |-> InRing + k]
<1>1. /\ accepted \in Nat /\ pendCnt \in Nat /\ executed \in Nat /\ InRing \in Int
      /\ executed <= InRing /\ InRing = accepted - pendCnt
  BY Counts DEF CommandsPlaced, InRing
<1>2. r \in Nat /\ r + pendCnt = accepted - executed /\ executed + r = InRing
  BY <1>1
<1>3. RingCommands = ring /\ BlockCommands = blocks
  BY RingHolds, BlocksHold
<1> HIDE DEF r
<1>4. ring \in Seq(Nat) /\ Len(ring) = r /\ blocks \in Seq(Int) /\ Len(blocks) = pendCnt
  BY <1>1, <1>2
<1>5. ring \o blocks = [k \in 1 .. r + pendCnt |-> executed + k]
  <2>1. ring \o blocks = [k \in 1 .. r + pendCnt |->
                            IF k <= r THEN ring[k] ELSE blocks[k - r]]
    BY <1>1, <1>2, <1>4
  <2>2. ASSUME NEW k \in 1 .. r + pendCnt
        PROVE  (IF k <= r THEN ring[k] ELSE blocks[k - r]) = executed + k
    <3>1. CASE k <= r
      <4>1. k \in 1 .. r
        BY <1>2, <3>1
      <4> QED BY <3>1, <4>1
    <3>2. CASE ~(k <= r)
      <4>1. k - r \in 1 .. pendCnt /\ k \in Int
        BY <1>1, <1>2, <3>2
      <4>2. blocks[k - r] = InRing + (k - r)
        BY <4>1
      <4>3. InRing + (k - r) = executed + k
        BY <1>1, <1>2, <4>1
      <4> QED BY <3>2, <4>2, <4>3
    <3> QED BY <3>1, <3>2
  <2> HIDE DEF ring, blocks
  <2> QED BY <2>1, <2>2
<1>6. executed <= accepted
  BY <1>1
<1> QED BY <1>1, <1>2, <1>3, <1>5, <1>6 DEF QueueTrue, InQueue

\* Numbers from a on: appending the next ones, and taking the first.
LEMMA NextNumbers ==
  ASSUME NEW a \in Nat, NEW b \in Nat, a <= b, NEW n \in Nat
  PROVE  [k \in 1 .. (b + n) - a |-> a + k]
         = [k \in 1 .. b - a |-> a + k] \o [k \in 1 .. n |-> b + k]
<1> DEFINE old == [k \in 1 .. b - a |-> a + k]
           new == [k \in 1 .. n |-> b + k]
           l == b - a
<1>1. l \in Nat /\ a + l = b /\ (b + n) - a = l + n
  OBVIOUS
<1>2. old = [k \in 1 .. l |-> a + k]
  OBVIOUS
<1> HIDE DEF l
<1>3. old \in Seq(Nat) /\ Len(old) = l /\ new \in Seq(Nat) /\ Len(new) = n
  BY <1>1, <1>2
<1>4. old \o new = [k \in 1 .. l + n |-> IF k <= l THEN old[k] ELSE new[k - l]]
  BY <1>1, <1>3
<1>5. ASSUME NEW k \in 1 .. l + n
      PROVE  (IF k <= l THEN old[k] ELSE new[k - l]) = a + k
  <2>1. CASE k <= l
    <3>1. k \in 1 .. l
      BY <1>1, <2>1
    <3> QED BY <1>2, <2>1, <3>1
  <2>2. CASE ~(k <= l)
    <3>1. k - l \in 1 .. n /\ k \in Int
      BY <1>1, <2>2
    <3>2. new[k - l] = b + (k - l)
      BY <3>1
    <3>3. b + (k - l) = a + k
      BY <1>1, <3>1
    <3> QED BY <2>2, <3>2, <3>3
  <2> QED BY <2>1, <2>2
<1> HIDE DEF old, new
<1>6. old \o new = [k \in 1 .. l + n |-> a + k]
  BY <1>4, <1>5
<1> QED BY <1>1, <1>6 DEF old, new

LEMMA FirstNumber ==
  ASSUME NEW a \in Nat, NEW b \in Nat, a + 1 <= b
  PROVE  /\ [k \in 1 .. b - a |-> a + k] # <<>>
         /\ Head([k \in 1 .. b - a |-> a + k]) = a + 1
         /\ Tail([k \in 1 .. b - a |-> a + k]) = [k \in 1 .. b - (a + 1) |-> (a + 1) + k]
<1> DEFINE l == b - a
           queue == [k \in 1 .. l |-> a + k]
<1>1. l \in Nat /\ l >= 1 /\ b - (a + 1) = l - 1
  OBVIOUS
<1> HIDE DEF l
<1>2. queue \in Seq(Nat) /\ Len(queue) = l
  BY <1>1
<1>3. queue # <<>> /\ Head(queue) = a + 1
  BY <1>1, <1>2
<1>4. Tail(queue) = [k \in 1 .. l - 1 |-> queue[k + 1]]
  BY <1>1, <1>2
<1>5. \A k \in 1 .. l - 1 : queue[k + 1] = (a + 1) + k
  BY <1>1
<1>6. Tail(queue) = [k \in 1 .. l - 1 |-> (a + 1) + k]
  <2> HIDE DEF queue
  <2> QED BY <1>4, <1>5
<1> QED BY <1>1, <1>3, <1>6 DEF l

\* The ring and the blocks refine a FIFO channel: a step hands in the commands of one
\* message behind all others, or the card takes the first one, or neither changes.
THEOREM OneQueue == Spec => CommandOrder
<1>1. Init => CommandsPlaced /\ BlocksTrue
  <2> SUFFICES ASSUME Init PROVE CommandsPlaced /\ BlocksTrue
    OBVIOUS
  <2>1. /\ accepted = 0 /\ executed = 0 /\ pendCnt = 0 /\ cmdList = <<>> /\ currBlock = <<>>
        /\ xpc = "idle"
        /\ \A i \in Slots : desc[i] = Unused
        /\ Unused \notin Commands
    BY DescAssumption DEF Init, Commands
  <2>2. InRing = 0
    BY <2>1 DEF InRing
  <2>3. CommandsPlaced
    BY <2>1, <2>2 DEF CommandsPlaced
  <2>4. BlocksTrue
    BY <2>1 DEF BlocksTrue
  <2> QED BY <2>3, <2>4
<1> DEFINE Ordered == IInv /\ CommandsPlaced /\ BlocksTrue
<1>2. Ordered /\ ~raced' /\ [Next]_vars => Ordered' /\ OneStep
  BY OrderStep, Inductive
<1>3. Ordered => QueueTrue
  BY QueueHolds
<1>4. Init /\ QueueTrue => Channel!Init
  <2> SUFFICES ASSUME Init, QueueTrue PROVE Channel!Init
    OBVIOUS
  <2>1. accepted = 0 /\ executed = 0
    BY DEF Init
  <2>2. InQueue = [k \in 1 .. 0 |-> executed + k]
    BY <2>1 DEF QueueTrue
  <2>3. InQueue = <<>>
    BY <2>2
  <2> QED BY <2>1, <2>3 DEF Channel!Init, InQueue
<1>5. QueueTrue /\ QueueTrue' /\ OneStep => [Channel!Next]_<<accepted, InQueue, executed>>
  <2> SUFFICES ASSUME QueueTrue, QueueTrue', OneStep
               PROVE  [Channel!Next]_<<accepted, InQueue, executed>>
    OBVIOUS
  <2>1. InQueue = [k \in 1 .. accepted - executed |-> executed + k]
    BY DEF QueueTrue
  <2>2. InQueue' = [k \in 1 .. accepted' - executed' |-> executed' + k]
    BY DEF QueueTrue
  <2>3. /\ accepted \in Nat /\ executed \in Nat /\ executed <= accepted
        /\ accepted' \in Nat /\ executed' \in Nat /\ executed' <= accepted'
    BY DEF QueueTrue
  <2>4. CASE UNCHANGED executed /\ \E n \in MessageSizes : accepted' = accepted + n
    <3>1. PICK n \in MessageSizes : accepted' = accepted + n
      BY <2>4
    <3>2. n \in Nat
      BY RingAssumption
    <3>3. InQueue' = [k \in 1 .. (accepted + n) - executed |-> executed + k]
      BY <2>2, <2>4, <3>1
    <3>4. InQueue' = InQueue \o [k \in 1 .. n |-> accepted + k]
      BY <2>1, <2>3, <3>2, <3>3, NextNumbers
    <3>5. Channel!Accept(n)
      BY <2>4, <3>1, <3>4 DEF Channel!Accept, InQueue
    <3> QED BY <3>5 DEF Channel!Next
  <2>5. CASE UNCHANGED accepted /\ executed' = executed + 1
    <3>1. executed + 1 <= accepted
      BY <2>3, <2>5
    <3>2. InQueue' = [k \in 1 .. accepted - (executed + 1) |-> (executed + 1) + k]
      BY <2>2, <2>5
    <3>3. InQueue # <<>> /\ Head(InQueue) = executed + 1 /\ InQueue' = Tail(InQueue)
      BY <2>1, <2>3, <3>1, <3>2, FirstNumber
    <3>4. Channel!Deliver
      BY <2>5, <3>3 DEF Channel!Deliver, InQueue
    <3> QED BY <3>4 DEF Channel!Next
  <2>6. CASE UNCHANGED <<accepted, executed>>
    <3>1. InQueue' = InQueue
      BY <2>1, <2>2, <2>6
    <3> QED BY <2>6, <3>1
  <2> QED BY <2>4, <2>5, <2>6 DEF OneStep
<1>6. (raced \/ Ordered) /\ [Next]_vars => raced' \/ Ordered'
  BY <1>2, RacedStays
<1>7. /\ raced \/ Ordered
      /\ [Next]_vars
      => [raced' \/ Channel!Next]_<<accepted, InQueue, executed>>
  <2>1. ASSUME Ordered, ~raced', [Next]_vars
        PROVE  [Channel!Next]_<<accepted, InQueue, executed>>
    <3>1. QueueTrue /\ Ordered' /\ OneStep
      BY <1>2, <1>3, <2>1
    <3>2. QueueTrue'
      BY <1>3, <3>1, PTL
    <3> QED BY <1>5, <3>1, <3>2
  <2> QED BY <2>1, RacedStays
<1>8. Init => Ordered /\ Channel!Init
  BY <1>1, <1>3, <1>4, InitInv
<1>9. Spec => Channel!Init /\ [][raced' \/ Channel!Next]_<<accepted, InQueue, executed>>
  <2> HIDE DEF Ordered
  <2> QED BY <1>6, <1>7, <1>8, PTL DEF Spec
<1> QED BY <1>9 DEF CommandOrder, InQueue

=============================================================================
