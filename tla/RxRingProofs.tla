---------------------------- MODULE RxRingProofs ----------------------------
(***************************************************************************)
(* Proofs about RxRing, for every ring size, threshold and set of polls:   *)
(* the types, the exclusion that the posting flag gives although it is     *)
(* cleared outside of the lock, the counts of the free lists, the place of *)
(* every buffer, and the refinement of BufferPool.                         *)
(***************************************************************************)
EXTENDS RxRing, FiniteSetTheorems, SequenceTheorems, TLAPS

\* The polls and the opener are never in each other's states.
PcOK ==
  /\ pc[Opener] \in {"open", "opened"} \cup PostingPcs
  /\ \A c \in Cpus : pc[c] \in {"idle", "rcv", "free"} \cup PostingPcs

IInv == TypeOK /\ PcOK /\ OnePoster /\ CountsMatch

-----------------------------------------------------------------------------
LEMMA AdvanceInBuffers ==
  ASSUME NEW i \in Nat, NEW n \in Nat
  PROVE  Advance(i, n) \in Buffers
  <1>1. MaxRxDescCount \in Nat \ {0} BY RingAssumption
  <1>2. i + n \in Nat OBVIOUS
  <1>3. (i + n) % MaxRxDescCount \in 0 .. MaxRxDescCount - 1 BY <1>1, <1>2
  <1> QED BY <1>3 DEF Advance, Buffers

LEMMA ThreadsDistinct == Opener \in Threads /\ Opener \notin Cpus /\ Cpus \subseteq Threads
  BY RingAssumption DEF Threads

LEMMA InitInv == Init => IInv
  <1> SUFFICES ASSUME Init PROVE IInv OBVIOUS
  <1> USE RingAssumption, ThreadsDistinct
  <1>1. AllBuffers \in Seq(Buffers) /\ Len(AllBuffers) = MaxRxDescCount
    BY DEF AllBuffers, Buffers
  <1>2. 0 \in Buffers BY DEF Buffers
  <1>3. TypeOK
    <2>1. /\ desc \in [Buffers -> Buffers] /\ hasSkb \in [Buffers -> BOOLEAN]
          /\ producer \in Buffers /\ cardCons \in Buffers /\ published \in Nat
          /\ shared \in Seq(Buffers) /\ sharedCount \in Nat
          /\ allocFailures \in Nat /\ posting \in BOOLEAN
      BY <1>1, <1>2 DEF Init
    <2>2. /\ local \in [Cpus -> Seq(Buffers)] /\ localCount \in [Cpus -> Nat]
          /\ messages \in [Cpus -> Seq(Seq(Buffers))]
          /\ cur \in [Cpus -> Seq(Buffers)]
      BY DEF Init
    <2>3. /\ toPost \in [Threads -> Seq(Buffers)]
          /\ toPostCount \in [Threads -> Nat]
          /\ prod \in [Threads -> Buffers] /\ count \in [Threads -> Nat]
      BY <1>2 DEF Init
    <2>4. pc \in [Threads -> {"open", "opened", "idle", "rcv", "free"} \cup PostingPcs]
      BY DEF Init
    <2> QED BY <2>1, <2>2, <2>3, <2>4 DEF TypeOK
  <1>4. PcOK BY DEF Init, PcOK
  <1>5. OnePoster BY DEF Init, OnePoster, PostingPcs, Threads
  <1>6. CountsMatch BY <1>1 DEF Init, CountsMatch
  <1> QED BY <1>3, <1>4, <1>5, <1>6 DEF IInv

\* The thread that takes the shared list gets well-typed locals.
LEMMA TakeTyped ==
  ASSUME TypeOK, NEW t \in Threads, NEW list \in Seq(Buffers), NEW n \in Nat,
         Take(t, list, n)
  PROVE  /\ toPost' \in [Threads -> Seq(Buffers)]
         /\ toPostCount' \in [Threads -> Nat]
         /\ prod' \in [Threads -> Buffers] /\ count' \in [Threads -> Nat]
         /\ shared' \in Seq(Buffers) /\ sharedCount' \in Nat
         /\ posting' \in BOOLEAN
  BY DEF TypeOK, Take

-----------------------------------------------------------------------------
LEMMA TypeStep == IInv /\ [Next]_vars => TypeOK'
  <1> SUFFICES ASSUME IInv, [Next]_vars PROVE TypeOK' OBVIOUS
  <1> USE RingAssumption, ThreadsDistinct DEF PostingPcs
  <1>1. ASSUME NEW t \in Threads, NEW ok \in BOOLEAN, PostOne(t, ok)
        PROVE TypeOK'
    <2> DEFINE b == Head(toPost[t])
    <2>1. b \in Buffers /\ Tail(toPost[t]) \in Seq(Buffers)
      BY <1>1 DEF IInv, TypeOK, PostOne
    <2>2. prod[t] \in Buffers /\ prod[t] \in Nat
      BY DEF IInv, TypeOK, Buffers
    <2>3. Advance(prod[t], 1) \in Buffers BY <2>2, AdvanceInBuffers
    <2>4. hasSkb' \in [Buffers -> BOOLEAN]
      BY <1>1, <2>1 DEF IInv, TypeOK, PostOne
    <2>5. allocFailures' \in Nat BY <1>1 DEF IInv, TypeOK, PostOne, Undo
    <2>6. desc' \in [Buffers -> Buffers]
      BY <1>1, <2>1, <2>2 DEF IInv, TypeOK, PostOne
    <2>7. prod' \in [Threads -> Buffers] /\ count' \in [Threads -> Nat]
      BY <1>1, <2>3 DEF IInv, TypeOK, PostOne
    <2>8. toPost' \in [Threads -> Seq(Buffers)]
      BY <1>1, <2>1 DEF IInv, TypeOK, PostOne
    <2> QED BY <1>1, <2>4, <2>5, <2>6, <2>7, <2>8
         DEF IInv, TypeOK, PostOne, localVars, sharedVars
  <1>2. ASSUME NEW t \in Threads, PostPutBack(t) PROVE TypeOK'
    <2>1. sharedCount' \in Nat /\ shared' \in Seq(Buffers)
      BY <1>2 DEF IInv, TypeOK, CountsMatch, PostPutBack
    <2>2. toPost' \in [Threads -> Seq(Buffers)] /\ toPostCount' \in [Threads -> Nat]
      BY <1>2 DEF IInv, TypeOK, PostPutBack
    <2>3. pc' \in [Threads -> {"open", "opened", "idle", "rcv", "free"} \cup PostingPcs]
      BY <1>2 DEF IInv, TypeOK, PostPutBack, GoTo
    <2> QED BY <1>2, <2>1, <2>2, <2>3 DEF IInv, TypeOK, PostPutBack, cardVars, localVars
  <1>3. ASSUME NEW t \in Threads, PostPublish(t) PROVE TypeOK'
    <2>1. 0 \in Buffers BY DEF Buffers
    <2>2. producer' \in Buffers /\ published' \in Nat
      BY <1>3 DEF IInv, TypeOK, PostPublish
    <2>3. prod' \in [Threads -> Buffers] /\ count' \in [Threads -> Nat]
      BY <1>3, <2>1 DEF IInv, TypeOK, PostPublish
    <2>4. pc' \in [Threads -> {"open", "opened", "idle", "rcv", "free"} \cup PostingPcs]
      BY <1>3 DEF IInv, TypeOK, PostPublish, GoTo
    <2>5. UNCHANGED <<posting, shared, sharedCount, localVars, messages, cur, toPost, toPostCount>>
      BY <1>3 DEF PostPublish, sharedVars
    <2>6. UNCHANGED <<desc, cardCons, hasSkb, allocFailures>> BY <1>3 DEF PostPublish
    <2> QED BY <2>2, <2>3, <2>4, <2>5, <2>6 DEF IInv, TypeOK, localVars
  <1>4. ASSUME NEW t \in Threads, PostDone(t) PROVE TypeOK'
    BY <1>4 DEF IInv, TypeOK, PostDone, GoTo, cardVars, localVars, postVars
  <1>5. CASE Open
    <2>1. pc' \in [Threads -> {"open", "opened", "idle", "rcv", "free"} \cup PostingPcs]
      <3>1. pc' = [pc EXCEPT ![Opener] = "opened"] \/ pc' = [pc EXCEPT ![Opener] = "post"]
        BY <1>5 DEF Open, Take, GoTo
      <3> QED BY <3>1 DEF IInv, TypeOK
    <2>2. CASE posting \/ shared = <<>>
      <3>1. UNCHANGED <<sharedVars, postVars, cardVars, producer, hasSkb,
                        allocFailures, localVars, cur>>
        BY <1>5, <2>2 DEF Open
      <3>2. /\ UNCHANGED <<desc, cardCons, published, messages, local, localCount,
                           toPost, toPostCount, prod, count>>
            /\ UNCHANGED <<shared, sharedCount, posting>>
        BY <3>1 DEF cardVars, localVars, postVars, sharedVars
      <3> QED BY <2>1, <3>1, <3>2 DEF IInv, TypeOK
    <2>3. CASE ~(posting \/ shared = <<>>)
      <3>1. Take(Opener, shared, sharedCount) BY <1>5, <2>3 DEF Open
      <3> QED BY <1>5, <3>1, <2>1, TakeTyped DEF IInv, TypeOK, Open, cardVars, localVars
    <2> QED BY <2>2, <2>3
  <1>6. CASE Detach
    <2>1. AllBuffers \in Seq(Buffers) BY DEF AllBuffers, Buffers
    <2>2. 0 \in Buffers BY DEF Buffers
    <2> QED BY <1>6, <2>1, <2>2 DEF IInv, TypeOK, Detach, GoTo, postVars
  <1>7. ASSUME NEW c \in Cpus, PollStart(c) PROVE TypeOK'
    BY <1>7 DEF IInv, TypeOK, PollStart, GoTo, cardVars, sharedVars, localVars, postVars
  <1>8. ASSUME NEW c \in Cpus, RcvRecycle(c) PROVE TypeOK'
    <2>1. Head(messages[c]) \in Seq(Buffers) /\ Tail(messages[c]) \in Seq(Seq(Buffers))
      BY <1>8 DEF IInv, TypeOK, RcvRecycle
    <2>2. Head(Head(messages[c])) \in Buffers BY <1>8, <2>1 DEF RcvRecycle
    <2>3. FreeBuffer(c, Head(Head(messages[c]))) BY <1>8 DEF RcvRecycle
    <2>4. \A b \in Buffers : FreeBuffer(c, b) =>
            local' \in [Cpus -> Seq(Buffers)] /\ localCount' \in [Cpus -> Nat]
      BY DEF IInv, TypeOK, FreeBuffer
    <2>5. messages' \in [Cpus -> Seq(Seq(Buffers))]
      BY <1>8, <2>1 DEF IInv, TypeOK, RcvRecycle
    <2>6. local' \in [Cpus -> Seq(Buffers)] /\ localCount' \in [Cpus -> Nat]
      BY <2>2, <2>3, <2>4
    <2>7. UNCHANGED <<desc, cardCons, published, producer, hasSkb, allocFailures,
                      sharedVars, pc, cur, postVars>>
      BY <1>8 DEF RcvRecycle
    <2> QED BY <2>5, <2>6, <2>7 DEF IInv, TypeOK, sharedVars, postVars
  <1>9. ASSUME NEW c \in Cpus, RcvPacket(c) \/ RcvChained(c) PROVE TypeOK'
    <2>1. Accept(c) /\ messages[c] # <<>> BY <1>9 DEF RcvPacket, RcvChained
    <2>2. Head(messages[c]) \in Seq(Buffers) /\ Tail(messages[c]) \in Seq(Seq(Buffers))
      BY <2>1 DEF IInv, TypeOK
    <2> QED BY <2>1, <2>2 DEF IInv, TypeOK, Accept, sharedVars, localVars, postVars
  <1>10. ASSUME NEW c \in Cpus, NEW ok \in BOOLEAN, RcvBuffer(c, ok) PROVE TypeOK'
    <2> DEFINE b == Head(cur[c])
    <2>1. b \in Buffers /\ Tail(cur[c]) \in Seq(Buffers)
      BY <1>10 DEF IInv, TypeOK, RcvBuffer
    <2>2. hasSkb' \in [Buffers -> BOOLEAN]
      BY <1>10, <2>1 DEF IInv, TypeOK, RcvBuffer
    <2>3. allocFailures' \in Nat BY <1>10 DEF IInv, TypeOK, RcvBuffer
    <2>4. FreeBuffer(c, b) BY <1>10 DEF RcvBuffer
    <2> HIDE DEF b
    <2>5. local' \in [Cpus -> Seq(Buffers)] BY <2>1, <2>4 DEF IInv, TypeOK, FreeBuffer
    <2>6. localCount' \in [Cpus -> Nat] BY <2>4 DEF IInv, TypeOK, FreeBuffer
    <2>7. cur' \in [Cpus -> Seq(Buffers)]
      BY <1>10, <2>1 DEF IInv, TypeOK, RcvBuffer
    <2>8. UNCHANGED <<cardVars, producer, sharedVars, pc, postVars>>
      BY <1>10 DEF RcvBuffer
    <2> QED BY <2>2, <2>3, <2>5, <2>6, <2>7, <2>8
         DEF IInv, TypeOK, cardVars, sharedVars, postVars
  <1>11. ASSUME NEW c \in Cpus, RcvEnd(c) \/ PostSkip(c) PROVE TypeOK'
    BY <1>11 DEF IInv, TypeOK, RcvEnd, PostSkip, GoTo, cardVars, sharedVars, localVars, postVars
  <1>12. ASSUME NEW c \in Cpus, PostSplice(c) PROVE TypeOK'
    <2>1. shared \o local[c] \in Seq(Buffers) /\ Added(c) \in Nat
      BY DEF IInv, TypeOK, Added
    <2>2. pc' \in [Threads -> {"open", "opened", "idle", "rcv", "free"} \cup PostingPcs]
      BY <1>12 DEF IInv, TypeOK, PostSplice, Take, GoTo
    <2>3. local' \in [Cpus -> Seq(Buffers)] /\ localCount' \in [Cpus -> Nat]
      BY <1>12 DEF IInv, TypeOK, PostSplice
    <2>4. CASE MayTake(Added(c))
      <3>1. Take(c, shared \o local[c], Added(c)) BY <1>12, <2>4 DEF PostSplice
      <3> QED BY <1>12, <3>1, <2>1, <2>2, <2>3, TakeTyped
           DEF IInv, TypeOK, PostSplice, cardVars
    <2>5. CASE ~MayTake(Added(c))
      BY <1>12, <2>1, <2>2, <2>3, <2>5 DEF IInv, TypeOK, PostSplice, cardVars, postVars
    <2> QED BY <2>4, <2>5
  <1>13. ASSUME NEW c \in Cpus, NEW n \in 1 .. MaxChain, CardReceive(c, n) PROVE TypeOK'
    <2>1. \A k \in 1..n : desc[Advance(cardCons, k - 1)] \in Buffers
      <3> SUFFICES ASSUME NEW k \in 1..n PROVE desc[Advance(cardCons, k - 1)] \in Buffers
        OBVIOUS
      <3>1. cardCons \in Nat /\ k - 1 \in Nat BY DEF IInv, TypeOK, Buffers
      <3> QED BY <3>1, AdvanceInBuffers DEF IInv, TypeOK
    <2>2. [k \in 1..n |-> desc[Advance(cardCons, k - 1)]] \in Seq(Buffers) BY <2>1
    <2>3. cardCons' \in Buffers
      BY <1>13, AdvanceInBuffers DEF IInv, TypeOK, CardReceive, Buffers
    <2>4. published' \in Nat BY <1>13 DEF IInv, TypeOK, CardReceive
    <2>5. messages' \in [Cpus -> Seq(Seq(Buffers))]
      BY <1>13, <2>2 DEF IInv, TypeOK, CardReceive
    <2> QED BY <1>13, <2>3, <2>4, <2>5
         DEF IInv, TypeOK, CardReceive, sharedVars, localVars, postVars
  <1>14. CASE UNCHANGED vars
    BY <1>14 DEF IInv, TypeOK, vars, cardVars, sharedVars, localVars, postVars
  <1> QED BY <1>1, <1>2, <1>3, <1>4, <1>5, <1>6, <1>7, <1>8, <1>9, <1>10, <1>11,
             <1>12, <1>13, <1>14 DEF Next, Post, PollGoesOn

\* A thread starts posting only while nobody posts, and clears the flag when
\* it stops; the other steps leave the flag and the posters alone.
LEMMA PosterStep == IInv /\ [Next]_vars => PcOK' /\ OnePoster'
  <1> SUFFICES ASSUME IInv, [Next]_vars PROVE PcOK' /\ OnePoster' OBVIOUS
  <1> USE ThreadsDistinct DEF PostingPcs
  <1> pc \in [Threads -> {"open", "opened", "idle", "rcv", "free"} \cup PostingPcs]
    BY DEF IInv, TypeOK
  <1>1. ASSUME NEW t \in Threads, NEW ok \in BOOLEAN, PostOne(t, ok)
        PROVE PcOK' /\ OnePoster'
    BY <1>1 DEF IInv, PcOK, OnePoster, PostOne, sharedVars
  <1>2. ASSUME NEW t \in Threads, PostPutBack(t) \/ PostPublish(t)
        PROVE PcOK' /\ OnePoster'
    <2>1. pc[t] \in PostingPcs /\ posting' = posting
          /\ \E l \in PostingPcs : GoTo(t, l)
      BY <1>2 DEF PostPutBack, PostPublish, sharedVars
    <2> QED BY <2>1 DEF IInv, PcOK, OnePoster, GoTo
  <1>3. ASSUME NEW t \in Threads, PostDone(t) PROVE PcOK' /\ OnePoster'
    BY <1>3 DEF IInv, PcOK, OnePoster, PostDone, GoTo
  <1>4. CASE Open
    BY <1>4 DEF IInv, PcOK, OnePoster, Open, Take, GoTo, sharedVars
  <1>5. CASE Detach
    BY <1>5 DEF IInv, PcOK, OnePoster, Detach, GoTo
  <1>6. ASSUME NEW c \in Cpus, PollStart(c) \/ RcvEnd(c) \/ PostSkip(c)
        PROVE PcOK' /\ OnePoster'
    <2>1. pc[c] \notin PostingPcs /\ posting' = posting
          /\ \E l \in {"idle", "rcv", "free"} : GoTo(c, l)
      BY <1>6 DEF PollStart, RcvEnd, PostSkip, sharedVars
    <2> QED BY <2>1 DEF IInv, PcOK, OnePoster, GoTo
  <1>7. ASSUME NEW c \in Cpus,
               \/ RcvRecycle(c) \/ RcvPacket(c) \/ RcvChained(c)
               \/ \E ok \in BOOLEAN : RcvBuffer(c, ok)
        PROVE PcOK' /\ OnePoster'
    BY <1>7 DEF IInv, PcOK, OnePoster, RcvRecycle, RcvPacket, RcvChained, Accept,
                RcvBuffer, sharedVars
  <1>8. ASSUME NEW c \in Cpus, PostSplice(c) PROVE PcOK' /\ OnePoster'
    <2>1. pc[c] = "free" BY <1>8 DEF PostSplice
    <2>2. CASE MayTake(Added(c))
      <3>1. ~posting /\ posting' = TRUE /\ GoTo(c, "post")
        BY <1>8, <2>2 DEF PostSplice, MayTake, Take
      <3> QED BY <2>1, <3>1 DEF IInv, PcOK, OnePoster, GoTo
    <2>3. CASE ~MayTake(Added(c))
      <3>1. posting' = posting /\ GoTo(c, "idle") BY <1>8, <2>3 DEF PostSplice
      <3> QED BY <2>1, <3>1 DEF IInv, PcOK, OnePoster, GoTo
    <2> QED BY <2>2, <2>3
  <1>9. ASSUME NEW c \in Cpus, NEW n \in 1 .. MaxChain, CardReceive(c, n)
        PROVE PcOK' /\ OnePoster'
    BY <1>9 DEF IInv, PcOK, OnePoster, CardReceive, sharedVars
  <1>10. CASE UNCHANGED vars
    BY <1>10 DEF IInv, PcOK, OnePoster, vars, sharedVars
  <1> QED BY <1>1, <1>2, <1>3, <1>4, <1>5, <1>6, <1>7, <1>8, <1>9, <1>10
          DEF Next, Post, PollGoesOn

\* Taking the shared list: it is empty afterwards, and the poster's count is
\* the length of what it took.
LEMMA TakeCounted ==
  ASSUME TypeOK, CountsMatch, NEW t \in Threads, NEW list \in Seq(Buffers),
         NEW n \in Nat, n = Len(list), Take(t, list, n),
         \A c \in Cpus : localCount'[c] = Len(local'[c])
  PROVE  CountsMatch'
  <1>1. toPostCount'[t] = Len(toPost'[t]) + count'[t]
    BY DEF TypeOK, Take
  <1>2. \A u \in Threads \ {t} :
          pc'[u] = pc[u] /\ toPost'[u] = toPost[u]
            /\ toPostCount'[u] = toPostCount[u] /\ count'[u] = count[u]
    BY DEF TypeOK, Take, GoTo
  <1> QED BY <1>1, <1>2 DEF CountsMatch, Take

LEMMA CountStep == IInv /\ [Next]_vars => CountsMatch'
  <1> SUFFICES ASSUME IInv, [Next]_vars PROVE CountsMatch' OBVIOUS
  <1> USE ThreadsDistinct, RingAssumption DEF CountsMatch
  <1> TypeOK /\ CountsMatch BY DEF IInv
  <1>1. ASSUME NEW t \in Threads, NEW ok \in BOOLEAN, PostOne(t, ok)
        PROVE CountsMatch'
    <2>1. Len(toPost'[t]) = Len(toPost[t]) - 1 /\ count'[t] = count[t] + 1
      BY <1>1 DEF TypeOK, PostOne
    <2>2. \A u \in Threads \ {t} : toPost'[u] = toPost[u] /\ count'[u] = count[u]
      BY <1>1 DEF TypeOK, PostOne
    <2> QED BY <1>1, <2>1, <2>2 DEF TypeOK, PostOne, sharedVars, localVars
  <1>2. ASSUME NEW t \in Threads, PostPutBack(t) PROVE CountsMatch'
    <2>1. sharedCount' = Len(shared')
      <3>1. toPost[t] \in Seq(Buffers) /\ shared \in Seq(Buffers) /\ count[t] \in Nat
        BY DEF TypeOK
      <3>2. Len(shared \o toPost[t]) = Len(shared) + Len(toPost[t]) BY <3>1
      <3>3. toPostCount[t] - count[t] = Len(toPost[t])
        BY <1>2, <3>1 DEF PostPutBack
      <3>4. CASE toPost[t] = <<>>
        BY <1>2, <3>2, <3>4 DEF PostPutBack
      <3>5. CASE toPost[t] # <<>>
        BY <1>2, <3>2, <3>3, <3>5 DEF PostPutBack
      <3> QED BY <3>4, <3>5
    <2>2. \A u \in Threads : pc'[u] = "post" =>
            u # t /\ pc[u] = "post" /\ toPost'[u] = toPost[u]
                  /\ toPostCount'[u] = toPostCount[u]
      BY <1>2 DEF TypeOK, PostPutBack, GoTo
    <2> QED BY <1>2, <2>1, <2>2 DEF TypeOK, PostPutBack, localVars
  <1>3. ASSUME NEW t \in Threads, PostPublish(t) \/ PostDone(t) PROVE CountsMatch'
    <2>1. \A u \in Threads : pc'[u] = "post" =>
            pc[u] = "post" /\ count'[u] = count[u]
      BY <1>3 DEF TypeOK, PostPublish, PostDone, GoTo, postVars
    <2>2. UNCHANGED <<shared, sharedCount, localVars, toPost, toPostCount>>
      BY <1>3 DEF PostPublish, PostDone, sharedVars, postVars
    <2> QED BY <2>1, <2>2 DEF localVars
  <1>4. CASE Open
    <2>1. CASE posting \/ shared = <<>>
      <3>1. \A u \in Threads : pc'[u] = "post" => pc[u] = "post"
        BY <1>4, <2>1 DEF TypeOK, Open, GoTo
      <3> QED BY <1>4, <2>1, <3>1 DEF Open, sharedVars, localVars, postVars
    <2>2. CASE ~(posting \/ shared = <<>>)
      <3>1. Take(Opener, shared, sharedCount) BY <1>4, <2>2 DEF Open
      <3>2. shared \in Seq(Buffers) /\ sharedCount \in Nat BY DEF TypeOK
      <3>3. \A c \in Cpus : localCount'[c] = Len(local'[c])
        BY <1>4 DEF Open, localVars
      <3> QED BY <3>1, <3>2, <3>3, TakeCounted
    <2> QED BY <2>1, <2>2
  <1>5. CASE Detach
    <2>1. Len(AllBuffers) = MaxRxDescCount BY DEF AllBuffers
    <2>2. \A u \in Threads : pc'[u] = "post" => pc[u] = "post"
      BY <1>5 DEF TypeOK, Detach, GoTo
    <2> QED BY <1>5, <2>1, <2>2 DEF Detach, postVars
  <1>6. ASSUME NEW c \in Cpus, PollStart(c) \/ RcvEnd(c) \/ PostSkip(c)
        PROVE CountsMatch'
    <2>1. \A u \in Threads : pc'[u] = "post" => pc[u] = "post"
      BY <1>6 DEF TypeOK, PollStart, RcvEnd, PostSkip, GoTo
    <2>2. UNCHANGED <<sharedVars, localVars, postVars>>
      BY <1>6 DEF PollStart, RcvEnd, PostSkip
    <2> QED BY <2>1, <2>2 DEF sharedVars, localVars, postVars
  <1>7. ASSUME NEW c \in Cpus, NEW b \in Buffers, FreeBuffer(c, b),
               UNCHANGED <<sharedVars, postVars, pc>>
        PROVE CountsMatch'
    <2>1. localCount'[c] = localCount[c] + 1 /\ Len(local'[c]) = Len(local[c]) + 1
      BY <1>7 DEF TypeOK, FreeBuffer
    <2>2. \A d \in Cpus \ {c} : localCount'[d] = localCount[d] /\ local'[d] = local[d]
      BY <1>7 DEF TypeOK, FreeBuffer
    <2> QED BY <1>7, <2>1, <2>2 DEF sharedVars, postVars
  <1>8. ASSUME NEW c \in Cpus, RcvRecycle(c) PROVE CountsMatch'
    <2>1. Head(Head(messages[c])) \in Buffers
      <3>1. Head(messages[c]) \in Seq(Buffers) BY <1>8 DEF TypeOK, RcvRecycle
      <3> QED BY <1>8, <3>1 DEF RcvRecycle
    <2> QED BY <1>7, <1>8, <2>1 DEF RcvRecycle
  <1>9. ASSUME NEW c \in Cpus, NEW ok \in BOOLEAN, RcvBuffer(c, ok)
        PROVE CountsMatch'
    <2>1. Head(cur[c]) \in Buffers BY <1>9 DEF TypeOK, RcvBuffer
    <2> QED BY <1>7, <1>9, <2>1 DEF RcvBuffer
  <1>10. ASSUME NEW c \in Cpus, RcvPacket(c) \/ RcvChained(c) PROVE CountsMatch'
    BY <1>10 DEF RcvPacket, RcvChained, Accept, sharedVars, localVars, postVars
  <1>11. ASSUME NEW c \in Cpus, PostSplice(c) PROVE CountsMatch'
    <2>1. Added(c) = Len(shared \o local[c]) /\ shared \o local[c] \in Seq(Buffers)
          /\ Added(c) \in Nat
      <3>1. shared \in Seq(Buffers) /\ local[c] \in Seq(Buffers) BY DEF TypeOK
      <3>2. Len(shared \o local[c]) = Len(shared) + Len(local[c]) BY <3>1
      <3>3. shared \o local[c] \in Seq(Buffers) BY <3>1
      <3> QED BY <3>1, <3>2, <3>3 DEF Added
    <2>2. \A d \in Cpus : localCount'[d] = Len(local'[d])
      BY <1>11 DEF PostSplice, TypeOK
    <2>3. CASE MayTake(Added(c))
      <3>1. Take(c, shared \o local[c], Added(c)) BY <1>11, <2>3 DEF PostSplice
      <3> QED BY <2>1, <2>2, <3>1, TakeCounted
    <2>4. CASE ~MayTake(Added(c))
      <3>1. \A u \in Threads : pc'[u] = "post" => pc[u] = "post"
        BY <1>11, <2>4 DEF TypeOK, PostSplice, GoTo
      <3> QED BY <1>11, <2>1, <2>2, <2>4, <3>1 DEF PostSplice, postVars
    <2> QED BY <2>3, <2>4
  <1>12. ASSUME NEW c \in Cpus, NEW n \in 1 .. MaxChain, CardReceive(c, n)
         PROVE CountsMatch'
    BY <1>12 DEF CardReceive, sharedVars, localVars, postVars
  <1>13. CASE UNCHANGED vars
    BY <1>13 DEF vars, sharedVars, localVars, postVars
  <1> QED BY <1>1, <1>2, <1>3, <1>4, <1>5, <1>6, <1>8, <1>9, <1>10, <1>11, <1>12,
             <1>13 DEF Next, Post, PollGoesOn

LEMMA Inductive == IInv /\ [Next]_vars => IInv'
  BY TypeStep, PosterStep, CountStep DEF IInv

\* The inductive invariant of the receive ring: types, who is where, the
\* exclusion of posters and the counts hold in every reachable state.
THEOREM Invariance == Spec => []IInv
  BY InitInv, Inductive, PTL DEF Spec

\* Every variable of the receive ring keeps its type, whatever the ring size.
THEOREM TypeCorrect == Spec => []TypeOK
  <1>1. IInv => TypeOK BY DEF IInv
  <1> QED BY <1>1, Invariance, PTL

\* One thread at a time writes descriptors and the producer index
\* (nx_post_rx_descriptors), although it clears posting without the lock.
THEOREM PostersExclude == Spec => []OnePoster
  <1>1. IInv => OnePoster BY DEF IInv
  <1> QED BY <1>1, Invariance, PTL

\* The counts of the free lists, which nx_post_freed_rxbufs reads without the
\* lock, are the lengths of the lists.
THEOREM CountsCorrect == Spec => []CountsMatch
  <1>1. IInv => CountsMatch BY DEF IInv
  <1> QED BY <1>1, Invariance, PTL

-----------------------------------------------------------------------------
(* Where the buffers are.                                                  *)

Inj(s) == \A i, j \in DOMAIN s : s[i] = s[j] => i = j

\* No buffer is twice in a sequence of messages.
Apart(ms) ==
  \A m, n \in DOMAIN ms : \A i \in DOMAIN ms[m], j \in DOMAIN ms[n] :
    ms[m][i] = ms[n][j] => m = n /\ i = j

\* The buffers in a sequence of messages.
Told(ms) == UNION {Elements(m) : m \in Elements(ms)}

\* Written to descriptors, and not yet shown to the card.
Unposted == IF posting THEN count[CHOOSE t \in Threads : pc[t] \in PostingPcs] ELSE 0

\* Each buffer is in exactly one of the sets: on the ring (R), shared (S), with the
\* poster (T), or with a poll - in its free list (L), in the packet it works on (C) or
\* in its messages (M).
Exact(R, S, T, L, C, M) ==
  /\ R \subseteq Buffers /\ S \subseteq Buffers
  /\ T \in [Threads -> SUBSET Buffers] /\ L \in [Cpus -> SUBSET Buffers]
  /\ C \in [Cpus -> SUBSET Buffers] /\ M \in [Cpus -> SUBSET Buffers]
  /\ \A b \in Buffers :
       \/ b \in R \/ b \in S \/ \E t \in Threads : b \in T[t]
       \/ \E c \in Cpus : b \in L[c] \/ b \in C[c] \/ b \in M[c]
  /\ \A b \in R : /\ b \notin S /\ \A t \in Threads : b \notin T[t]
                  /\ \A c \in Cpus : b \notin L[c] /\ b \notin C[c] /\ b \notin M[c]
  /\ \A b \in S : /\ \A t \in Threads : b \notin T[t]
                  /\ \A c \in Cpus : b \notin L[c] /\ b \notin C[c] /\ b \notin M[c]
  /\ \A t \in Threads : \A b \in T[t] :
       /\ \A u \in Threads : b \in T[u] => u = t
       /\ \A c \in Cpus : b \notin L[c] /\ b \notin C[c] /\ b \notin M[c]
  /\ \A c, d \in Cpus :
       /\ \A b \in L[c] : b \notin C[d] /\ b \notin M[d] /\ (b \in L[d] => c = d)
       /\ \A b \in C[c] : b \notin M[d] /\ (b \in C[d] => c = d)
       /\ \A b \in M[c] : b \in M[d] => c = d

PostSets == [t \in Threads |-> Elements(toPost[t])]
LocalSets == [c \in Cpus |-> Elements(local[c])]
CurSets == [c \in Cpus |-> Elements(cur[c])]
ToldSets == [c \in Cpus |-> Told(messages[c])]

OneList == Exact(Elements(OnRing), Elements(shared), PostSets, LocalSets, CurSets, ToldSets)

NoDoubles ==
  /\ Inj(OnRing) /\ Inj(shared)
  /\ \A t \in Threads : Inj(toPost[t])
  /\ \A c \in Cpus : Inj(local[c]) /\ Inj(cur[c]) /\ Apart(messages[c])

\* The indices of the ring, and what is empty where.
RingTrue ==
  /\ published + Unposted <= MaxRxDescCount
  /\ producer = Advance(cardCons, published)
  /\ \A t \in Threads :
       /\ pc[t] \in {"post", "publish"} => prod[t] = Advance(cardCons, published + count[t])
       /\ pc[t] \notin {"post", "publish"} => count[t] = 0
       /\ pc[t] # "post" => toPost[t] = <<>>
  /\ \A c \in Cpus : pc[c] # "rcv" => cur[c] = <<>>

PlaceInv == RingTrue /\ NoDoubles /\ OneList /\ PostedHasSkb /\ AllocFailuresReal

-----------------------------------------------------------------------------
(* Lists.                                                                  *)

LEMMA ConcatHolds ==
  ASSUME NEW s \in Seq(Buffers), NEW u \in Seq(Buffers)
  PROVE  /\ Elements(s \o u) = Elements(s) \cup Elements(u)
         /\ Inj(s) /\ Inj(u) /\ Elements(s) \cap Elements(u) = {} => Inj(s \o u)
<1>1. /\ s \o u \in Seq(Buffers) /\ Len(s \o u) = Len(s) + Len(u)
      /\ DOMAIN s = 1 .. Len(s) /\ DOMAIN u = 1 .. Len(u)
      /\ DOMAIN (s \o u) = 1 .. Len(s) + Len(u)
      /\ Len(s) \in Nat /\ Len(u) \in Nat
  OBVIOUS
<1>2. \A k \in 1 .. Len(s) + Len(u) :
        (s \o u)[k] = IF k <= Len(s) THEN s[k] ELSE u[k - Len(s)]
  BY <1>1
<1>3. Elements(s \o u) \subseteq Elements(s) \cup Elements(u)
  <2> SUFFICES ASSUME NEW k \in 1 .. Len(s) + Len(u)
               PROVE  (s \o u)[k] \in Elements(s) \cup Elements(u)
    BY <1>1 DEF Elements
  <2>1. CASE k <= Len(s)
    <3>1. k \in DOMAIN s /\ (s \o u)[k] = s[k]
      BY <1>1, <1>2, <2>1
    <3> QED BY <3>1 DEF Elements
  <2>2. CASE ~(k <= Len(s))
    <3>1. k - Len(s) \in DOMAIN u /\ (s \o u)[k] = u[k - Len(s)]
      BY <1>1, <1>2, <2>2
    <3> QED BY <3>1 DEF Elements
  <2> QED BY <2>1, <2>2
<1>4. Elements(s) \subseteq Elements(s \o u)
  <2> SUFFICES ASSUME NEW k \in 1 .. Len(s) PROVE s[k] \in Elements(s \o u)
    BY <1>1 DEF Elements
  <2>1. k \in DOMAIN (s \o u) /\ (s \o u)[k] = s[k]
    BY <1>1, <1>2
  <2> QED BY <2>1 DEF Elements
<1>5. Elements(u) \subseteq Elements(s \o u)
  <2> SUFFICES ASSUME NEW k \in 1 .. Len(u) PROVE u[k] \in Elements(s \o u)
    BY <1>1 DEF Elements
  <2>1. k + Len(s) \in DOMAIN (s \o u) /\ (s \o u)[k + Len(s)] = u[k]
    BY <1>1, <1>2
  <2> QED BY <2>1 DEF Elements
<1>6. ASSUME Inj(s), Inj(u), Elements(s) \cap Elements(u) = {} PROVE Inj(s \o u)
  <2> SUFFICES ASSUME NEW i \in 1 .. Len(s) + Len(u), NEW j \in 1 .. Len(s) + Len(u),
                      (s \o u)[i] = (s \o u)[j]
               PROVE  i = j
    BY <1>1 DEF Inj
  <2>1. CASE i <= Len(s) /\ j <= Len(s)
    <3>1. i \in DOMAIN s /\ j \in DOMAIN s /\ s[i] = s[j]
      BY <1>1, <1>2, <2>1
    <3> QED BY <1>6, <3>1 DEF Inj
  <2>2. CASE i > Len(s) /\ j > Len(s)
    <3>1. /\ i - Len(s) \in DOMAIN u /\ j - Len(s) \in DOMAIN u
          /\ u[i - Len(s)] = u[j - Len(s)]
      BY <1>1, <1>2, <2>2
    <3>2. i - Len(s) = j - Len(s)
      BY <1>6, <3>1 DEF Inj
    <3> QED BY <1>1, <3>2
  <2>3. CASE i <= Len(s) /\ j > Len(s)
    <3>1. i \in DOMAIN s /\ j - Len(s) \in DOMAIN u /\ s[i] = u[j - Len(s)]
      BY <1>1, <1>2, <2>3
    <3> QED BY <1>6, <3>1 DEF Elements
  <2>4. CASE i > Len(s) /\ j <= Len(s)
    <3>1. j \in DOMAIN s /\ i - Len(s) \in DOMAIN u /\ s[j] = u[i - Len(s)]
      BY <1>1, <1>2, <2>4
    <3> QED BY <1>6, <3>1 DEF Elements
  <2> QED BY <1>1, <2>1, <2>2, <2>3, <2>4
<1> QED BY <1>3, <1>4, <1>5, <1>6

LEMMA AppendHolds ==
  ASSUME NEW s \in Seq(Buffers), NEW b \in Buffers
  PROVE  /\ Elements(Append(s, b)) = Elements(s) \cup {b}
         /\ Inj(s) /\ b \notin Elements(s) => Inj(Append(s, b))
<1>1. /\ DOMAIN s = 1 .. Len(s) /\ DOMAIN Append(s, b) = 1 .. Len(s) + 1
      /\ Len(s) \in Nat
      /\ \A k \in 1 .. Len(s) : Append(s, b)[k] = s[k]
      /\ Append(s, b)[Len(s) + 1] = b
  OBVIOUS
<1>2. Elements(Append(s, b)) = Elements(s) \cup {b}
  <2>1. \A k \in 1 .. Len(s) + 1 : k \in 1 .. Len(s) \/ k = Len(s) + 1
    BY <1>1
  <2>2. \A k \in 1 .. Len(s) : k \in 1 .. Len(s) + 1
    BY <1>1
  <2>3. Len(s) + 1 \in 1 .. Len(s) + 1
    BY <1>1
  <2> QED BY <1>1, <2>1, <2>2, <2>3 DEF Elements
<1>3. ASSUME Inj(s), b \notin Elements(s) PROVE Inj(Append(s, b))
  <2>1. \A k \in 1 .. Len(s) + 1 : k \in 1 .. Len(s) \/ k = Len(s) + 1
    BY <1>1
  <2>2. \A k \in 1 .. Len(s) : s[k] # b
    BY <1>1, <1>3 DEF Elements
  <2> QED BY <1>1, <1>3, <2>1, <2>2 DEF Inj
<1> QED BY <1>2, <1>3

LEMMA OneElement ==
  ASSUME NEW s \in Seq(Buffers), Len(s) = 1
  PROVE  Elements(s) = {Head(s)} /\ Head(s) \in Buffers
<1>1. DOMAIN s = 1 .. Len(s) /\ Head(s) = s[1] /\ s[1] \in Buffers
  OBVIOUS
<1>2. \A k : k \in 1 .. 1 <=> k = 1
  OBVIOUS
<1> QED BY <1>1, <1>2 DEF Elements

LEMMA TailHolds ==
  ASSUME NEW s \in Seq(Buffers), s # <<>>, Inj(s)
  PROVE  /\ Head(s) \in Elements(s) /\ Head(s) \in Buffers
         /\ Tail(s) \in Seq(Buffers) /\ Inj(Tail(s))
         /\ Elements(Tail(s)) = Elements(s) \ {Head(s)}
<1>1. /\ DOMAIN s = 1 .. Len(s) /\ Len(s) \in Nat \ {0}
      /\ Tail(s) \in Seq(Buffers) /\ DOMAIN Tail(s) = 1 .. Len(s) - 1
      /\ \A k \in 1 .. Len(s) - 1 : Tail(s)[k] = s[k + 1]
      /\ Head(s) = s[1] /\ s[1] \in Buffers
  OBVIOUS
<1>2. 1 \in DOMAIN s /\ \A k \in 1 .. Len(s) - 1 : k + 1 \in DOMAIN s /\ k + 1 # 1
  BY <1>1
<1>3. Inj(Tail(s))
  <2> SUFFICES ASSUME NEW i \in 1 .. Len(s) - 1, NEW j \in 1 .. Len(s) - 1,
                      Tail(s)[i] = Tail(s)[j]
               PROVE  i = j
    BY <1>1 DEF Inj
  <2>1. s[i + 1] = s[j + 1]
    BY <1>1
  <2>2. i + 1 = j + 1
    BY <1>2, <2>1 DEF Inj
  <2> QED BY <1>1, <2>2
<1>4. Elements(Tail(s)) \subseteq Elements(s) \ {Head(s)}
  <2> SUFFICES ASSUME NEW k \in 1 .. Len(s) - 1
               PROVE  Tail(s)[k] \in Elements(s) \ {Head(s)}
    BY <1>1 DEF Elements
  <2>1. s[k + 1] # s[1]
    BY <1>2 DEF Inj
  <2> QED BY <1>1, <1>2, <2>1 DEF Elements
<1>5. Elements(s) \ {Head(s)} \subseteq Elements(Tail(s))
  <2> SUFFICES ASSUME NEW k \in 1 .. Len(s), s[k] # Head(s)
               PROVE  s[k] \in Elements(Tail(s))
    BY <1>1 DEF Elements
  <2>1. k - 1 \in 1 .. Len(s) - 1 /\ (k - 1) + 1 = k
    BY <1>1
  <2>2. Tail(s)[k - 1] = s[k]
    BY <1>1, <2>1
  <2> QED BY <1>1, <2>1, <2>2 DEF Elements
<1> QED BY <1>1, <1>2, <1>3, <1>4, <1>5 DEF Elements

LEMMA ToldWhere ==
  ASSUME NEW ms, NEW x
  PROVE  x \in Told(ms) <=> \E m \in DOMAIN ms : x \in Elements(ms[m])
<1>1. x \in Told(ms) <=> \E e \in Elements(ms) : x \in Elements(e)
  BY DEF Told
<1>2. \A e : e \in Elements(ms) <=> \E m \in DOMAIN ms : ms[m] = e
  BY DEF Elements
<1> QED BY <1>1, <1>2

LEMMA ElementWhere ==
  ASSUME NEW s, NEW x
  PROVE  x \in Elements(s) <=> \E k \in DOMAIN s : s[k] = x
BY DEF Elements

LEMMA TakeMessage ==
  ASSUME NEW ms \in Seq(Seq(Buffers)), ms # <<>>, Apart(ms)
  PROVE  /\ Head(ms) \in Seq(Buffers) /\ Tail(ms) \in Seq(Seq(Buffers))
         /\ Inj(Head(ms)) /\ Apart(Tail(ms))
         /\ Elements(Head(ms)) \subseteq Told(ms)
         /\ Told(Tail(ms)) = Told(ms) \ Elements(Head(ms))
<1>1. /\ DOMAIN ms = 1 .. Len(ms) /\ Len(ms) \in Nat \ {0}
      /\ Tail(ms) \in Seq(Seq(Buffers)) /\ DOMAIN Tail(ms) = 1 .. Len(ms) - 1
      /\ \A m \in 1 .. Len(ms) - 1 : Tail(ms)[m] = ms[m + 1]
      /\ Head(ms) = ms[1] /\ ms[1] \in Seq(Buffers)
  OBVIOUS
<1>2. 1 \in DOMAIN ms /\ \A m \in 1 .. Len(ms) - 1 : m + 1 \in DOMAIN ms /\ m + 1 # 1
  BY <1>1
<1>3. Inj(Head(ms))
  BY <1>1, <1>2 DEF Inj, Apart
<1>4. Apart(Tail(ms))
  <2> SUFFICES ASSUME NEW m \in 1 .. Len(ms) - 1, NEW n \in 1 .. Len(ms) - 1,
                      NEW i \in DOMAIN Tail(ms)[m], NEW j \in DOMAIN Tail(ms)[n],
                      Tail(ms)[m][i] = Tail(ms)[n][j]
               PROVE  m = n /\ i = j
    BY <1>1 DEF Apart
  <2>1. i \in DOMAIN ms[m + 1] /\ j \in DOMAIN ms[n + 1] /\ ms[m + 1][i] = ms[n + 1][j]
    BY <1>1
  <2>2. m + 1 = n + 1 /\ i = j
    BY <1>2, <2>1 DEF Apart
  <2> QED BY <1>1, <2>2
<1>5. Elements(Head(ms)) \subseteq Told(ms)
  BY <1>1, <1>2, ToldWhere
<1>6. Told(Tail(ms)) \subseteq Told(ms) \ Elements(Head(ms))
  <2> SUFFICES ASSUME NEW x, x \in Told(Tail(ms))
               PROVE  x \in Told(ms) /\ x \notin Elements(Head(ms))
    OBVIOUS
  <2>1. PICK m \in 1 .. Len(ms) - 1 : x \in Elements(ms[m + 1])
    BY <1>1, ToldWhere
  <2>2. PICK i \in DOMAIN ms[m + 1] : ms[m + 1][i] = x
    BY <2>1, ElementWhere
  <2>3. \A j \in DOMAIN ms[1] : ms[m + 1][i] # ms[1][j]
    BY <1>2 DEF Apart
  <2>4. x \notin Elements(ms[1])
    BY <2>2, <2>3, ElementWhere
  <2> QED BY <1>1, <1>2, <2>1, <2>4, ToldWhere
<1>7. Told(ms) \ Elements(Head(ms)) \subseteq Told(Tail(ms))
  <2> SUFFICES ASSUME NEW x, x \in Told(ms), x \notin Elements(Head(ms))
               PROVE  x \in Told(Tail(ms))
    OBVIOUS
  <2>1. PICK m \in 1 .. Len(ms) : x \in Elements(ms[m])
    BY <1>1, ToldWhere
  <2>2. m # 1
    BY <1>1, <2>1
  <2>3. m - 1 \in 1 .. Len(ms) - 1 /\ (m - 1) + 1 = m
    BY <1>1, <2>2
  <2>4. m - 1 \in DOMAIN Tail(ms) /\ x \in Elements(Tail(ms)[m - 1])
    BY <1>1, <2>1, <2>3
  <2> QED BY <2>4, ToldWhere
<1> QED BY <1>1, <1>3, <1>4, <1>5, <1>6, <1>7

LEMMA AddMessage ==
  ASSUME NEW ms \in Seq(Seq(Buffers)), NEW m \in Seq(Buffers), Apart(ms)
  PROVE  /\ Append(ms, m) \in Seq(Seq(Buffers))
         /\ Told(Append(ms, m)) = Told(ms) \cup Elements(m)
         /\ Inj(m) /\ Elements(m) \cap Told(ms) = {} => Apart(Append(ms, m))
<1> DEFINE all == Append(ms, m)
           n == Len(ms) + 1
<1>1. /\ DOMAIN ms = 1 .. Len(ms) /\ Len(ms) \in Nat
      /\ all \in Seq(Seq(Buffers)) /\ DOMAIN all = 1 .. n
      /\ \A k \in 1 .. Len(ms) : all[k] = ms[k]
      /\ all[n] = m
  OBVIOUS
<1>2. \A k \in 1 .. n : k \in 1 .. Len(ms) \/ k = n
  BY <1>1
<1>3. n \in 1 .. n /\ \A k \in 1 .. Len(ms) : k \in 1 .. n
  BY <1>1
<1> HIDE DEF all, n
<1>4. Told(all) = Told(ms) \cup Elements(m)
  <2>1. Elements(all) = Elements(ms) \cup {m}
    BY <1>1, <1>2, <1>3 DEF Elements
  <2> QED BY <2>1 DEF Told
<1>5. ASSUME Inj(m), Elements(m) \cap Told(ms) = {} PROVE Apart(all)
  <2> SUFFICES ASSUME NEW k \in 1 .. n, NEW l \in 1 .. n,
                      NEW i \in DOMAIN all[k], NEW j \in DOMAIN all[l],
                      all[k][i] = all[l][j]
               PROVE  k = l /\ i = j
    BY <1>1 DEF Apart
  <2>1. \A p \in 1 .. Len(ms) : \A q \in DOMAIN ms[p] : ms[p][q] \in Told(ms)
    <3>1. \A p \in 1 .. Len(ms) : \A q \in DOMAIN ms[p] : ms[p][q] \in Elements(ms[p])
      BY DEF Elements
    <3> QED BY <1>1, <3>1, ToldWhere
  <2>2. \A q \in DOMAIN m : m[q] \in Elements(m)
    BY DEF Elements
  <2>3. CASE k \in 1 .. Len(ms) /\ l \in 1 .. Len(ms)
    <3>1. /\ k \in DOMAIN ms /\ l \in DOMAIN ms /\ all[k] = ms[k] /\ all[l] = ms[l]
          /\ i \in DOMAIN ms[k] /\ j \in DOMAIN ms[l] /\ ms[k][i] = ms[l][j]
      BY <1>1, <2>3
    <3> QED BY <3>1 DEF Apart
  <2>4. CASE k = n /\ l \in 1 .. Len(ms)
    BY <1>1, <1>5, <2>1, <2>2, <2>4
  <2>5. CASE k \in 1 .. Len(ms) /\ l = n
    BY <1>1, <1>5, <2>1, <2>2, <2>5
  <2>6. CASE k = n /\ l = n
    BY <1>1, <1>5, <2>6 DEF Inj
  <2> QED BY <1>2, <2>3, <2>4, <2>5, <2>6
<1> QED BY <1>1, <1>4, <1>5 DEF all

-----------------------------------------------------------------------------
(* Moves of buffers between the lists.                                     *)

LEMMA MovePost ==
  ASSUME NEW R, NEW S, NEW T, NEW L, NEW C, NEW M, Exact(R, S, T, L, C, M),
         NEW t \in Threads, NEW b \in T[t]
  PROVE  Exact(R \cup {b}, S, [T EXCEPT ![t] = @ \ {b}], L, C, M)
BY DEF Exact

LEMMA MoveBack ==
  ASSUME NEW R, NEW S, NEW T, NEW L, NEW C, NEW M, Exact(R, S, T, L, C, M),
         NEW t \in Threads
  PROVE  Exact(R, S \cup T[t], [T EXCEPT ![t] = {}], L, C, M)
BY DEF Exact

LEMMA MoveSplice ==
  ASSUME NEW R, NEW S, NEW T, NEW L, NEW C, NEW M, Exact(R, S, T, L, C, M),
         NEW c \in Cpus
  PROVE  Exact(R, S \cup L[c], T, [L EXCEPT ![c] = {}], C, M)
BY DEF Exact

LEMMA MoveTake ==
  ASSUME NEW R, NEW S, NEW T, NEW L, NEW C, NEW M, Exact(R, S, T, L, C, M),
         NEW t \in Threads, T[t] = {}
  PROVE  Exact(R, {}, [T EXCEPT ![t] = S], L, C, M)
BY DEF Exact

LEMMA MoveAccept ==
  ASSUME NEW R, NEW S, NEW T, NEW L, NEW C, NEW M, Exact(R, S, T, L, C, M),
         NEW c \in Cpus, C[c] = {}, NEW X \in SUBSET M[c]
  PROVE  Exact(R, S, T, L, [C EXCEPT ![c] = X], [M EXCEPT ![c] = @ \ X])
BY DEF Exact

LEMMA MoveRecycle ==
  ASSUME NEW R, NEW S, NEW T, NEW L, NEW C, NEW M, Exact(R, S, T, L, C, M),
         NEW c \in Cpus, NEW b \in M[c]
  PROVE  Exact(R, S, T, [L EXCEPT ![c] = @ \cup {b}], C, [M EXCEPT ![c] = @ \ {b}])
BY DEF Exact

LEMMA MoveFree ==
  ASSUME NEW R, NEW S, NEW T, NEW L, NEW C, NEW M, Exact(R, S, T, L, C, M),
         NEW c \in Cpus, NEW b \in C[c]
  PROVE  Exact(R, S, T, [L EXCEPT ![c] = @ \cup {b}], [C EXCEPT ![c] = @ \ {b}], M)
BY DEF Exact

LEMMA MoveReceive ==
  ASSUME NEW R, NEW S, NEW T, NEW L, NEW C, NEW M, Exact(R, S, T, L, C, M),
         NEW c \in Cpus, NEW X \in SUBSET R
  PROVE  Exact(R \ X, S, T, L, C, [M EXCEPT ![c] = @ \cup X])
BY DEF Exact

-----------------------------------------------------------------------------
(* The ring.                                                               *)

LEMMA AdvanceIs ==
  ASSUME NEW c \in Buffers, NEW n \in 0 .. MaxRxDescCount
  PROVE  Advance(c, n) = IF c + n < MaxRxDescCount THEN c + n ELSE c + n - MaxRxDescCount
<1>1. MaxRxDescCount \in Nat \ {0} /\ c \in 0 .. MaxRxDescCount - 1
  BY RingAssumption DEF Buffers
<1>2. CASE c + n < MaxRxDescCount
  BY <1>1, <1>2 DEF Advance
<1>3. CASE ~(c + n < MaxRxDescCount)
  <2> DEFINE r == c + n - MaxRxDescCount
  <2>1. r \in Nat /\ r < MaxRxDescCount /\ c + n = 1 * MaxRxDescCount + r
    BY <1>1, <1>3
  <2>2. (c + n) % MaxRxDescCount = r
    BY <1>1, <2>1
  <2> QED BY <1>3, <2>2 DEF Advance
<1> QED BY <1>2, <1>3

LEMMA AdvanceTwice ==
  ASSUME NEW c \in Buffers, NEW n \in Nat, NEW k \in Nat, n + k <= MaxRxDescCount
  PROVE  Advance(Advance(c, n), k) = Advance(c, n + k)
<1>1. MaxRxDescCount \in Nat \ {0} /\ c \in 0 .. MaxRxDescCount - 1
  BY RingAssumption DEF Buffers
<1>2. n \in 0 .. MaxRxDescCount /\ k \in 0 .. MaxRxDescCount /\ n + k \in 0 .. MaxRxDescCount
  BY <1>1
<1>3. Advance(c, n) \in Buffers
  BY <1>1, AdvanceInBuffers
<1> DEFINE d == Advance(c, n)
<1>4. d = IF c + n < MaxRxDescCount THEN c + n ELSE c + n - MaxRxDescCount
  BY <1>2, AdvanceIs
<1>5. Advance(d, k) = IF d + k < MaxRxDescCount THEN d + k ELSE d + k - MaxRxDescCount
  BY <1>2, <1>3, AdvanceIs
<1>6. Advance(c, n + k) = IF c + (n + k) < MaxRxDescCount THEN c + (n + k)
                                                        ELSE c + (n + k) - MaxRxDescCount
  BY <1>2, AdvanceIs
<1> HIDE DEF d
<1>7. Advance(d, k) = Advance(c, n + k)
  BY <1>1, <1>2, <1>4, <1>5, <1>6
<1> QED BY <1>7 DEF d

LEMMA AdvanceApart ==
  ASSUME NEW c \in Buffers, NEW i \in Buffers, NEW j \in Buffers, Advance(c, i) = Advance(c, j)
  PROVE  i = j
<1>1. /\ MaxRxDescCount \in Nat \ {0} /\ c \in 0 .. MaxRxDescCount - 1
      /\ i \in 0 .. MaxRxDescCount - 1 /\ j \in 0 .. MaxRxDescCount - 1
  BY RingAssumption DEF Buffers
<1>2. i \in 0 .. MaxRxDescCount /\ j \in 0 .. MaxRxDescCount
  BY <1>1
<1>3. /\ Advance(c, i) = IF c + i < MaxRxDescCount THEN c + i ELSE c + i - MaxRxDescCount
      /\ Advance(c, j) = IF c + j < MaxRxDescCount THEN c + j ELSE c + j - MaxRxDescCount
  BY <1>2, AdvanceIs
<1>4. MaxRxDescCount \in Nat /\ c \in Nat /\ i \in Nat /\ j \in Nat
      /\ c < MaxRxDescCount /\ i < MaxRxDescCount /\ j < MaxRxDescCount
  BY <1>1
<1>5. CASE c + i < MaxRxDescCount /\ c + j < MaxRxDescCount
  <2>1. c + i = c + j
    BY <1>3, <1>5
  <2> QED BY <1>4, <2>1
<1>6. CASE c + i < MaxRxDescCount /\ ~(c + j < MaxRxDescCount)
  <2>1. c + i = c + j - MaxRxDescCount
    BY <1>3, <1>6
  <2> QED BY <1>4, <2>1
<1>7. CASE ~(c + i < MaxRxDescCount) /\ c + j < MaxRxDescCount
  <2>1. c + i - MaxRxDescCount = c + j
    BY <1>3, <1>7
  <2> QED BY <1>4, <2>1
<1>8. CASE ~(c + i < MaxRxDescCount) /\ ~(c + j < MaxRxDescCount)
  <2>1. c + i - MaxRxDescCount = c + j - MaxRxDescCount
    BY <1>3, <1>8
  <2> QED BY <1>4, <2>1
<1> QED BY <1>5, <1>6, <1>7, <1>8

\* What is on the ring, as one sequence.
LEMMA RingIs ==
  /\ OnRing = [k \in 1 .. published + Unposted |-> desc[Advance(cardCons, k - 1)]]
  /\ OnRing' = [k \in 1 .. published' + Unposted' |-> desc'[Advance(cardCons', k - 1)]]
BY DEF OnRing, Unposted

LEMMA UnpostedIs ==
  ASSUME TypeOK, OnePoster
  PROVE  /\ \A t \in Threads : pc[t] \in PostingPcs => Unposted = count[t]
         /\ (\A t \in Threads : pc[t] \notin PostingPcs) => Unposted = 0
<1>1. ASSUME NEW t \in Threads, pc[t] \in PostingPcs PROVE Unposted = count[t]
  <2> DEFINE u == CHOOSE u \in Threads : pc[u] \in PostingPcs
  <2>1. u \in Threads /\ pc[u] \in PostingPcs
    BY <1>1
  <2>2. u = t /\ posting
    BY <1>1, <2>1 DEF OnePoster
  <2> QED BY <2>2 DEF Unposted
<1>2. ASSUME \A t \in Threads : pc[t] \notin PostingPcs PROVE Unposted = 0
  BY <1>2 DEF Unposted, OnePoster
<1> QED BY <1>1, <1>2

LEMMA UnpostedThen ==
  ASSUME TypeOK', OnePoster'
  PROVE  /\ \A t \in Threads : pc'[t] \in PostingPcs => Unposted' = count'[t]
         /\ (\A t \in Threads : pc'[t] \notin PostingPcs) => Unposted' = 0
<1>1. ASSUME NEW t \in Threads, pc'[t] \in PostingPcs PROVE Unposted' = count'[t]
  <2> DEFINE u == CHOOSE u \in Threads : pc'[u] \in PostingPcs
  <2>1. u \in Threads /\ pc'[u] \in PostingPcs
    BY <1>1
  <2>2. u = t /\ posting'
    BY <1>1, <2>1 DEF OnePoster
  <2> QED BY <2>2 DEF Unposted
<1>2. ASSUME \A t \in Threads : pc'[t] \notin PostingPcs PROVE Unposted' = 0
  BY <1>2 DEF Unposted, OnePoster
<1> QED BY <1>1, <1>2

LEMMA UnpostedType ==
  ASSUME TypeOK, OnePoster
  PROVE  Unposted \in Nat
<1>1. CASE \E t \in Threads : pc[t] \in PostingPcs
  BY <1>1, UnpostedIs DEF TypeOK
<1>2. CASE ~\E t \in Threads : pc[t] \in PostingPcs
  BY <1>2, UnpostedIs
<1> QED BY <1>1, <1>2

\* A step that moves neither descriptors nor indices, nor lets a poster begin, end or
\* write.
LEMMA UnpostedSame ==
  ASSUME IInv, IInv', UNCHANGED count,
         \A t \in Threads : pc'[t] \in PostingPcs <=> pc[t] \in PostingPcs
  PROVE  Unposted' = Unposted
<1>1. TypeOK /\ OnePoster /\ TypeOK' /\ OnePoster'
  BY DEF IInv
<1>2. CASE \E t \in Threads : pc[t] \in PostingPcs
  <2>1. PICK t \in Threads : pc[t] \in PostingPcs
    BY <1>2
  <2>2. Unposted = count[t]
    BY <1>1, <2>1, UnpostedIs
  <2>3. Unposted' = count'[t]
    BY <1>1, <2>1, UnpostedThen
  <2> QED BY <2>2, <2>3
<1>3. CASE ~\E t \in Threads : pc[t] \in PostingPcs
  <2>1. Unposted = 0
    BY <1>1, <1>3, UnpostedIs
  <2>2. Unposted' = 0
    BY <1>1, <1>3, UnpostedThen
  <2> QED BY <2>1, <2>2
<1> QED BY <1>2, <1>3

LEMMA RingTyped ==
  ASSUME IInv
  PROVE  /\ OnRing \in Seq(Buffers) /\ Len(OnRing) = published + Unposted
         /\ published + Unposted \in Nat
<1>1. published \in Nat /\ Unposted \in Nat /\ cardCons \in Buffers /\ desc \in [Buffers -> Buffers]
  BY UnpostedType DEF IInv, TypeOK
<1>2. published + Unposted \in Nat
  BY <1>1
<1>3. cardCons \in Nat
  BY <1>1, RingAssumption DEF Buffers
<1>4. ASSUME NEW k \in 1 .. published + Unposted
      PROVE  desc[Advance(cardCons, k - 1)] \in Buffers
  <2>1. k - 1 \in Nat
    BY <1>2
  <2> QED BY <1>1, <1>3, <2>1, AdvanceInBuffers
<1> DEFINE n == published + Unposted
<1>5. OnRing = [k \in 1 .. n |-> desc[Advance(cardCons, k - 1)]]
  BY RingIs
<1> HIDE DEF n
<1>6. OnRing \in Seq(Buffers) /\ Len(OnRing) = n
  BY <1>2, <1>4, <1>5 DEF n
<1> QED BY <1>2, <1>6 DEF n

\* Not all buffers are on the ring if one is elsewhere.
LEMMA RingHasRoom ==
  ASSUME IInv, Inj(OnRing), NEW b \in Buffers, b \notin Elements(OnRing)
  PROVE  Len(OnRing) < MaxRxDescCount
<1>1. /\ OnRing \in Seq(Buffers) /\ Len(OnRing) \in Nat /\ DOMAIN OnRing = 1 .. Len(OnRing)
      /\ MaxRxDescCount \in Nat \ {0}
  BY RingTyped, RingAssumption
<1>2. IsFiniteSet(Buffers) /\ Cardinality(Buffers) = MaxRxDescCount
  BY <1>1, FS_Interval DEF Buffers
<1>3. IsFiniteSet(Buffers \ {b}) /\ Cardinality(Buffers \ {b}) = MaxRxDescCount - 1
  BY <1>2, FS_RemoveElement
<1>4. IsFiniteSet(1 .. Len(OnRing)) /\ Cardinality(1 .. Len(OnRing)) = Len(OnRing)
  BY <1>1, FS_Interval
<1>5. OnRing \in [1 .. Len(OnRing) -> Buffers \ {b}]
  BY <1>1 DEF Elements
<1>6. ~ \E x, y \in 1 .. Len(OnRing) : x # y /\ OnRing[x] = OnRing[y]
  BY <1>1 DEF Inj
<1>7. ~(Cardinality(Buffers \ {b}) < Cardinality(1 .. Len(OnRing)))
  BY <1>3, <1>4, <1>5, <1>6, FS_PigeonHole
<1> QED BY <1>1, <1>3, <1>4, <1>7

\* The sets of buffers, as the properties name them.
LEMMA FilledIs ==
  /\ \A b : b \in Filled <=> \E c \in Cpus : b \in CurSets[c] \/ b \in ToldSets[c]
  /\ \A b : b \in Filled' <=> \E c \in Cpus : b \in (CurSets')[c] \/ b \in (ToldSets')[c]
<1>1. \A b : b \in Filled <=> \E c \in Cpus : b \in Elements(cur[c]) \/ b \in Told(messages[c])
  BY DEF Filled, Told
<1>2. \A b : b \in Filled' <=>
        \E c \in Cpus : b \in Elements(cur'[c]) \/ b \in Told(messages'[c])
  BY DEF Filled, Told
<1>3. \A c \in Cpus : /\ CurSets[c] = Elements(cur[c]) /\ (CurSets')[c] = Elements(cur'[c])
                      /\ ToldSets[c] = Told(messages[c]) /\ (ToldSets')[c] = Told(messages'[c])
  BY DEF CurSets, ToldSets
<1> QED BY <1>1, <1>2, <1>3

LEMMA FreeIs ==
  /\ \A b : b \in Free <=> \/ b \in Elements(shared)
                           \/ \E t \in Threads : b \in PostSets[t]
                           \/ \E c \in Cpus : b \in LocalSets[c]
  /\ \A b : b \in Free' <=> \/ b \in Elements(shared')
                            \/ \E t \in Threads : b \in (PostSets')[t]
                            \/ \E c \in Cpus : b \in (LocalSets')[c]
<1>1. \A b : b \in Free <=> \/ b \in Elements(shared)
                            \/ \E t \in Threads : b \in Elements(toPost[t])
                            \/ \E c \in Cpus : b \in Elements(local[c])
  BY DEF Free
<1>2. \A b : b \in Free' <=> \/ b \in Elements(shared')
                             \/ \E t \in Threads : b \in Elements(toPost'[t])
                             \/ \E c \in Cpus : b \in Elements(local'[c])
  BY DEF Free
<1>3. /\ \A t \in Threads : /\ PostSets[t] = Elements(toPost[t])
                            /\ (PostSets')[t] = Elements(toPost'[t])
      /\ \A c \in Cpus : /\ LocalSets[c] = Elements(local[c])
                         /\ (LocalSets')[c] = Elements(local'[c])
  BY DEF PostSets, LocalSets
<1> QED BY <1>1, <1>2, <1>3

\* A buffer is free when it is neither on the ring nor filled.
LEMMA FreeRest ==
  /\ OneList => Free = Buffers \ (Elements(OnRing) \cup Filled)
  /\ OneList' => Free' = Buffers \ (Elements(OnRing') \cup Filled')
<1>1. ASSUME OneList PROVE Free = Buffers \ (Elements(OnRing) \cup Filled)
  <2>1. \A b : b \in Free <=> b \in Buffers \ (Elements(OnRing) \cup Filled)
    BY <1>1, FilledIs, FreeIs DEF OneList, Exact
  <2> QED BY <2>1
<1>2. ASSUME OneList' PROVE Free' = Buffers \ (Elements(OnRing') \cup Filled')
  <2>1. \A b : b \in Free' <=> b \in Buffers \ (Elements(OnRing') \cup Filled')
    BY <1>2, FilledIs, FreeIs DEF OneList, Exact
  <2> QED BY <2>1
<1> QED BY <1>1, <1>2

LEMMA ShortageFinite ==
  /\ IsFiniteSet({b \in Buffers : ~hasSkb[b]})
  /\ Cardinality({b \in Buffers : ~hasSkb[b]}) \in Nat
<1>1. IsFiniteSet(Buffers)
  BY FS_Interval, RingAssumption DEF Buffers
<1> QED BY <1>1, FS_Subset, FS_CardinalityType

\* Nothing is on the ring or with a poll when the ring has just been set up.
LEMMA ExactFresh ==
  Exact({}, Buffers, [t \in Threads |-> {}], [c \in Cpus |-> {}], [c \in Cpus |-> {}],
        [c \in Cpus |-> {}])
BY DEF Exact

LEMMA EmptyHolds ==
  /\ Elements(<<>>) = {} /\ Inj(<<>>) /\ Told(<<>>) = {} /\ Apart(<<>>)
  /\ Elements(AllBuffers) = Buffers /\ Inj(AllBuffers)
<1>1. Elements(<<>>) = {} /\ Inj(<<>>) /\ Told(<<>>) = {} /\ Apart(<<>>)
  BY DEF Elements, Inj, Told, Apart
<1>2. \A k \in 1 .. MaxRxDescCount : AllBuffers[k] = k - 1 /\ k - 1 \in Buffers
  BY RingAssumption DEF AllBuffers, Buffers
<1>3. \A b \in Buffers : b + 1 \in 1 .. MaxRxDescCount /\ (b + 1) - 1 = b
  BY RingAssumption DEF Buffers
<1>4. DOMAIN AllBuffers = 1 .. MaxRxDescCount
  BY DEF AllBuffers
<1>5. Elements(AllBuffers) \subseteq Buffers
  BY <1>2, <1>4 DEF Elements
<1>6. ASSUME NEW b \in Buffers PROVE b \in Elements(AllBuffers)
  <2>1. AllBuffers[b + 1] = b /\ b + 1 \in DOMAIN AllBuffers
    BY <1>2, <1>3, <1>4
  <2> QED BY <2>1 DEF Elements
<1>7. ASSUME NEW i \in 1 .. MaxRxDescCount, NEW j \in 1 .. MaxRxDescCount,
             AllBuffers[i] = AllBuffers[j]
      PROVE  i = j
  <2>1. i - 1 = j - 1
    BY <1>2, <1>7
  <2> QED BY <2>1, RingAssumption
<1> QED BY <1>1, <1>4, <1>5, <1>6, <1>7 DEF Inj

LEMMA InitPlaced == Init => PlaceInv
<1> SUFFICES ASSUME Init PROVE PlaceInv
  OBVIOUS
<1>0. TypeOK /\ OnePoster /\ MaxRxDescCount \in Nat \ {0} /\ 0 \in Buffers
  BY InitInv, RingAssumption DEF IInv, Buffers
<1>1. \A t \in Threads : pc[t] \notin PostingPcs
  BY DEF Init, PostingPcs
<1>2. Unposted = 0
  BY <1>0, <1>1, UnpostedIs
<1>3. OnRing = <<>>
  BY <1>2, RingIs DEF Init
<1>4. RingTrue
  <2>1. Advance(0, 0) = 0
    BY <1>0 DEF Advance
  <2> QED BY <1>0, <1>1, <1>2, <2>1 DEF Init, RingTrue, PostingPcs
<1>5. NoDoubles
  BY <1>3, EmptyHolds DEF Init, NoDoubles
<1>6. OneList
  <2>1. /\ Elements(OnRing) = {} /\ Elements(shared) = Buffers
        /\ PostSets = [t \in Threads |-> {}] /\ LocalSets = [c \in Cpus |-> {}]
        /\ CurSets = [c \in Cpus |-> {}] /\ ToldSets = [c \in Cpus |-> {}]
    BY <1>3, EmptyHolds DEF Init, PostSets, LocalSets, CurSets, ToldSets
  <2> QED BY <2>1, ExactFresh DEF OneList
<1>7. PostedHasSkb
  <2>1. \A b : b \notin Filled
    BY FilledIs, EmptyHolds DEF Init, CurSets, ToldSets
  <2> QED BY <1>3, <2>1, EmptyHolds DEF PostedHasSkb
<1>8. AllocFailuresReal
  BY ShortageFinite DEF Init, AllocFailuresReal
<1> QED BY <1>4, <1>5, <1>6, <1>7, <1>8 DEF PlaceInv

-----------------------------------------------------------------------------
(* Steps.                                                                  *)

PoolStep == [Pool!Next]_<<Free, OnRing, Filled>>

\* The ring is not written to, nor read.
LEMMA RingSame ==
  ASSUME IInv, IInv', UNCHANGED <<desc, cardCons, published, count>>,
         \A t \in Threads : pc'[t] \in PostingPcs <=> pc[t] \in PostingPcs
  PROVE  OnRing' = OnRing /\ Unposted' = Unposted
<1>1. Unposted' = Unposted
  BY UnpostedSame
<1> QED BY <1>1, RingIs

\* Buffers move between the free lists, or between messages and the packet at hand.
LEMMA SkbsSame ==
  ASSUME PlaceInv, OneList', OnRing' = OnRing, Filled' = Filled,
         UNCHANGED <<hasSkb, allocFailures>>
  PROVE  PostedHasSkb' /\ AllocFailuresReal' /\ PoolStep
<1>1. Free' = Free
  BY FreeRest DEF PlaceInv
<1>2. PostedHasSkb' /\ AllocFailuresReal'
  BY DEF PlaceInv, PostedHasSkb, AllocFailuresReal
<1> QED BY <1>1, <1>2 DEF PoolStep

LEMMA AppendIs ==
  ASSUME NEW s \in Seq(Buffers), NEW b \in Buffers,
         NEW f \in [1 .. Len(s) + 1 -> Buffers],
         \A k \in 1 .. Len(s) : f[k] = s[k], f[Len(s) + 1] = b
  PROVE  f = Append(s, b)
<1>1. Append(s, b) \in [1 .. Len(s) + 1 -> Buffers] /\ Len(s) \in Nat
  <2>1. Append(s, b) \in Seq(Buffers) /\ Len(Append(s, b)) = Len(s) + 1
    OBVIOUS
  <2>2. Len(s) \in Nat /\ \A u \in Seq(Buffers) : u \in [1 .. Len(u) -> Buffers]
    OBVIOUS
  <2> DEFINE u == Append(s, b)
  <2> HIDE DEF u
  <2>3. u \in [1 .. Len(s) + 1 -> Buffers]
    BY <2>1, <2>2 DEF u
  <2> QED BY <2>2, <2>3 DEF u
<1>2. \A k \in 1 .. Len(s) : Append(s, b)[k] = s[k]
  OBVIOUS
<1>3. Append(s, b)[Len(s) + 1] = b
  OBVIOUS
<1>4. \A k \in 1 .. Len(s) + 1 : k \in 1 .. Len(s) \/ k = Len(s) + 1
  BY <1>1
<1>5. \A k \in 1 .. Len(s) + 1 : f[k] = Append(s, b)[k]
  BY <1>2, <1>3, <1>4
<1> QED BY <1>1, <1>5

LEMMA PostOnePlaces ==
  ASSUME IInv, IInv', PlaceInv, NEW t \in Threads, NEW ok \in BOOLEAN, PostOne(t, ok)
  PROVE  PlaceInv' /\ PoolStep
<1> DEFINE b == Head(toPost[t])
           n == published + count[t]
<1>0. /\ TypeOK /\ TypeOK' /\ OnePoster /\ OnePoster' /\ MaxRxDescCount \in Nat \ {0}
      /\ RingTrue /\ NoDoubles /\ OneList /\ PostedHasSkb /\ AllocFailuresReal
  BY RingAssumption DEF IInv, PlaceInv
<1>1. /\ pc[t] = "post" /\ toPost[t] # <<>> /\ MayPost(t, ok)
      /\ desc' = [desc EXCEPT ![prod[t]] = b]
      /\ prod' = [prod EXCEPT ![t] = Advance(@, 1)]
      /\ count' = [count EXCEPT ![t] = @ + 1]
      /\ toPost' = [toPost EXCEPT ![t] = Tail(@)]
      /\ allocFailures' = IF hasSkb[b] THEN allocFailures ELSE Undo(allocFailures)
      /\ hasSkb' = [hasSkb EXCEPT ![b] = @ \/ ok]
      /\ UNCHANGED <<cardCons, published, messages, producer, shared, local, pc, cur>>
  BY DEF PostOne, sharedVars, localVars
<1>2. /\ b \in Elements(toPost[t]) /\ b \in Buffers
      /\ Tail(toPost[t]) \in Seq(Buffers) /\ Inj(Tail(toPost[t]))
      /\ Elements(Tail(toPost[t])) = Elements(toPost[t]) \ {b}
  <2>1. toPost[t] \in Seq(Buffers) /\ Inj(toPost[t])
    BY <1>0 DEF TypeOK, NoDoubles
  <2> QED BY <1>1, <2>1, TailHolds
<1>3. PostSets[t] = Elements(toPost[t]) /\ b \in PostSets[t]
  BY <1>2 DEF PostSets
<1>4. b \notin Elements(OnRing) /\ b \notin Filled
  BY <1>0, <1>3, FilledIs DEF OneList, Exact
<1>5. Unposted = count[t] /\ Unposted' = count[t] + 1
  <2>1. pc[t] \in PostingPcs /\ pc'[t] \in PostingPcs
    BY <1>1 DEF PostingPcs
  <2>2. count'[t] = count[t] + 1
    BY <1>0, <1>1 DEF TypeOK
  <2> QED BY <1>0, <2>1, <2>2, UnpostedIs, UnpostedThen
<1>6. /\ n \in Nat /\ published \in Nat /\ count[t] \in Nat /\ cardCons \in Buffers
      /\ desc \in [Buffers -> Buffers] /\ prod[t] = Advance(cardCons, n)
  BY <1>0, <1>1 DEF TypeOK, RingTrue
<1>7. /\ OnRing = [k \in 1 .. n |-> desc[Advance(cardCons, k - 1)]]
      /\ OnRing \in Seq(Buffers) /\ Len(OnRing) = n
  BY <1>5, RingIs, RingTyped
<1>8. n < MaxRxDescCount
  BY <1>0, <1>2, <1>4, <1>7, RingHasRoom DEF NoDoubles
<1>9. OnRing' = [k \in 1 .. n + 1 |-> desc'[Advance(cardCons, k - 1)]]
  <2>1. published' + Unposted' = n + 1
    BY <1>1, <1>5, <1>6
  <2> QED BY <1>1, <2>1, RingIs
<1>10. prod[t] \in Buffers
  BY <1>0 DEF TypeOK
<1> HIDE DEF b, n
<1>11. ASSUME NEW k \in 1 .. n PROVE desc'[Advance(cardCons, k - 1)] = OnRing[k]
  <2>1. k - 1 \in Buffers /\ n \in Buffers /\ k - 1 # n /\ k - 1 \in Nat
    BY <1>0, <1>6, <1>8 DEF Buffers
  <2>2. Advance(cardCons, k - 1) # Advance(cardCons, n)
    BY <1>6, <2>1, AdvanceApart
  <2>3. Advance(cardCons, k - 1) \in Buffers
    BY <1>6, <2>1, AdvanceInBuffers DEF Buffers
  <2>4. desc'[Advance(cardCons, k - 1)] = desc[Advance(cardCons, k - 1)]
    BY <1>1, <1>6, <2>2, <2>3
  <2> QED BY <1>7, <2>4
<1>12. desc'[Advance(cardCons, n + 1 - 1)] = b
  <2>1. n + 1 - 1 = n
    BY <1>6
  <2> QED BY <1>1, <1>6, <1>10, <2>1
<1>13. OnRing' = Append(OnRing, b)
  <2> DEFINE f == [k \in 1 .. n + 1 |-> desc'[Advance(cardCons, k - 1)]]
  <2>1. \A k \in 1 .. n : k \in 1 .. n + 1 /\ f[k] = OnRing[k]
    BY <1>6, <1>11
  <2>2. n + 1 \in 1 .. n + 1 /\ f[n + 1] = b
    BY <1>6, <1>12
  <2>0. OnRing \in Seq(Buffers) /\ Len(OnRing) = n
    BY <1>7
  <2>3. ASSUME NEW k \in 1 .. n + 1 PROVE f[k] \in Buffers
    <3>1. k \in 1 .. n \/ k = n + 1
      BY <1>6
    <3>2. \A l \in 1 .. n : OnRing[l] \in Buffers
      BY <2>0
    <3> HIDE DEF f
    <3> QED BY <1>2, <2>1, <2>2, <3>1, <3>2
  <2>4. f \in [1 .. n + 1 -> Buffers]
    BY <2>3
  <2>5. OnRing' = f
    BY <1>9
  <2> HIDE DEF f
  <2>6. f \in [1 .. Len(OnRing) + 1 -> Buffers]
    BY <2>0, <2>4
  <2>7. (\A k \in 1 .. Len(OnRing) : f[k] = OnRing[k]) /\ f[Len(OnRing) + 1] = b
    BY <2>0, <2>1, <2>2
  <2> QED BY <1>2, <2>0, <2>5, <2>6, <2>7, AppendIs
<1>14. Elements(OnRing') = Elements(OnRing) \cup {b} /\ Inj(OnRing')
  BY <1>0, <1>2, <1>4, <1>7, <1>13, AppendHolds DEF NoDoubles
<1>15. OneList'
  <2>1. PostSets' = [PostSets EXCEPT ![t] = @ \ {b}]
    <3>1. \A u \in Threads : toPost'[u] = IF u = t THEN Tail(toPost[t]) ELSE toPost[u]
      BY <1>0, <1>1 DEF TypeOK
    <3>2. \A u \in Threads :
            Elements(toPost'[u]) = IF u = t THEN PostSets[t] \ {b} ELSE PostSets[u]
      BY <1>2, <1>3, <3>1 DEF PostSets
    <3> QED BY <3>2 DEF PostSets
  <2>2. LocalSets' = LocalSets /\ CurSets' = CurSets /\ ToldSets' = ToldSets
    BY <1>1 DEF LocalSets, CurSets, ToldSets
  <2>3. Exact(Elements(OnRing) \cup {b}, Elements(shared), [PostSets EXCEPT ![t] = @ \ {b}],
              LocalSets, CurSets, ToldSets)
    BY <1>0, <1>3, MovePost DEF OneList
  <2> QED BY <1>1, <1>14, <2>1, <2>2, <2>3 DEF OneList
<1>16. NoDoubles'
  <2>1. \A u \in Threads : toPost'[u] = IF u = t THEN Tail(toPost[t]) ELSE toPost[u]
    BY <1>0, <1>1 DEF TypeOK
  <2> QED BY <1>0, <1>1, <1>2, <1>14, <2>1 DEF NoDoubles
<1>17. RingTrue'
  <2>1. published' + Unposted' <= MaxRxDescCount
    <3>1. published' + Unposted' = n + 1
      BY <1>1, <1>5, <1>6 DEF n
    <3> QED BY <1>0, <1>6, <1>8, <3>1
  <2>2. prod'[t] = Advance(cardCons, n + 1) /\ count'[t] = count[t] + 1
    <3>1. prod'[t] = Advance(Advance(cardCons, n), 1)
      BY <1>0, <1>1, <1>6 DEF TypeOK
    <3> QED BY <1>0, <1>1, <1>6, <1>8, <3>1, AdvanceTwice DEF TypeOK
  <2>3. n + 1 = published' + count'[t]
    BY <1>1, <1>6, <2>2 DEF n
  <2>4. \A u \in Threads \ {t} : /\ prod'[u] = prod[u] /\ count'[u] = count[u]
                                 /\ toPost'[u] = toPost[u]
    BY <1>0, <1>1 DEF TypeOK
  <2> QED BY <1>0, <1>1, <2>1, <2>2, <2>3, <2>4 DEF RingTrue
<1>18. Filled' = Filled
  BY <1>1 DEF Filled
<1>19. hasSkb'[b] /\ \A x \in Buffers : hasSkb[x] => hasSkb'[x]
  <2>1. hasSkb[b] \/ ok
    BY <1>1 DEF MayPost, b
  <2> QED BY <1>0, <1>1, <1>2, <2>1 DEF TypeOK
<1>20. PostedHasSkb'
  <2>1. Filled \subseteq Buffers /\ Elements(OnRing) \subseteq Buffers
    BY <1>0, FilledIs DEF OneList, Exact
  <2> QED BY <1>0, <1>14, <1>18, <1>19, <2>1 DEF PostedHasSkb
<1>21. AllocFailuresReal'
  <2> DEFINE S == {x \in Buffers : ~hasSkb[x]}
             Z == {x \in Buffers : ~hasSkb'[x]}
  <2>1. IsFiniteSet(S) /\ Cardinality(S) \in Nat /\ allocFailures <= Cardinality(S)
    BY <1>0, ShortageFinite DEF AllocFailuresReal
  <2>2. Z = S \ {b}
    BY <1>0, <1>1, <1>2, <1>19 DEF TypeOK
  <2>3. Cardinality(Z) = IF b \in S THEN Cardinality(S) - 1 ELSE Cardinality(S)
    BY <2>1, <2>2, FS_RemoveElement
  <2>4. b \in S <=> ~hasSkb[b]
    BY <1>2
  <2>5. allocFailures \in Nat
    BY <1>0 DEF TypeOK
  <2>6. allocFailures' = IF b \in S THEN Undo(allocFailures) ELSE allocFailures
    BY <1>1, <2>4
  <2> HIDE DEF S, Z
  <2>7. allocFailures' <= Cardinality(Z)
    <3>1. CASE b \in S
      <4>1. Cardinality(S) # 0
        BY <2>1, <3>1, FS_EmptySet
      <4> QED BY <2>1, <2>3, <2>5, <2>6, <3>1, <4>1 DEF Undo
    <3>2. CASE b \notin S
      BY <2>1, <2>3, <2>6, <3>2
    <3> QED BY <3>1, <3>2
  <2> QED BY <2>7 DEF AllocFailuresReal, Z
<1>22. PoolStep
  <2>1. b \in Free
    BY <1>3, FreeIs
  <2>2. Free' = Free \ {b}
    BY <1>0, <1>2, <1>14, <1>15, <1>18, FreeRest
  <2>3. Pool!Post(b)
    BY <1>13, <1>18, <2>1, <2>2 DEF Pool!Post
  <2> QED BY <1>2, <2>3 DEF PoolStep, Pool!Next
<1> QED BY <1>15, <1>16, <1>17, <1>20, <1>21, <1>22 DEF PlaceInv

LEMMA PutBackPlaces ==
  ASSUME IInv, IInv', PlaceInv, NEW t \in Threads, PostPutBack(t)
  PROVE  PlaceInv' /\ PoolStep
<1>0. TypeOK /\ RingTrue /\ NoDoubles /\ OneList
  BY DEF IInv, PlaceInv
<1>1. /\ pc[t] = "post" /\ shared' = shared \o toPost[t]
      /\ toPost' = [toPost EXCEPT ![t] = <<>>]
      /\ pc' = [pc EXCEPT ![t] = "publish"]
      /\ UNCHANGED <<desc, cardCons, published, messages, producer, hasSkb, allocFailures,
                     local, cur, prod, count>>
  BY DEF PostPutBack, cardVars, localVars, GoTo
<1>2. \A u \in Threads : /\ toPost'[u] = IF u = t THEN <<>> ELSE toPost[u]
                         /\ pc'[u] = IF u = t THEN "publish" ELSE pc[u]
  BY <1>0, <1>1 DEF TypeOK
<1>3. OnRing' = OnRing /\ Unposted' = Unposted
  BY <1>1, <1>2, RingSame DEF PostingPcs
<1>4. /\ PostSets[t] = Elements(toPost[t])
      /\ Elements(shared) \cap Elements(toPost[t]) = {}
  BY <1>0 DEF PostSets, OneList, Exact
<1>5. Elements(shared') = Elements(shared) \cup Elements(toPost[t]) /\ Inj(shared')
  <2>1. /\ shared \in Seq(Buffers) /\ toPost[t] \in Seq(Buffers)
        /\ Inj(shared) /\ Inj(toPost[t])
    BY <1>0 DEF TypeOK, NoDoubles
  <2> QED BY <1>1, <1>4, <2>1, ConcatHolds
<1>6. OneList'
  <2>1. PostSets' = [PostSets EXCEPT ![t] = {}]
    BY <1>2, EmptyHolds DEF PostSets
  <2>2. LocalSets' = LocalSets /\ CurSets' = CurSets /\ ToldSets' = ToldSets
    BY <1>1 DEF LocalSets, CurSets, ToldSets
  <2>3. Exact(Elements(OnRing), Elements(shared) \cup PostSets[t],
              [PostSets EXCEPT ![t] = {}], LocalSets, CurSets, ToldSets)
    BY <1>0, MoveBack DEF OneList
  <2> QED BY <1>3, <1>4, <1>5, <2>1, <2>2, <2>3 DEF OneList
<1>7. NoDoubles'
  BY <1>0, <1>1, <1>2, <1>3, <1>5, EmptyHolds DEF NoDoubles
<1>8. RingTrue'
  BY <1>0, <1>1, <1>2, <1>3, ThreadsDistinct DEF RingTrue
<1>9. Filled' = Filled
  BY <1>1 DEF Filled
<1> QED BY <1>1, <1>3, <1>6, <1>7, <1>8, <1>9, SkbsSame DEF PlaceInv

LEMMA PublishPlaces ==
  ASSUME IInv, IInv', PlaceInv, NEW t \in Threads, PostPublish(t)
  PROVE  PlaceInv' /\ PoolStep
<1>0. /\ TypeOK /\ OnePoster /\ TypeOK' /\ OnePoster'
      /\ RingTrue /\ NoDoubles /\ OneList
  BY DEF IInv, PlaceInv
<1>1. /\ pc[t] = "publish" /\ producer' = prod[t] /\ published' = published + count[t]
      /\ prod' = [prod EXCEPT ![t] = 0] /\ count' = [count EXCEPT ![t] = 0]
      /\ pc' = [pc EXCEPT ![t] = "done"]
      /\ UNCHANGED <<desc, cardCons, messages, hasSkb, allocFailures, shared, local, cur, toPost>>
  BY DEF PostPublish, sharedVars, localVars, GoTo
<1>2. \A u \in Threads : /\ count'[u] = IF u = t THEN 0 ELSE count[u]
                         /\ prod'[u] = IF u = t THEN 0 ELSE prod[u]
                         /\ pc'[u] = IF u = t THEN "done" ELSE pc[u]
  BY <1>0, <1>1 DEF TypeOK
<1>3. Unposted = count[t] /\ Unposted' = 0
  <2>1. pc[t] \in PostingPcs /\ pc'[t] \in PostingPcs
    BY <1>1, <1>2 DEF PostingPcs
  <2> QED BY <1>0, <1>2, <2>1, UnpostedIs, UnpostedThen
<1>4. published' + Unposted' = published + Unposted
  BY <1>0, <1>1, <1>3 DEF TypeOK
<1>5. OnRing' = OnRing
  BY <1>1, <1>4, RingIs
<1>6. OneList'
  <2>1. PostSets' = PostSets /\ LocalSets' = LocalSets /\ CurSets' = CurSets
        /\ ToldSets' = ToldSets
    BY <1>1 DEF PostSets, LocalSets, CurSets, ToldSets
  <2> QED BY <1>0, <1>1, <1>5, <2>1 DEF OneList
<1>7. NoDoubles'
  BY <1>0, <1>1, <1>5 DEF NoDoubles
<1>8. RingTrue'
  <2>1. producer' = Advance(cardCons', published')
    BY <1>0, <1>1 DEF RingTrue
  <2>2. ASSUME NEW u \in Threads
        PROVE  /\ pc'[u] \in {"post", "publish"} =>
                    prod'[u] = Advance(cardCons', published' + count'[u])
               /\ pc'[u] \notin {"post", "publish"} => count'[u] = 0
               /\ pc'[u] # "post" => toPost'[u] = <<>>
    <3>1. CASE u = t
      BY <1>0, <1>1, <1>2, <3>1 DEF RingTrue
    <3>2. CASE u # t
      <4>1. pc[u] \notin PostingPcs
        BY <1>0, <1>1, <3>2 DEF OnePoster, PostingPcs
      <4> QED BY <1>0, <1>1, <1>2, <3>2, <4>1 DEF RingTrue, PostingPcs
    <3> QED BY <3>1, <3>2
  <2>3. \A c \in Cpus : pc'[c] # "rcv" => cur'[c] = <<>>
    BY <1>0, <1>1, <1>2, ThreadsDistinct DEF RingTrue
  <2> QED BY <1>0, <1>4, <2>1, <2>2, <2>3 DEF RingTrue
<1>9. Filled' = Filled
  BY <1>1 DEF Filled
<1> QED BY <1>1, <1>5, <1>6, <1>7, <1>8, <1>9, SkbsSame DEF PlaceInv

LEMMA DonePlaces ==
  ASSUME IInv, IInv', PlaceInv, NEW t \in Threads, PostDone(t)
  PROVE  PlaceInv' /\ PoolStep
<1>0. /\ TypeOK /\ OnePoster /\ TypeOK' /\ OnePoster'
      /\ RingTrue /\ NoDoubles /\ OneList
  BY DEF IInv, PlaceInv
<1>1. /\ pc[t] = "done" /\ posting' = FALSE
      /\ pc' = [pc EXCEPT ![t] = IF t = Opener THEN "opened" ELSE "idle"]
      /\ UNCHANGED <<desc, cardCons, published, messages, producer, hasSkb, allocFailures,
                     shared, local, cur, toPost, prod, count>>
  BY DEF PostDone, cardVars, localVars, postVars, GoTo
<1>2. \A u \in Threads :
        pc'[u] = IF u = t THEN (IF t = Opener THEN "opened" ELSE "idle") ELSE pc[u]
  BY <1>0, <1>1 DEF TypeOK
<1>3. Unposted = 0 /\ Unposted' = 0
  <2>1. pc[t] \in PostingPcs /\ count[t] = 0
    BY <1>0, <1>1 DEF PostingPcs, RingTrue
  <2> QED BY <1>0, <1>1, <2>1, UnpostedIs DEF Unposted
<1>4. OnRing' = OnRing
  BY <1>1, <1>3, RingIs
<1>5. OneList'
  <2>1. PostSets' = PostSets /\ LocalSets' = LocalSets /\ CurSets' = CurSets
        /\ ToldSets' = ToldSets
    BY <1>1 DEF PostSets, LocalSets, CurSets, ToldSets
  <2> QED BY <1>0, <1>1, <1>4, <2>1 DEF OneList
<1>6. NoDoubles'
  BY <1>0, <1>1, <1>4 DEF NoDoubles
<1>7. RingTrue'
  BY <1>0, <1>1, <1>2, <1>3, ThreadsDistinct DEF RingTrue
<1>8. Filled' = Filled
  BY <1>1 DEF Filled
<1> QED BY <1>1, <1>4, <1>5, <1>6, <1>7, <1>8, SkbsSame DEF PlaceInv

\* A step that only lets a thread go on, to or from neither posting nor receiving.
LEMMA GoesPlaces ==
  ASSUME IInv, IInv', PlaceInv,
         UNCHANGED <<cardVars, producer, hasSkb, allocFailures, sharedVars, localVars, cur, postVars>>,
         NEW t \in Threads, NEW l, pc' = [pc EXCEPT ![t] = l],
         pc[t] \notin PostingPcs, l \notin PostingPcs, t \in Cpus => cur[t] = <<>>
  PROVE  PlaceInv' /\ PoolStep
<1>0. TypeOK /\ RingTrue /\ NoDoubles /\ OneList
  BY DEF IInv, PlaceInv
<1>1. UNCHANGED <<desc, cardCons, published, messages, producer, hasSkb, allocFailures,
                  shared, local, cur, toPost, prod, count>>
  BY DEF cardVars, sharedVars, localVars, postVars
<1>2. \A u \in Threads : pc'[u] = IF u = t THEN l ELSE pc[u]
  BY <1>0 DEF TypeOK
<1>3. OnRing' = OnRing /\ Unposted' = Unposted
  BY <1>1, <1>2, RingSame
<1>4. OneList'
  <2>1. PostSets' = PostSets /\ LocalSets' = LocalSets /\ CurSets' = CurSets
        /\ ToldSets' = ToldSets
    BY <1>1 DEF PostSets, LocalSets, CurSets, ToldSets
  <2> QED BY <1>0, <1>1, <1>3, <2>1 DEF OneList
<1>5. NoDoubles'
  BY <1>0, <1>1, <1>3 DEF NoDoubles
<1>6. RingTrue'
  BY <1>0, <1>1, <1>2, <1>3, ThreadsDistinct DEF RingTrue, PostingPcs
<1>7. Filled' = Filled
  BY <1>1 DEF Filled
<1> QED BY <1>1, <1>3, <1>4, <1>5, <1>6, <1>7, SkbsSame DEF PlaceInv


\* The section under buf_post_lock: the thread makes a list its own.
LEMMA TakenPlaces ==
  ASSUME IInv, IInv', PlaceInv, NEW t \in Threads, pc[t] \notin PostingPcs \cup {"rcv"}, ~posting,
         NEW list \in Seq(Buffers), NEW n, Take(t, list, n), Inj(list),
         UNCHANGED <<cardVars, producer, hasSkb, allocFailures, cur>>,
         \A c \in Cpus : Inj(local'[c]),
         Exact(Elements(OnRing), Elements(list), PostSets, LocalSets', CurSets, ToldSets)
  PROVE  PlaceInv' /\ PoolStep
<1>0. /\ TypeOK /\ OnePoster /\ TypeOK' /\ OnePoster'
      /\ RingTrue /\ NoDoubles /\ OneList
  BY DEF IInv, PlaceInv
<1>1. /\ toPost' = [toPost EXCEPT ![t] = list] /\ shared' = <<>>
      /\ prod' = [prod EXCEPT ![t] = producer] /\ count' = [count EXCEPT ![t] = 0]
      /\ pc' = [pc EXCEPT ![t] = "post"]
      /\ UNCHANGED <<desc, cardCons, published, messages, producer, hasSkb, allocFailures, cur>>
  BY DEF Take, cardVars, GoTo
<1>2. \A u \in Threads : /\ toPost'[u] = IF u = t THEN list ELSE toPost[u]
                         /\ prod'[u] = IF u = t THEN producer ELSE prod[u]
                         /\ count'[u] = IF u = t THEN 0 ELSE count[u]
                         /\ pc'[u] = IF u = t THEN "post" ELSE pc[u]
  BY <1>0, <1>1 DEF TypeOK
<1>3. \A u \in Threads : pc[u] \notin PostingPcs
  BY <1>0 DEF OnePoster
<1>4. Unposted = 0 /\ Unposted' = 0
  <2>1. Unposted = 0
    BY <1>0, <1>3, UnpostedIs
  <2>2. pc'[t] \in PostingPcs /\ count'[t] = 0
    BY <1>2 DEF PostingPcs
  <2> QED BY <1>0, <2>1, <2>2, UnpostedThen
<1>5. OnRing' = OnRing
  BY <1>1, <1>4, RingIs
<1>6. toPost[t] = <<>>
  BY <1>0 DEF RingTrue, PostingPcs
<1>7. OneList'
  <2>1. PostSets' = [PostSets EXCEPT ![t] = Elements(list)]
    BY <1>2 DEF PostSets
  <2>2. PostSets[t] = {}
    BY <1>6, EmptyHolds DEF PostSets
  <2>3. CurSets' = CurSets /\ ToldSets' = ToldSets
    BY <1>1 DEF CurSets, ToldSets
  <2>4. Exact(Elements(OnRing), {}, [PostSets EXCEPT ![t] = Elements(list)],
              LocalSets', CurSets, ToldSets)
    BY <2>2, MoveTake
  <2> QED BY <1>1, <1>5, <2>1, <2>3, <2>4, EmptyHolds DEF OneList
<1>8. NoDoubles'
  BY <1>0, <1>1, <1>2, <1>5, EmptyHolds DEF NoDoubles
<1>9. RingTrue'
  <2>1. published + 0 = published
    BY <1>0 DEF TypeOK
  <2>2. producer' = Advance(cardCons', published')
    BY <1>0, <1>1 DEF RingTrue
  <2>3. ASSUME NEW u \in Threads
        PROVE  /\ pc'[u] \in {"post", "publish"} =>
                    prod'[u] = Advance(cardCons', published' + count'[u])
               /\ pc'[u] \notin {"post", "publish"} => count'[u] = 0
               /\ pc'[u] # "post" => toPost'[u] = <<>>
    <3>1. CASE u = t
      BY <1>1, <1>2, <2>1, <2>2, <3>1
    <3>2. CASE u # t
      BY <1>0, <1>2, <1>3, <3>2 DEF RingTrue, PostingPcs
    <3> QED BY <3>1, <3>2
  <2>4. \A c \in Cpus : pc'[c] # "rcv" => cur'[c] = <<>>
    BY <1>0, <1>1, <1>2, ThreadsDistinct DEF RingTrue
  <2> QED BY <1>0, <1>1, <1>4, <2>2, <2>3, <2>4 DEF RingTrue
<1>10. Filled' = Filled
  BY <1>1 DEF Filled
<1> QED BY <1>1, <1>5, <1>7, <1>8, <1>9, <1>10, SkbsSame DEF PlaceInv

LEMMA OpenPlaces ==
  ASSUME IInv, IInv', PlaceInv, Open
  PROVE  PlaceInv' /\ PoolStep
<1>0. /\ TypeOK /\ NoDoubles /\ OneList /\ Opener \in Threads /\ Opener \notin Cpus
      /\ pc[Opener] = "open"
      /\ UNCHANGED <<cardVars, producer, hasSkb, allocFailures, local, localVars, cur>>
  BY ThreadsDistinct DEF Open, IInv, PlaceInv, localVars
<1>1. CASE posting \/ shared = <<>>
  <2>1. UNCHANGED <<sharedVars, postVars>> /\ pc' = [pc EXCEPT ![Opener] = "opened"]
    BY <1>1 DEF Open, GoTo
  <2> QED BY <1>0, <2>1, GoesPlaces DEF PostingPcs
<1>2. CASE ~(posting \/ shared = <<>>)
  <2>1. Take(Opener, shared, sharedCount) /\ ~posting
    BY <1>2 DEF Open
  <2>2. LocalSets' = LocalSets /\ \A c \in Cpus : Inj(local'[c])
    BY <1>0 DEF LocalSets, NoDoubles
  <2>3. shared \in Seq(Buffers) /\ Inj(shared)
    BY <1>0 DEF TypeOK, NoDoubles
  <2>4. Exact(Elements(OnRing), Elements(shared), PostSets, LocalSets', CurSets, ToldSets)
    BY <1>0, <2>2 DEF OneList
  <2> QED BY <1>0, <2>1, <2>2, <2>3, <2>4, TakenPlaces DEF PostingPcs
<1> QED BY <1>1, <1>2

LEMMA SplicePlaces ==
  ASSUME IInv, IInv', PlaceInv, NEW c \in Cpus, PostSplice(c)
  PROVE  PlaceInv' /\ PoolStep
<1> DEFINE list == shared \o local[c]
<1>0. /\ TypeOK /\ RingTrue /\ NoDoubles /\ OneList /\ c \in Threads /\ pc[c] = "free"
      /\ local' = [local EXCEPT ![c] = <<>>]
      /\ UNCHANGED <<cardVars, producer, hasSkb, allocFailures, cur>>
  BY ThreadsDistinct DEF PostSplice, IInv, PlaceInv
<1>1. \A d \in Cpus : local'[d] = IF d = c THEN <<>> ELSE local[d]
  BY <1>0 DEF TypeOK
<1>2. /\ list \in Seq(Buffers) /\ Inj(list)
      /\ Elements(list) = Elements(shared) \cup Elements(local[c])
  <2>1. /\ shared \in Seq(Buffers) /\ local[c] \in Seq(Buffers)
        /\ Inj(shared) /\ Inj(local[c])
    BY <1>0 DEF TypeOK, NoDoubles
  <2>2. Elements(shared) \cap Elements(local[c]) = {}
    BY <1>0 DEF LocalSets, OneList, Exact
  <2>3. list \in Seq(Buffers)
    BY <2>1
  <2> QED BY <2>1, <2>2, <2>3, ConcatHolds
<1>3. LocalSets' = [LocalSets EXCEPT ![c] = {}] /\ LocalSets[c] = Elements(local[c])
  BY <1>1, EmptyHolds DEF LocalSets
<1>4. Exact(Elements(OnRing), Elements(list), PostSets, LocalSets', CurSets, ToldSets)
  <2>1. Exact(Elements(OnRing), Elements(shared) \cup LocalSets[c], PostSets,
              [LocalSets EXCEPT ![c] = {}], CurSets, ToldSets)
    BY <1>0, MoveSplice DEF OneList
  <2> QED BY <1>2, <1>3, <2>1
<1>5. \A d \in Cpus : Inj(local'[d])
  BY <1>0, <1>1, EmptyHolds DEF NoDoubles
<1>6. CASE MayTake(Added(c))
  <2>1. Take(c, list, Added(c)) /\ ~posting
    BY <1>6 DEF PostSplice, MayTake
  <2> HIDE DEF list
  <2> QED BY <1>0, <1>2, <1>4, <1>5, <2>1, TakenPlaces DEF PostingPcs
<1>7. CASE ~MayTake(Added(c))
  <2>1. /\ shared' = list /\ pc' = [pc EXCEPT ![c] = "idle"]
        /\ UNCHANGED <<posting, toPost, toPostCount, prod, count>>
        /\ UNCHANGED <<desc, cardCons, published, messages>>
    BY <1>0, <1>7 DEF PostSplice, GoTo, postVars, cardVars
  <2>2. \A u \in Threads : pc'[u] = IF u = c THEN "idle" ELSE pc[u]
    BY <1>0, <2>1 DEF TypeOK
  <2>3. OnRing' = OnRing /\ Unposted' = Unposted
    BY <1>0, <2>1, <2>2, RingSame DEF PostingPcs
  <2>4. PostSets' = PostSets /\ CurSets' = CurSets /\ ToldSets' = ToldSets
    BY <1>0, <2>1 DEF PostSets, CurSets, ToldSets
  <2> HIDE DEF list
  <2>5. OneList'
    BY <1>4, <2>1, <2>3, <2>4 DEF OneList
  <2>6. NoDoubles'
    BY <1>0, <1>2, <1>5, <2>1, <2>3 DEF NoDoubles
  <2>7. RingTrue'
    BY <1>0, <2>1, <2>2, <2>3, ThreadsDistinct DEF RingTrue
  <2>8. Filled' = Filled
    BY <1>0, <2>1 DEF Filled
  <2> QED BY <1>0, <2>3, <2>5, <2>6, <2>7, <2>8, SkbsSame DEF PlaceInv
<1> QED BY <1>6, <1>7

LEMMA DetachPlaces ==
  ASSUME IInv, IInv', PlaceInv, Detach
  PROVE  PlaceInv' /\ PoolStep
<1>0. /\ TypeOK /\ PcOK /\ OnePoster /\ TypeOK' /\ OnePoster' /\ RingTrue /\ NoDoubles
      /\ MaxRxDescCount \in Nat \ {0} /\ 0 \in Buffers
  BY RingAssumption DEF IInv, PlaceInv, Buffers
<1>1. /\ producer' = 0 /\ cardCons' = 0 /\ published' = 0
      /\ hasSkb' = [b \in Buffers |-> FALSE] /\ allocFailures' = 0 /\ shared' = AllBuffers
      /\ local' = [c \in Cpus |-> <<>>] /\ messages' = [c \in Cpus |-> <<>>]
      /\ pc' = [pc EXCEPT ![Opener] = "open"]
      /\ UNCHANGED <<cur, toPost, prod, count>>
  BY DEF Detach, GoTo, postVars
<1>2. \A t \in Threads : pc[t] \in {"opened", "idle"} /\ pc'[t] \in {"open", "idle"}
  BY <1>0, <1>1, ThreadsDistinct DEF Detach, Threads, TypeOK
<1>3. /\ \A t \in Threads : toPost'[t] = <<>> /\ count'[t] = 0
      /\ \A c \in Cpus : cur'[c] = <<>>
  BY <1>0, <1>1, <1>2, ThreadsDistinct DEF RingTrue
<1>4. Unposted' = 0
  BY <1>0, <1>2, UnpostedThen DEF PostingPcs
<1>5. OnRing' = <<>>
  BY <1>1, <1>4, RingIs
<1>6. RingTrue'
  <2>1. Advance(0, 0) = 0
    BY <1>0 DEF Advance
  <2> QED BY <1>0, <1>1, <1>2, <1>3, <1>4, <2>1 DEF RingTrue
<1>7. NoDoubles'
  BY <1>1, <1>3, <1>5, EmptyHolds DEF NoDoubles
<1>8. OneList'
  <2>1. /\ Elements(OnRing') = {} /\ Elements(shared') = Buffers
        /\ PostSets' = [t \in Threads |-> {}] /\ LocalSets' = [c \in Cpus |-> {}]
        /\ CurSets' = [c \in Cpus |-> {}] /\ ToldSets' = [c \in Cpus |-> {}]
    BY <1>1, <1>3, <1>5, EmptyHolds DEF PostSets, LocalSets, CurSets, ToldSets
  <2> QED BY <2>1, ExactFresh DEF OneList
<1>9. Filled' = {}
  <2>1. \A c \in Cpus : (CurSets')[c] = {} /\ (ToldSets')[c] = {}
    BY <1>1, <1>3, EmptyHolds DEF CurSets, ToldSets
  <2> QED BY <2>1, FilledIs
<1>10. PostedHasSkb'
  BY <1>5, <1>9, EmptyHolds DEF PostedHasSkb
<1>11. AllocFailuresReal'
  <2>1. {b \in Buffers : ~hasSkb'[b]} = Buffers
    BY <1>1
  <2>2. Cardinality(Buffers) = MaxRxDescCount
    BY <1>0, FS_Interval DEF Buffers
  <2>3. 0 <= MaxRxDescCount
    BY <1>0
  <2>4. allocFailures' <= Cardinality({b \in Buffers : ~hasSkb'[b]})
    BY <1>1, <2>1, <2>2, <2>3
  <2> QED BY <2>4 DEF AllocFailuresReal
<1>12. PoolStep
  <2>1. Free' = Buffers
    BY <1>5, <1>8, <1>9, FreeRest, EmptyHolds
  <2> QED BY <1>5, <1>9, <2>1 DEF PoolStep, Pool!Next, Pool!Reset
<1> QED BY <1>6, <1>7, <1>8, <1>10, <1>11, <1>12 DEF PlaceInv

\* A buffer a poll holds becomes free.
LEMMA ReleaseIs ==
  ASSUME OneList, OneList', OnRing' = OnRing, NEW b \in Buffers, b \in Filled,
         Filled' = Filled \ {b}
  PROVE  b \notin Elements(OnRing) /\ PoolStep
<1>1. b \notin Elements(OnRing)
  BY FilledIs DEF OneList, Exact
<1>2. Free' = Free \cup {b}
  BY <1>1, FreeRest
<1> QED BY <1>1, <1>2 DEF PoolStep, Pool!Next, Pool!Release

LEMMA RecyclePlaces ==
  ASSUME IInv, IInv', PlaceInv, NEW c \in Cpus, RcvRecycle(c)
  PROVE  PlaceInv' /\ PoolStep
<1> DEFINE m == Head(messages[c])
           b == Head(m)
<1>0. /\ TypeOK /\ RingTrue /\ NoDoubles /\ OneList /\ PostedHasSkb /\ AllocFailuresReal
  BY DEF IInv, PlaceInv
<1>1. /\ messages[c] # <<>> /\ Len(m) = 1
      /\ local' = [local EXCEPT ![c] = Append(@, b)]
      /\ messages' = [messages EXCEPT ![c] = Tail(@)]
      /\ UNCHANGED <<desc, cardCons, published, producer, hasSkb, allocFailures, shared,
                     pc, cur, toPost, prod, count>>
  BY DEF RcvRecycle, FreeBuffer, sharedVars, postVars
<1>2. /\ m \in Seq(Buffers) /\ Apart(Tail(messages[c]))
      /\ Elements(m) \subseteq Told(messages[c])
      /\ Told(Tail(messages[c])) = Told(messages[c]) \ Elements(m)
  <2>1. messages[c] \in Seq(Seq(Buffers)) /\ Apart(messages[c])
    BY <1>0 DEF TypeOK, NoDoubles
  <2> QED BY <1>1, <2>1, TakeMessage
<1>3. Elements(m) = {b} /\ b \in Buffers
  BY <1>1, <1>2, OneElement
<1>4. \A d \in Cpus : /\ local'[d] = IF d = c THEN Append(local[c], b) ELSE local[d]
                      /\ messages'[d] = IF d = c THEN Tail(messages[c]) ELSE messages[d]
  BY <1>0, <1>1 DEF TypeOK
<1> HIDE DEF m, b
<1>5. ToldSets[c] = Told(messages[c]) /\ b \in ToldSets[c]
  BY <1>2, <1>3 DEF ToldSets
<1>6. /\ Elements(Append(local[c], b)) = Elements(local[c]) \cup {b}
      /\ Inj(Append(local[c], b))
  <2>1. local[c] \in Seq(Buffers) /\ Inj(local[c])
    BY <1>0 DEF TypeOK, NoDoubles
  <2>2. b \notin Elements(local[c])
    BY <1>0, <1>5 DEF OneList, Exact, LocalSets
  <2> QED BY <1>3, <2>1, <2>2, AppendHolds
<1>7. OnRing' = OnRing /\ Unposted' = Unposted
  BY <1>1, RingSame
<1>8. /\ LocalSets' = [LocalSets EXCEPT ![c] = @ \cup {b}]
      /\ ToldSets' = [ToldSets EXCEPT ![c] = @ \ {b}]
      /\ CurSets' = CurSets /\ PostSets' = PostSets
  <2>1. \A d \in Cpus : Elements(local'[d]) = IF d = c THEN LocalSets[c] \cup {b} ELSE LocalSets[d]
    BY <1>4, <1>6 DEF LocalSets
  <2>2. \A d \in Cpus : Told(messages'[d]) = IF d = c THEN ToldSets[c] \ {b} ELSE ToldSets[d]
    BY <1>2, <1>3, <1>4 DEF ToldSets
  <2>3. LocalSets' = [LocalSets EXCEPT ![c] = @ \cup {b}]
    BY <2>1 DEF LocalSets
  <2>4. ToldSets' = [ToldSets EXCEPT ![c] = @ \ {b}]
    BY <2>2 DEF ToldSets
  <2> QED BY <1>1, <2>3, <2>4 DEF CurSets, PostSets
<1>9. OneList'
  <2>1. Exact(Elements(OnRing), Elements(shared), PostSets, [LocalSets EXCEPT ![c] = @ \cup {b}],
              CurSets, [ToldSets EXCEPT ![c] = @ \ {b}])
    BY <1>0, <1>5, MoveRecycle DEF OneList
  <2> QED BY <1>1, <1>7, <1>8, <2>1 DEF OneList
<1>10. NoDoubles'
  BY <1>0, <1>1, <1>2, <1>4, <1>6, <1>7 DEF NoDoubles
<1>11. RingTrue'
  BY <1>0, <1>1, <1>7 DEF RingTrue
<1>12. b \in Filled /\ Filled' = Filled \ {b}
  <2>1. \A d \in Cpus : /\ (ToldSets')[d] = IF d = c THEN ToldSets[c] \ {b} ELSE ToldSets[d]
                        /\ (CurSets')[d] = CurSets[d]
    BY <1>8 DEF ToldSets
  <2>2. \A d \in Cpus : b \notin CurSets[d] /\ (b \in ToldSets[d] => d = c)
    BY <1>0, <1>5 DEF OneList, Exact
  <2>3. \A x : x \in Filled' <=> x \in Filled /\ x # b
    BY <2>1, <2>2, FilledIs
  <2> QED BY <1>5, <2>3, FilledIs
<1>13. PostedHasSkb' /\ AllocFailuresReal'
  BY <1>0, <1>1, <1>7, <1>12 DEF PostedHasSkb, AllocFailuresReal
<1> QED BY <1>0, <1>3, <1>7, <1>9, <1>10, <1>11, <1>12, <1>13, ReleaseIs DEF PlaceInv

LEMMA AcceptPlaces ==
  ASSUME IInv, IInv', PlaceInv, NEW c \in Cpus, messages[c] # <<>>, Accept(c)
  PROVE  PlaceInv' /\ PoolStep
<1> DEFINE m == Head(messages[c])
<1>0. TypeOK /\ RingTrue /\ NoDoubles /\ OneList
  BY DEF IInv, PlaceInv
<1>1. /\ pc[c] = "rcv" /\ cur[c] = <<>>
      /\ cur' = [cur EXCEPT ![c] = m]
      /\ messages' = [messages EXCEPT ![c] = Tail(@)]
      /\ UNCHANGED <<desc, cardCons, published, producer, hasSkb, allocFailures, shared, local,
                     pc, toPost, prod, count>>
  BY DEF Accept, sharedVars, localVars, postVars
<1>2. /\ m \in Seq(Buffers) /\ Inj(m) /\ Apart(Tail(messages[c]))
      /\ Elements(m) \subseteq Told(messages[c])
      /\ Told(Tail(messages[c])) = Told(messages[c]) \ Elements(m)
  <2>1. messages[c] \in Seq(Seq(Buffers)) /\ Apart(messages[c])
    BY <1>0 DEF TypeOK, NoDoubles
  <2> QED BY <2>1, TakeMessage
<1>3. \A d \in Cpus : /\ cur'[d] = IF d = c THEN m ELSE cur[d]
                      /\ messages'[d] = IF d = c THEN Tail(messages[c]) ELSE messages[d]
  BY <1>0, <1>1 DEF TypeOK
<1> HIDE DEF m
<1>4. /\ ToldSets[c] = Told(messages[c]) /\ Elements(m) \in SUBSET ToldSets[c]
      /\ CurSets[c] = {}
  BY <1>1, <1>2, EmptyHolds DEF ToldSets, CurSets
<1>5. OnRing' = OnRing /\ Unposted' = Unposted
  BY <1>1, RingSame
<1>6. /\ CurSets' = [CurSets EXCEPT ![c] = Elements(m)]
      /\ ToldSets' = [ToldSets EXCEPT ![c] = @ \ Elements(m)]
      /\ LocalSets' = LocalSets /\ PostSets' = PostSets
  <2>1. \A d \in Cpus : Elements(cur'[d]) = IF d = c THEN Elements(m) ELSE CurSets[d]
    BY <1>3 DEF CurSets
  <2>2. \A d \in Cpus :
          Told(messages'[d]) = IF d = c THEN ToldSets[c] \ Elements(m) ELSE ToldSets[d]
    BY <1>2, <1>3 DEF ToldSets
  <2>3. CurSets' = [CurSets EXCEPT ![c] = Elements(m)]
    BY <2>1 DEF CurSets
  <2>4. ToldSets' = [ToldSets EXCEPT ![c] = @ \ Elements(m)]
    BY <2>2 DEF ToldSets
  <2> QED BY <1>1, <2>3, <2>4 DEF LocalSets, PostSets
<1>7. OneList'
  <2>1. Exact(Elements(OnRing), Elements(shared), PostSets, LocalSets,
              [CurSets EXCEPT ![c] = Elements(m)], [ToldSets EXCEPT ![c] = @ \ Elements(m)])
    BY <1>0, <1>4, MoveAccept DEF OneList
  <2> QED BY <1>1, <1>5, <1>6, <2>1 DEF OneList
<1>8. NoDoubles'
  BY <1>0, <1>1, <1>2, <1>3, <1>5 DEF NoDoubles
<1>9. RingTrue'
  BY <1>0, <1>1, <1>3, <1>5 DEF RingTrue
<1>10. Filled' = Filled
  <2>1. \A d \in Cpus : /\ (CurSets')[d] = IF d = c THEN Elements(m) ELSE CurSets[d]
                        /\ (ToldSets')[d] = IF d = c THEN ToldSets[c] \ Elements(m) ELSE ToldSets[d]
    BY <1>6 DEF ToldSets, CurSets
  <2>2. \A x : x \in Filled' <=> x \in Filled
    BY <1>4, <2>1, FilledIs
  <2> QED BY <2>2
<1> QED BY <1>1, <1>5, <1>7, <1>8, <1>9, <1>10, SkbsSame DEF PlaceInv

LEMMA FillPlaces ==
  ASSUME IInv, IInv', PlaceInv, NEW c \in Cpus, NEW ok \in BOOLEAN, RcvBuffer(c, ok)
  PROVE  PlaceInv' /\ PoolStep
<1> DEFINE b == Head(cur[c])
<1>0. /\ TypeOK /\ RingTrue /\ NoDoubles /\ OneList /\ PostedHasSkb /\ AllocFailuresReal
  BY DEF IInv, PlaceInv
<1>1. /\ pc[c] = "rcv" /\ cur[c] # <<>>
      /\ hasSkb' = [hasSkb EXCEPT ![b] = ok]
      /\ allocFailures' = IF ok THEN allocFailures ELSE allocFailures + 1
      /\ local' = [local EXCEPT ![c] = Append(@, b)]
      /\ cur' = [cur EXCEPT ![c] = Tail(@)]
      /\ UNCHANGED <<desc, cardCons, published, messages, producer, shared, pc, toPost, prod, count>>
  BY DEF RcvBuffer, FreeBuffer, cardVars, sharedVars, postVars
<1>2. /\ b \in Elements(cur[c]) /\ b \in Buffers
      /\ Tail(cur[c]) \in Seq(Buffers) /\ Inj(Tail(cur[c]))
      /\ Elements(Tail(cur[c])) = Elements(cur[c]) \ {b}
  <2>1. cur[c] \in Seq(Buffers) /\ Inj(cur[c])
    BY <1>0 DEF TypeOK, NoDoubles
  <2> QED BY <1>1, <2>1, TailHolds
<1>3. \A d \in Cpus : /\ local'[d] = IF d = c THEN Append(local[c], b) ELSE local[d]
                      /\ cur'[d] = IF d = c THEN Tail(cur[c]) ELSE cur[d]
  BY <1>0, <1>1 DEF TypeOK
<1> HIDE DEF b
<1>4. CurSets[c] = Elements(cur[c]) /\ b \in CurSets[c]
  BY <1>2 DEF CurSets
<1>5. /\ Elements(Append(local[c], b)) = Elements(local[c]) \cup {b}
      /\ Inj(Append(local[c], b))
  <2>1. local[c] \in Seq(Buffers) /\ Inj(local[c])
    BY <1>0 DEF TypeOK, NoDoubles
  <2>2. b \notin Elements(local[c])
    BY <1>0, <1>4 DEF OneList, Exact, LocalSets
  <2> QED BY <1>2, <2>1, <2>2, AppendHolds
<1>6. OnRing' = OnRing /\ Unposted' = Unposted
  BY <1>1, RingSame
<1>7. /\ LocalSets' = [LocalSets EXCEPT ![c] = @ \cup {b}]
      /\ CurSets' = [CurSets EXCEPT ![c] = @ \ {b}]
      /\ ToldSets' = ToldSets /\ PostSets' = PostSets
  <2>1. \A d \in Cpus : Elements(local'[d]) = IF d = c THEN LocalSets[c] \cup {b} ELSE LocalSets[d]
    BY <1>3, <1>5 DEF LocalSets
  <2>2. \A d \in Cpus : Elements(cur'[d]) = IF d = c THEN CurSets[c] \ {b} ELSE CurSets[d]
    BY <1>2, <1>3 DEF CurSets
  <2>3. LocalSets' = [LocalSets EXCEPT ![c] = @ \cup {b}]
    BY <2>1 DEF LocalSets
  <2>4. CurSets' = [CurSets EXCEPT ![c] = @ \ {b}]
    BY <2>2 DEF CurSets
  <2> QED BY <1>1, <2>3, <2>4 DEF ToldSets, PostSets
<1>8. OneList'
  <2>1. Exact(Elements(OnRing), Elements(shared), PostSets, [LocalSets EXCEPT ![c] = @ \cup {b}],
              [CurSets EXCEPT ![c] = @ \ {b}], ToldSets)
    BY <1>0, <1>4, MoveFree DEF OneList
  <2> QED BY <1>1, <1>6, <1>7, <2>1 DEF OneList
<1>9. NoDoubles'
  BY <1>0, <1>1, <1>2, <1>3, <1>5, <1>6 DEF NoDoubles
<1>10. RingTrue'
  BY <1>0, <1>1, <1>3, <1>6 DEF RingTrue
<1>11. b \in Filled /\ Filled' = Filled \ {b}
  <2>1. \A d \in Cpus : /\ (CurSets')[d] = IF d = c THEN CurSets[c] \ {b} ELSE CurSets[d]
                        /\ (ToldSets')[d] = ToldSets[d]
    BY <1>7 DEF CurSets
  <2>2. \A d \in Cpus : b \notin ToldSets[d] /\ (b \in CurSets[d] => d = c)
    BY <1>0, <1>4 DEF OneList, Exact
  <2>3. \A x : x \in Filled' <=> x \in Filled /\ x # b
    BY <2>1, <2>2, FilledIs
  <2> QED BY <1>4, <2>3, FilledIs
<1>12. b \notin Elements(OnRing) /\ PoolStep
  BY <1>0, <1>2, <1>6, <1>8, <1>11, ReleaseIs
<1>13. \A x \in Buffers : hasSkb'[x] = IF x = b THEN ok ELSE hasSkb[x]
  BY <1>0, <1>1 DEF TypeOK
<1>14. PostedHasSkb'
  <2>1. Filled \subseteq Buffers /\ Elements(OnRing) \subseteq Buffers
    BY <1>0, FilledIs DEF OneList, Exact
  <2> QED BY <1>0, <1>6, <1>11, <1>12, <1>13, <2>1 DEF PostedHasSkb
<1>15. AllocFailuresReal'
  <2> DEFINE S == {x \in Buffers : ~hasSkb[x]}
             Z == {x \in Buffers : ~hasSkb'[x]}
  <2>1. /\ IsFiniteSet(S) /\ Cardinality(S) \in Nat /\ allocFailures <= Cardinality(S)
        /\ allocFailures \in Nat
    BY <1>0, ShortageFinite DEF AllocFailuresReal, TypeOK
  <2>2. b \notin S
    BY <1>0, <1>11 DEF PostedHasSkb
  <2>3. Z = IF ok THEN S ELSE S \cup {b}
    BY <1>2, <1>13, <2>2
  <2>4. Cardinality(S \cup {b}) = Cardinality(S) + 1
    <3> HIDE DEF S
    <3> QED BY <2>1, <2>2, FS_AddElement
  <2> HIDE DEF S, Z
  <2>5. allocFailures' <= Cardinality(Z)
    BY <1>1, <2>1, <2>3, <2>4
  <2> QED BY <2>5 DEF AllocFailuresReal, Z
<1> QED BY <1>8, <1>9, <1>10, <1>12, <1>14, <1>15 DEF PlaceInv

\* The front and the rest of a list without doubles.
LEMMA SplitHolds ==
  ASSUME NEW s \in Seq(Buffers), Inj(s), NEW n \in 0 .. Len(s)
  PROVE  LET front == SubSeq(s, 1, n)
             rest == SubSeq(s, n + 1, Len(s))
         IN  /\ front \in Seq(Buffers) /\ Len(front) = n /\ Inj(front)
             /\ \A k \in 1 .. n : front[k] = s[k]
             /\ Elements(front) = {s[k] : k \in 1 .. n} /\ Elements(front) \subseteq Elements(s)
             /\ rest \in Seq(Buffers) /\ Len(rest) = Len(s) - n /\ Inj(rest)
             /\ \A k \in 1 .. Len(s) - n : rest[k] = s[n + k]
             /\ Elements(rest) = Elements(s) \ Elements(front)
<1> DEFINE front == SubSeq(s, 1, n)
           rest == SubSeq(s, n + 1, Len(s))
<1>1. Len(s) \in Nat /\ DOMAIN s = 1 .. Len(s) /\ n \in Nat /\ n <= Len(s)
  OBVIOUS
<1>2. /\ front \in Seq(Buffers) /\ Len(front) = n /\ DOMAIN front = 1 .. n
      /\ \A k \in 1 .. n : front[k] = s[k]
  BY <1>1
<1>3. /\ rest \in Seq(Buffers) /\ Len(rest) = Len(s) - n /\ DOMAIN rest = 1 .. Len(s) - n
      /\ \A k \in 1 .. Len(s) - n : rest[k] = s[n + k]
  <2> DEFINE N == Len(s)
  <2>1. N \in Nat /\ n + 1 \in 1 .. N + 1 /\ N - n \in Nat
    BY <1>1
  <2>0. N \in Nat /\ n \in Nat /\ n <= N
    BY <1>1
  <2>2. N - (n + 1) + 1 = N - n /\ (~(n + 1 <= N) => N - n = 0)
    <3> HIDE DEF N
    <3> QED BY <2>0
  <2>3. \A i \in (n + 1) .. N : s[i] \in Buffers
    BY <1>1
  <2>4. /\ rest \in Seq(Buffers) /\ Len(rest) = IF n + 1 <= N THEN N - (n + 1) + 1 ELSE 0
        /\ \A k \in 1 .. N - (n + 1) + 1 : rest[k] = s[(n + 1) + k - 1]
    <3>1. n + 1 \in Int /\ N \in Int
      BY <2>1
    <3> HIDE DEF N
    <3> QED BY <2>3, <3>1, SubSeqProperties DEF N
  <2> HIDE DEF rest, N
  <2>5. rest \in Seq(Buffers) /\ Len(rest) = N - n /\ DOMAIN rest = 1 .. N - n
    BY <2>2, <2>4
  <2>6. ASSUME NEW k \in 1 .. N - n PROVE rest[k] = s[n + k]
    <3>1. (n + 1) + k - 1 = n + k
      BY <1>1, <2>1
    <3> QED BY <2>2, <2>4, <3>1
  <2> QED BY <2>5, <2>6 DEF N
<1>4. /\ \A k \in 1 .. n : k \in DOMAIN s
      /\ \A k \in 1 .. Len(s) - n : n + k \in DOMAIN s /\ n + k \notin 1 .. n
      /\ \A k \in DOMAIN s : k \in 1 .. n \/ (k - n \in 1 .. Len(s) - n /\ n + (k - n) = k)
  BY <1>1
<1> HIDE DEF front, rest
<1>5. Inj(front) /\ Elements(front) = {s[k] : k \in 1 .. n} /\ Elements(front) \subseteq Elements(s)
  BY <1>2, <1>4 DEF Inj, Elements
<1>6. Inj(rest)
  <2> SUFFICES ASSUME NEW i \in 1 .. Len(s) - n, NEW j \in 1 .. Len(s) - n, rest[i] = rest[j]
               PROVE  i = j
    BY <1>3 DEF Inj
  <2>1. n + i = n + j
    BY <1>3, <1>4 DEF Inj
  <2> QED BY <1>1, <2>1
<1>7. ASSUME NEW x PROVE x \in Elements(rest) <=> x \in Elements(s) /\ x \notin Elements(front)
  <2>1. ASSUME x \in Elements(rest) PROVE x \in Elements(s) /\ x \notin Elements(front)
    <3>1. PICK k \in 1 .. Len(s) - n : s[n + k] = x
      BY <1>3, <2>1, ElementWhere
    <3>2. \A l \in 1 .. n : s[l] # x
      BY <1>4, <3>1 DEF Inj
    <3> QED BY <1>2, <1>4, <3>1, <3>2, ElementWhere
  <2>2. ASSUME x \in Elements(s), x \notin Elements(front) PROVE x \in Elements(rest)
    <3>1. PICK k \in DOMAIN s : s[k] = x
      BY <2>2, ElementWhere
    <3>2. k \notin 1 .. n
      BY <1>2, <2>2, <3>1, ElementWhere
    <3>3. rest[k - n] = x /\ k - n \in DOMAIN rest
      BY <1>3, <1>4, <3>1, <3>2
    <3> QED BY <3>3, ElementWhere
  <2> QED BY <2>1, <2>2
<1> QED BY <1>2, <1>3, <1>5, <1>6, <1>7 DEF front, rest

LEMMA ReceivePlaces ==
  ASSUME IInv, IInv', PlaceInv, NEW c \in Cpus, NEW n \in 1 .. MaxChain, CardReceive(c, n)
  PROVE  PlaceInv' /\ PoolStep
<1> DEFINE m == [k \in 1 .. n |-> desc[Advance(cardCons, k - 1)]]
           front == SubSeq(OnRing, 1, n)
           rest == SubSeq(OnRing, n + 1, Len(OnRing))
<1>0. /\ TypeOK /\ TypeOK' /\ RingTrue /\ NoDoubles /\ OneList /\ PostedHasSkb
      /\ AllocFailuresReal /\ MaxRxDescCount \in Nat \ {0} /\ MaxChain \in Nat /\ n \in Nat
  BY RingAssumption DEF IInv, PlaceInv
<1>1. /\ n <= published /\ messages' = [messages EXCEPT ![c] = Append(@, m)]
      /\ cardCons' = Advance(cardCons, n) /\ published' = published - n
      /\ UNCHANGED <<desc, producer, hasSkb, allocFailures, shared, local, pc, cur,
                     toPost, prod, count, posting>>
  BY DEF CardReceive, sharedVars, localVars, postVars
<1>2. Unposted' = Unposted /\ Unposted \in Nat
  BY <1>0, <1>1, UnpostedType DEF Unposted, IInv
<1>3. /\ published \in Nat /\ cardCons \in Buffers /\ cardCons' \in Buffers
      /\ published + Unposted <= MaxRxDescCount
  BY <1>0 DEF TypeOK, RingTrue
<1>4. /\ OnRing \in Seq(Buffers) /\ Len(OnRing) = published + Unposted /\ Inj(OnRing)
      /\ n \in 0 .. Len(OnRing)
      /\ OnRing = [k \in 1 .. published + Unposted |-> desc[Advance(cardCons, k - 1)]]
  BY <1>0, <1>1, <1>2, <1>3, RingTyped, RingIs DEF NoDoubles
<1>5. /\ front \in Seq(Buffers) /\ Len(front) = n /\ Inj(front)
      /\ \A k \in 1 .. n : front[k] = OnRing[k]
      /\ Elements(front) = {OnRing[k] : k \in 1 .. n} /\ Elements(front) \subseteq Elements(OnRing)
      /\ rest \in Seq(Buffers) /\ Len(rest) = Len(OnRing) - n /\ Inj(rest)
      /\ \A k \in 1 .. Len(OnRing) - n : rest[k] = OnRing[n + k]
      /\ Elements(rest) = Elements(OnRing) \ Elements(front)
  BY <1>4, SplitHolds
<1> HIDE DEF front, rest
<1>6. m = front
  <2>1. \A k \in 1 .. n : m[k] = front[k]
    <3>1. \A k \in 1 .. n : k \in 1 .. published + Unposted
      BY <1>0, <1>1, <1>2, <1>3
    <3> QED BY <1>4, <1>5, <3>1
  <2>2. front = [k \in 1 .. n |-> front[k]]
    BY <1>5
  <2> QED BY <2>1, <2>2
<1>7. OnRing' = rest
  <2> DEFINE N == published + Unposted - n
  <2>1. N \in Nat /\ published' + Unposted' = N /\ Len(OnRing) - n = N
    BY <1>0, <1>1, <1>2, <1>3, <1>4
  <2>2. OnRing' = [k \in 1 .. N |-> desc[Advance(cardCons', k - 1)]]
    BY <1>1, <2>1, RingIs
  <2>3. ASSUME NEW k \in 1 .. N PROVE desc[Advance(cardCons', k - 1)] = rest[k]
    <3>1. /\ k - 1 \in Nat /\ n + (k - 1) <= MaxRxDescCount /\ n + (k - 1) = (n + k) - 1
          /\ n + k \in 1 .. published + Unposted
      BY <1>0, <1>2, <1>3
    <3>2. Advance(cardCons', k - 1) = Advance(cardCons, (n + k) - 1)
      BY <1>0, <1>1, <1>3, <3>1, AdvanceTwice
    <3>3. OnRing[n + k] = desc[Advance(cardCons, (n + k) - 1)]
      BY <1>4, <3>1
    <3> QED BY <1>5, <2>1, <3>2, <3>3
  <2> HIDE DEF N
  <2>4. rest = [k \in 1 .. N |-> rest[k]]
    BY <1>5, <2>1
  <2> QED BY <2>2, <2>3, <2>4
<1> HIDE DEF m
<1>8. \A d \in Cpus : messages'[d] = IF d = c THEN Append(messages[c], m) ELSE messages[d]
  BY <1>0, <1>1 DEF TypeOK
<1>9. /\ Elements(m) \in SUBSET Elements(OnRing)
      /\ Elements(OnRing') = Elements(OnRing) \ Elements(m)
  BY <1>5, <1>6, <1>7
<1>10. /\ Told(Append(messages[c], m)) = Told(messages[c]) \cup Elements(m)
       /\ Apart(Append(messages[c], m))
  <2>1. messages[c] \in Seq(Seq(Buffers)) /\ Apart(messages[c])
    BY <1>0 DEF TypeOK, NoDoubles
  <2>2. Elements(m) \cap Told(messages[c]) = {}
    BY <1>0, <1>9 DEF OneList, Exact, ToldSets
  <2> QED BY <1>5, <1>6, <2>1, <2>2, AddMessage
<1>11. /\ ToldSets' = [ToldSets EXCEPT ![c] = @ \cup Elements(m)]
       /\ CurSets' = CurSets /\ LocalSets' = LocalSets /\ PostSets' = PostSets
  <2>1. \A d \in Cpus :
          Told(messages'[d]) = IF d = c THEN ToldSets[c] \cup Elements(m) ELSE ToldSets[d]
    BY <1>8, <1>10 DEF ToldSets
  <2>2. ToldSets' = [ToldSets EXCEPT ![c] = @ \cup Elements(m)]
    BY <2>1 DEF ToldSets
  <2> QED BY <1>1, <2>2 DEF CurSets, LocalSets, PostSets
<1>12. OneList'
  <2>1. Exact(Elements(OnRing) \ Elements(m), Elements(shared), PostSets, LocalSets, CurSets,
              [ToldSets EXCEPT ![c] = @ \cup Elements(m)])
    BY <1>0, <1>9, MoveReceive DEF OneList
  <2> QED BY <1>1, <1>9, <1>11, <2>1 DEF OneList
<1>13. NoDoubles'
  BY <1>0, <1>1, <1>5, <1>7, <1>8, <1>10 DEF NoDoubles
<1>14. RingTrue'
  <2>1. published' + Unposted' <= MaxRxDescCount
    BY <1>0, <1>1, <1>2, <1>3
  <2>2. ASSUME NEW k \in Nat, k >= published, k <= MaxRxDescCount
        PROVE  Advance(cardCons', k - n) = Advance(cardCons, k)
    <3>1. k - n \in Nat /\ n + (k - n) = k
      BY <1>0, <1>1, <1>3, <2>2
    <3> QED BY <1>0, <1>1, <1>3, <2>2, <3>1, AdvanceTwice
  <2>3. producer' = Advance(cardCons', published')
    <3>1. published <= MaxRxDescCount
      BY <1>0, <1>2, <1>3
    <3> QED BY <1>0, <1>1, <1>3, <2>2, <3>1 DEF RingTrue
  <2>4. ASSUME NEW t \in Threads, pc'[t] \in {"post", "publish"}
        PROVE  prod'[t] = Advance(cardCons', published' + count'[t])
    <3>1. prod[t] = Advance(cardCons, published + count[t]) /\ count[t] \in Nat
      BY <1>0, <1>1, <2>4 DEF RingTrue, TypeOK
    <3>2. Unposted = count[t]
      BY <1>1, <2>4, UnpostedIs DEF IInv, PostingPcs
    <3>3. published' + count'[t] = (published + count[t]) - n
      BY <1>0, <1>1, <1>3, <3>1
    <3>4. /\ published + count[t] \in Nat /\ published + count[t] >= published
          /\ published + count[t] <= MaxRxDescCount
      BY <1>0, <1>3, <3>1, <3>2
    <3>5. Advance(cardCons', (published + count[t]) - n) = Advance(cardCons, published + count[t])
      BY <2>2, <3>4
    <3> QED BY <1>1, <3>1, <3>3, <3>5
  <2> QED BY <1>0, <1>1, <2>1, <2>3, <2>4 DEF RingTrue
<1>15. Filled' = Filled \cup Elements(m)
  <2>1. \A d \in Cpus : /\ (CurSets')[d] = CurSets[d]
                        /\ (ToldSets')[d] = IF d = c THEN ToldSets[c] \cup Elements(m)
                                                     ELSE ToldSets[d]
    BY <1>11 DEF ToldSets
  <2>2. \A x : x \in Filled' <=> x \in Filled \/ x \in Elements(m)
    BY <2>1, FilledIs
  <2> QED BY <2>2
<1>16. PostedHasSkb' /\ AllocFailuresReal'
  BY <1>0, <1>1, <1>9, <1>15 DEF PostedHasSkb, AllocFailuresReal
<1>17. PoolStep
  <2>1. Free' = Free
    BY <1>0, <1>9, <1>12, <1>15, FreeRest
  <2>2. n <= Len(OnRing)
    BY <1>4
  <2>3. Filled' = Filled \cup {OnRing[k] : k \in 1 .. n}
    BY <1>5, <1>6, <1>15
  <2>4. OnRing' = SubSeq(OnRing, n + 1, Len(OnRing))
    BY <1>7 DEF rest
  <2>5. Pool!Fill(n)
    BY <2>1, <2>2, <2>3, <2>4 DEF Pool!Fill
  <2> QED BY <2>5 DEF PoolStep, Pool!Next
<1> QED BY <1>12, <1>13, <1>14, <1>16, <1>17 DEF PlaceInv

LEMMA RestPlaces ==
  ASSUME IInv, IInv', PlaceInv, UNCHANGED vars
  PROVE  PlaceInv' /\ PoolStep
<1>0. RingTrue /\ NoDoubles /\ OneList
  BY DEF PlaceInv
<1>1. /\ UNCHANGED <<desc, cardCons, published, messages, producer, hasSkb, allocFailures, shared,
                     local, pc, cur, toPost, prod, count>>
  BY DEF vars, cardVars, sharedVars, localVars, postVars
<1>2. OnRing' = OnRing /\ Unposted' = Unposted
  BY <1>1, RingSame
<1>3. OneList'
  <2>1. PostSets' = PostSets /\ LocalSets' = LocalSets /\ CurSets' = CurSets
        /\ ToldSets' = ToldSets
    BY <1>1 DEF PostSets, LocalSets, CurSets, ToldSets
  <2> QED BY <1>0, <1>1, <1>2, <2>1 DEF OneList
<1>4. NoDoubles'
  BY <1>0, <1>1, <1>2 DEF NoDoubles
<1>5. RingTrue'
  BY <1>0, <1>1, <1>2 DEF RingTrue
<1>6. Filled' = Filled
  BY <1>1 DEF Filled
<1> QED BY <1>1, <1>2, <1>3, <1>4, <1>5, <1>6, SkbsSame DEF PlaceInv

LEMMA PostPlaces ==
  ASSUME IInv, IInv', PlaceInv, NEW t \in Threads, Post(t)
  PROVE  PlaceInv' /\ PoolStep
BY PostOnePlaces, PutBackPlaces, PublishPlaces, DonePlaces DEF Post

\* A step of the driver or of the card is a step of the pool, or none of its business, and
\* keeps every buffer in one place.
LEMMA PlacesStep == IInv /\ PlaceInv /\ [Next]_vars => PlaceInv' /\ PoolStep
<1> SUFFICES ASSUME IInv, PlaceInv, [Next]_vars PROVE PlaceInv' /\ PoolStep
  OBVIOUS
<1>1. IInv'
  BY Inductive
<1>2. Opener \in Threads /\ \A c \in Cpus : c \in Threads
  BY ThreadsDistinct
<1>3. ASSUME NEW c \in Cpus, PollStart(c) PROVE PlaceInv' /\ PoolStep
  <2>1. /\ pc[c] = "idle" /\ pc' = [pc EXCEPT ![c] = "rcv"] /\ cur[c] = <<>>
        /\ UNCHANGED <<cardVars, producer, hasSkb, allocFailures, sharedVars, localVars, cur, postVars>>
    BY <1>2, <1>3 DEF PollStart, GoTo, PlaceInv, RingTrue
  <2> QED BY <1>1, <1>2, <2>1, GoesPlaces DEF PostingPcs
<1>4. ASSUME NEW c \in Cpus, RcvEnd(c) PROVE PlaceInv' /\ PoolStep
  <2>1. /\ pc[c] = "rcv" /\ pc' = [pc EXCEPT ![c] = "free"] /\ cur[c] = <<>>
        /\ UNCHANGED <<cardVars, producer, hasSkb, allocFailures, sharedVars, localVars, cur, postVars>>
    BY <1>4 DEF RcvEnd, GoTo
  <2> QED BY <1>1, <1>2, <2>1, GoesPlaces DEF PostingPcs
<1>5. ASSUME NEW c \in Cpus, PostSkip(c) PROVE PlaceInv' /\ PoolStep
  <2>1. /\ pc[c] = "free" /\ pc' = [pc EXCEPT ![c] = "idle"] /\ cur[c] = <<>>
        /\ UNCHANGED <<cardVars, producer, hasSkb, allocFailures, sharedVars, localVars, cur, postVars>>
    BY <1>2, <1>5 DEF PostSkip, GoTo, PlaceInv, RingTrue
  <2> QED BY <1>1, <1>2, <2>1, GoesPlaces DEF PostingPcs
<1>6. ASSUME NEW c \in Cpus, RcvPacket(c) \/ RcvChained(c) PROVE PlaceInv' /\ PoolStep
  <2>1. messages[c] # <<>> /\ Accept(c)
    BY <1>6 DEF RcvPacket, RcvChained
  <2> QED BY <1>1, <2>1, AcceptPlaces
<1>7. ASSUME NEW c \in Cpus, PollGoesOn(c) PROVE PlaceInv' /\ PoolStep
  <2>1. CASE RcvRecycle(c)
    BY <1>1, <2>1, RecyclePlaces
  <2>2. CASE \E ok \in BOOLEAN : RcvBuffer(c, ok)
    BY <1>1, <2>2, FillPlaces
  <2>3. CASE PostSplice(c)
    BY <1>1, <2>3, SplicePlaces
  <2>4. CASE Post(c)
    BY <1>1, <1>2, <2>4, PostPlaces
  <2> QED BY <1>4, <1>5, <1>6, <1>7, <2>1, <2>2, <2>3, <2>4 DEF PollGoesOn
<1>8. CASE Open
  BY <1>1, <1>8, OpenPlaces
<1>9. CASE Post(Opener)
  BY <1>1, <1>2, <1>9, PostPlaces
<1>10. CASE Detach
  BY <1>1, <1>10, DetachPlaces
<1>11. ASSUME NEW c \in Cpus, NEW n \in 1 .. MaxChain, CardReceive(c, n)
       PROVE  PlaceInv' /\ PoolStep
  BY <1>1, <1>11, ReceivePlaces
<1>12. CASE UNCHANGED vars
  BY <1>1, <1>12, RestPlaces
<1> QED BY <1>3, <1>7, <1>8, <1>9, <1>10, <1>11, <1>12 DEF Next

-----------------------------------------------------------------------------
(* The properties.                                                         *)

LEMMA PositionsAre ==
  ASSUME NEW b, NEW s
  PROVE  /\ b \notin Elements(s) => Positions(b, s) = {}
         /\ b \in Elements(s) /\ Inj(s) => \E k : Positions(b, s) = {k}
<1>1. ASSUME b \notin Elements(s) PROVE Positions(b, s) = {}
  BY <1>1, ElementWhere DEF Positions
<1>2. ASSUME b \in Elements(s), Inj(s) PROVE \E k : Positions(b, s) = {k}
  <2>1. PICK k \in DOMAIN s : s[k] = b
    BY <1>2, ElementWhere
  <2>2. \A l : l \in Positions(b, s) <=> l = k
    BY <1>2, <2>1 DEF Positions, Inj
  <2> QED BY <2>2
<1> QED BY <1>1, <1>2

LEMMA PlacesAre ==
  ASSUME NEW b
  PROVE  \A x : x \in Places(b) <=>
           \/ \E k \in Positions(b, OnRing) : x = <<"ring", k>>
           \/ \E k \in Positions(b, shared) : x = <<"shared", k>>
           \/ \E t \in Threads : \E k \in Positions(b, toPost[t]) : x = <<"toPost", t, k>>
           \/ \E c \in Cpus : \/ \E k \in Positions(b, local[c]) : x = <<"local", c, k>>
                              \/ \E k \in Positions(b, cur[c]) : x = <<"cur", c, k>>
                              \/ \E m \in DOMAIN messages[c] :
                                   \E k \in Positions(b, messages[c][m]) :
                                     x = <<"message", c, m, k>>
BY DEF Places

\* A buffer of one of the lists has one place.
LEMMA OnePlace ==
  ASSUME OneList, NoDoubles, NEW b \in Buffers
  PROVE  \E x : Places(b) = {x}
<1> DEFINE One == \E x : \A y : y \in Places(b) <=> y = x
<1>0. SUFFICES One
  <2>1. ASSUME NEW x, \A y : y \in Places(b) <=> y = x PROVE Places(b) = {x}
    BY <2>1
  <2> QED BY <1>0, <2>1
<1>1. /\ \A t \in Threads : PostSets[t] = Elements(toPost[t])
      /\ \A c \in Cpus : /\ LocalSets[c] = Elements(local[c]) /\ CurSets[c] = Elements(cur[c])
                         /\ ToldSets[c] = Told(messages[c])
  BY DEF PostSets, LocalSets, CurSets, ToldSets
<1>2. \A c \in Cpus : b \notin ToldSets[c] =>
        \A m \in DOMAIN messages[c] : Positions(b, messages[c][m]) = {}
  BY <1>1, ToldWhere, PositionsAre
<1>3. /\ b \notin Elements(OnRing) => Positions(b, OnRing) = {}
      /\ b \notin Elements(shared) => Positions(b, shared) = {}
      /\ \A t \in Threads : b \notin PostSets[t] => Positions(b, toPost[t]) = {}
      /\ \A c \in Cpus : /\ b \notin LocalSets[c] => Positions(b, local[c]) = {}
                         /\ b \notin CurSets[c] => Positions(b, cur[c]) = {}
  BY <1>1, PositionsAre
<1>4. CASE b \in Elements(OnRing)
  <2>1. PICK k : Positions(b, OnRing) = {k}
    BY <1>4, PositionsAre DEF NoDoubles
  <2>2. /\ b \notin Elements(shared) /\ \A t \in Threads : b \notin PostSets[t]
        /\ \A c \in Cpus : b \notin LocalSets[c] /\ b \notin CurSets[c] /\ b \notin ToldSets[c]
    BY <1>4 DEF OneList, Exact
  <2> DEFINE x == <<"ring", k>>
  <2>3. \A y : y \in Places(b) <=> y = x
    BY <1>2, <1>3, <2>1, <2>2, PlacesAre, SMTT(30)
  <2> HIDE DEF x
  <2> QED BY <2>3
<1>5. CASE b \in Elements(shared)
  <2>1. PICK k : Positions(b, shared) = {k}
    BY <1>5, PositionsAre DEF NoDoubles
  <2>2. /\ b \notin Elements(OnRing) /\ \A t \in Threads : b \notin PostSets[t]
        /\ \A c \in Cpus : b \notin LocalSets[c] /\ b \notin CurSets[c] /\ b \notin ToldSets[c]
    BY <1>5 DEF OneList, Exact
  <2> DEFINE x == <<"shared", k>>
  <2>3. \A y : y \in Places(b) <=> y = x
    BY <1>2, <1>3, <2>1, <2>2, PlacesAre, SMTT(30)
  <2> HIDE DEF x
  <2> QED BY <2>3
<1>6. ASSUME NEW t \in Threads, b \in PostSets[t] PROVE One
  <2>1. PICK k : Positions(b, toPost[t]) = {k}
    BY <1>1, <1>6, PositionsAre DEF NoDoubles
  <2>2. /\ b \notin Elements(OnRing) /\ b \notin Elements(shared)
        /\ \A u \in Threads : b \in PostSets[u] => u = t
        /\ \A c \in Cpus : b \notin LocalSets[c] /\ b \notin CurSets[c] /\ b \notin ToldSets[c]
    BY <1>6 DEF OneList, Exact
  <2> DEFINE x == <<"toPost", t, k>>
  <2>3. \A y : y \in Places(b) <=> y = x
    BY <1>2, <1>3, <2>1, <2>2, PlacesAre, SMTT(30)
  <2> HIDE DEF x
  <2> QED BY <2>3
<1>7. ASSUME NEW c \in Cpus, b \in LocalSets[c] PROVE One
  <2>0. b \in Elements(local[c]) /\ Inj(local[c])
    BY <1>1, <1>7 DEF NoDoubles
  <2>1. PICK k : Positions(b, local[c]) = {k}
    BY <2>0, PositionsAre
  <2>2. /\ b \notin Elements(OnRing) /\ b \notin Elements(shared)
        /\ \A t \in Threads : b \notin PostSets[t]
        /\ \A d \in Cpus : /\ b \in LocalSets[d] => d = c
                           /\ b \notin CurSets[d] /\ b \notin ToldSets[d]
    BY <1>7 DEF OneList, Exact
  <2> DEFINE x == <<"local", c, k>>
  <2>3. \A y : y \in Places(b) <=> y = x
    BY <1>2, <1>3, <2>1, <2>2, PlacesAre, SMTT(30)
  <2> HIDE DEF x
  <2> QED BY <2>3
<1>8. ASSUME NEW c \in Cpus, b \in CurSets[c] PROVE One
  <2>0. b \in Elements(cur[c]) /\ Inj(cur[c])
    BY <1>1, <1>8 DEF NoDoubles
  <2>1. PICK k : Positions(b, cur[c]) = {k}
    BY <2>0, PositionsAre
  <2>2. /\ b \notin Elements(OnRing) /\ b \notin Elements(shared)
        /\ \A t \in Threads : b \notin PostSets[t]
        /\ \A d \in Cpus : /\ b \in CurSets[d] => d = c
                           /\ b \notin LocalSets[d] /\ b \notin ToldSets[d]
    BY <1>8 DEF OneList, Exact
  <2> DEFINE x == <<"cur", c, k>>
  <2>3. \A y : y \in Places(b) <=> y = x
    BY <1>2, <1>3, <2>1, <2>2, PlacesAre, SMTT(30)
  <2> HIDE DEF x
  <2> QED BY <2>3
<1>9. ASSUME NEW c \in Cpus, b \in ToldSets[c] PROVE One
  <2>1. PICK m \in DOMAIN messages[c] : b \in Elements(messages[c][m])
    BY <1>1, <1>9, ToldWhere
  <2>2. PICK k \in DOMAIN messages[c][m] : messages[c][m][k] = b
    BY <2>1, ElementWhere
  <2>3. \A n \in DOMAIN messages[c] : \A l :
          l \in Positions(b, messages[c][n]) <=> n = m /\ l = k
    BY <2>2 DEF NoDoubles, Apart, Positions
  <2>4. /\ b \notin Elements(OnRing) /\ b \notin Elements(shared)
        /\ \A t \in Threads : b \notin PostSets[t]
        /\ \A d \in Cpus : /\ b \in ToldSets[d] => d = c
                           /\ b \notin LocalSets[d] /\ b \notin CurSets[d]
    BY <1>9 DEF OneList, Exact
  <2> DEFINE x == <<"message", c, m, k>>
  <2>5. \A y : y \in Places(b) <=> y = x
    <3>1. /\ Positions(b, OnRing) = {} /\ Positions(b, shared) = {}
          /\ \A t \in Threads : Positions(b, toPost[t]) = {}
          /\ \A d \in Cpus : /\ Positions(b, local[d]) = {} /\ Positions(b, cur[d]) = {}
                             /\ d # c => \A n \in DOMAIN messages[d] :
                                           Positions(b, messages[d][n]) = {}
      BY <1>2, <1>3, <2>4
    <3>2. \A y : y \in Places(b) <=>
            \E n \in DOMAIN messages[c] : \E l \in Positions(b, messages[c][n]) :
              y = <<"message", c, n, l>>
      <4>1. \A y : y \in Places(b) <=>
              \E d \in Cpus : \E n \in DOMAIN messages[d] : \E l \in Positions(b, messages[d][n]) :
                y = <<"message", d, n, l>>
        <5> DEFINE Said(d, y) == \E n \in DOMAIN messages[d] :
                     \E l \in Positions(b, messages[d][n]) : y = <<"message", d, n, l>>
        <5>1. \A y : y \in Places(b) <=>
                 \/ \E p \in Positions(b, OnRing) : y = <<"ring", p>>
                 \/ \E p \in Positions(b, shared) : y = <<"shared", p>>
                 \/ \E t \in Threads : \E p \in Positions(b, toPost[t]) : y = <<"toPost", t, p>>
                 \/ \E d \in Cpus : \/ \E p \in Positions(b, local[d]) : y = <<"local", d, p>>
                                    \/ \E p \in Positions(b, cur[d]) : y = <<"cur", d, p>>
                                    \/ Said(d, y)
          BY PlacesAre
        <5> HIDE DEF Said
        <5>2. \A y : y \in Places(b) <=> \E d \in Cpus : Said(d, y)
          BY <3>1, <5>1
        <5> QED BY <5>2 DEF Said
      <4>2. \A d \in Cpus : \A n \in DOMAIN messages[d] : \A l \in Positions(b, messages[d][n]) : d = c
        BY <3>1
      <4> QED BY <4>1, <4>2
    <3>3. \A y : y = x <=>
            \E n \in DOMAIN messages[c] : \E l \in Positions(b, messages[c][n]) :
              y = <<"message", c, n, l>>
      <4>1. m \in DOMAIN messages[c] /\ k \in Positions(b, messages[c][m])
        BY <2>3
      <4>2. \A n \in DOMAIN messages[c] : \A l \in Positions(b, messages[c][n]) : n = m /\ l = k
        BY <2>3
      <4> QED BY <4>1, <4>2, Zenon
    <3> QED BY <3>2, <3>3
  <2> HIDE DEF x
  <2> QED BY <2>5
<1> QED BY <1>4, <1>5, <1>6, <1>7, <1>8, <1>9 DEF OneList, Exact

LEMMA Placed == Spec => [](IInv /\ PlaceInv)
<1>1. IInv /\ PlaceInv /\ [Next]_vars => (IInv /\ PlaceInv)'
  BY Inductive, PlacesStep
<1> QED BY InitInv, InitPlaced, <1>1, PTL DEF Spec

\* No buffer of the ring is lost or in two places, however the polls interleave and whatever
\* allocation fails; the card never writes to a buffer without an skb, and the shortage counted
\* is real (nx_post_rx_descriptors, nx_post_freed_rxbufs, process_rxbuffer).
THEOREM BuffersKept == Spec => []BufferAccounted
<1>1. PlaceInv => BufferAccounted
  <2> SUFFICES ASSUME PlaceInv PROVE BufferAccounted
    OBVIOUS
  <2>1. ASSUME NEW b \in Buffers PROVE Cardinality(Places(b)) = 1
    <3>1. PICK x : Places(b) = {x}
      BY OnePlace DEF PlaceInv
    <3> QED BY <3>1, FS_Singleton
  <2> QED BY <2>1 DEF BufferAccounted, PlaceInv
<1> QED BY Placed, <1>1, PTL

\* The driver's lists, messages and descriptors implement the pool of buffers: a descriptor is
\* not overwritten before the card took it, and the card gets the buffers in posting order.
THEOREM RingImplementsPool == Spec => BuffersGoRound
<1>1. Init => Pool!Init
  <2> SUFFICES ASSUME Init PROVE Pool!Init
    OBVIOUS
  <2>1. IInv /\ PlaceInv
    BY InitInv, InitPlaced
  <2>2. Unposted = 0
    BY <2>1, UnpostedIs DEF Init, IInv, PostingPcs
  <2>3. OnRing = <<>>
    BY <2>2, RingIs DEF Init
  <2>4. Filled = {}
    <3>1. \A c \in Cpus : CurSets[c] = {} /\ ToldSets[c] = {}
      BY EmptyHolds DEF Init, CurSets, ToldSets
    <3> QED BY <3>1, FilledIs
  <2>5. Free = Buffers
    BY <2>1, <2>3, <2>4, FreeRest, EmptyHolds DEF PlaceInv
  <2> QED BY <2>3, <2>4, <2>5 DEF Pool!Init
<1>2. IInv /\ PlaceInv /\ [Next]_vars => [Pool!Next]_<<Free, OnRing, Filled>>
  BY PlacesStep DEF PoolStep
<1> QED BY Placed, <1>1, <1>2, PTL DEF Spec, BuffersGoRound, Pool!Spec
=============================================================================
