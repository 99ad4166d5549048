--------------------------------- MODULE PexQ ---------------------------------
(***************************************************************************)
(* PexQ, the queue by which the other function drivers of a card send      *)
(* messages to the firmware (driver/nx_pexq.c).  Messages are written into *)
(* a ring in host memory and the card is told by doorbells, each for a run *)
(* of messages.  The only reports of progress come from messages that the  *)
(* driver puts in between and that make the card write the place it has    *)
(* reached.                                                                *)
(***************************************************************************)
EXTENDS Integers, SequencesExt

CONSTANTS
  QMsgs,      \* NX_PEXQ_DBELL_BUF_QMSGS
  MaxPending, \* NX_PEXQ_DBELL_MAX_PENDING
  Thres,      \* NX_PEXQ_DBELL_COMPL_THRES
  MaxRun,     \* messages of a doorbell: 255
  MaxDbell,   \* MAX_PEXQ_DBELL
  Requests    \* sizes of the callers' requests

ASSUME PexqAssumption ==
  /\ {QMsgs, MaxPending, Thres, MaxRun, MaxDbell} \subseteq Nat \ {0}
  /\ Thres > 1 /\ MaxPending % Thres = 0 /\ QMsgs % MaxPending = 0
  /\ Requests \subseteq Nat \ {0}

VARIABLES
  newIdx, freeCnt, pendingCnt, complIdx, \* the fields qbuf_* of the queue
  complIn,  \* the word the card writes its progress to
  slots,    \* the ring: Sync, or the number of a message, modulo QMsgs
  rung,     \* what the card has not finished of the doorbells: [slot, count]
  accepted, executed \* numbers, modulo QMsgs, of messages

pexqVars == <<newIdx, freeCnt, pendingCnt, complIdx, complIn, slots, rung, accepted,
              executed>>

Ring == 0 .. QMsgs - 1
Incr(i, n) == (i + n) % QMsgs
Sync == QMsgs \* form_dma_sync_msg

\* nx_pexq_allocate_memory and nx_init_pexq_dbell.
PexqInit ==
  /\ newIdx = 0 /\ freeCnt = QMsgs /\ pendingCnt = 0 /\ complIdx = 0 /\ complIn = 0
  /\ slots = [i \in Ring |-> 0]
  /\ rung = <<>> /\ accepted = 0 /\ executed = 0

\* pexq_update_pending_doorbell: messages done since it last looked.
Completed ==
  IF complIn < complIdx THEN complIn + QMsgs - complIdx ELSE complIn - complIdx

Free == freeCnt + Completed
Pending == pendingCnt - Completed

\* Mutant of IsSync: the first of so many messages asks for a report, not the last.
IsSyncFirst(k) == (Free - k) % Thres = Thres - 1 /\ Pending + k < Thres

\* The kth slot that is taken now is for a message that asks for a report.
IsSync(k) == (Free - k) % Thres = 0

\* Slots that n messages take, those for reports in between included.
Used(n) ==
  LET u[m \in 0 .. n] ==
        IF m = 0 THEN 0 ELSE u[m - 1] + (IF IsSync(u[m - 1] + 1) THEN 2 ELSE 1)
  IN u[n]

\* Mutant of Wraps: a doorbell runs past the end of the ring.
WrapsNot(k) == FALSE

Wraps(k) == Incr(newIdx, k) = 0

\* Messages of the doorbell that covers the kth slot, up to that slot.
InBell(n) ==
  LET b[k \in 0 .. n] ==
        IF k = 0 THEN 0 ELSE IF b[k - 1] = MaxRun \/ Wraps(k - 1) THEN 1 ELSE b[k - 1] + 1
  IN b

Cuts(n) == LET b == InBell(n) IN {k \in 1 .. n : Wraps(k) \/ b[k] = MaxRun}

Fits(n) ==
  LET u == Used(n) IN
  /\ u <= Free /\ Pending + u < MaxPending /\ Cardinality(Cuts(u)) < MaxDbell

\* The place of a slot in the order in which they are taken, and the number of the
\* message that goes there.
Place(i) == IF i < newIdx THEN i + QMsgs - newIdx + 1 ELSE i - newIdx + 1
Number(k) == Incr(accepted, Cardinality({j \in 1 .. k - 1 : ~IsSync(j)}))

\* Slots are written before it is known whether the request fits; what a request that
\* does not fit leaves in free slots is written again by the next.
Fill(n) ==
  slots' = [i \in Ring |->
             IF Place(i) > n THEN slots[i] ELSE IF IsSync(Place(i)) THEN Sync ELSE Number(Place(i))]

Bells(n) ==
  LET ends == SetToSortSeq(Cuts(n) \cup {n}, <)
  IN [b \in DOMAIN ends |-> [slot |-> Incr(newIdx, ends[b] - InBell(n)[ends[b]]),
                             count |-> InBell(n)[ends[b]]]]

\* nx_schedule_pexqdb.  The progress is taken in even if the request fails.
Schedule(n) ==
  /\ complIdx' = complIn
  /\ IF Fits(n)
     THEN /\ Fill(Used(n)) /\ rung' = rung \o Bells(Used(n))
          /\ newIdx' = Incr(newIdx, Used(n)) /\ accepted' = Incr(accepted, n)
          /\ freeCnt' = Free - Used(n) /\ pendingCnt' = Pending + Used(n)
     ELSE /\ freeCnt' = Free /\ pendingCnt' = Pending
          /\ UNCHANGED <<newIdx, slots, rung, accepted>>
  /\ UNCHANGED <<complIn, executed>>

\* The card executes the next message of the first doorbell.  A message that asks for a
\* report makes it write the index behind that message.
CardExecutes ==
  /\ rung # <<>>
  /\ LET b == Head(rung) IN
     /\ rung' = IF b.count = 1 THEN Tail(rung)
                ELSE <<[slot |-> b.slot + 1, count |-> b.count - 1]>> \o Tail(rung)
     /\ IF slots[b.slot] = Sync THEN complIn' = Incr(b.slot, 1) /\ UNCHANGED executed
        ELSE executed' = Incr(executed, 1) /\ UNCHANGED complIn
  /\ UNCHANGED <<newIdx, freeCnt, pendingCnt, complIdx, slots, accepted>>

PexqNext == CardExecutes \/ \E n \in Requests : Schedule(n)
-----------------------------------------------------------------------------
\* Contents of the slots the card was told of and has not executed.
Coming ==
  FlattenSeq([b \in DOMAIN rung |->
    [j \in 1 .. rung[b].count |-> slots[rung[b].slot + j - 1]]])

\* What the card will execute is what the callers were told is accepted and nothing
\* else, in their order, from its place on: no slot is written over before its message
\* is executed and no doorbell reaches past the end of the ring (nx_schedule_pexqdb).
InOrder ==
  LET msgs == SelectSeq(Coming, LAMBDA x : x # Sync) IN
  /\ \A b \in DOMAIN rung : rung[b].slot + rung[b].count <= QMsgs
  /\ Len(msgs) = (accepted + QMsgs - executed) % QMsgs
  /\ \A j \in DOMAIN msgs : msgs[j] = Incr(executed, j - 1)

\* A caller that is turned away may try again: the card still has a message to execute
\* that will report progress, or has reported some, as long as the request is one that
\* fits beside fewer messages than cause a report (nx_schedule_pexqdb).
ReportComing ==
  \A n \in Requests :
    /\ Thres - 1 + n <= MaxPending - 1 - (MaxPending - 1) \div Thres
    /\ ~Fits(n)
    => \E j \in DOMAIN Coming : Coming[j] = Sync
=============================================================================
