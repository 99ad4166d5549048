--------------------------- MODULE MailboxProofs ---------------------------
(***************************************************************************)
(* Proofs about Mailbox, for every set of callers and commands and every   *)
(* number of retries: the semaphore excludes, and as long as no command    *)
(* has been given up the card takes commands whole, the callers get their  *)
(* own answers, and the memory of an answer outlives it.                   *)
(*                                                                         *)
(* Then about Contexts, which gives the mailbox its commands, with any     *)
(* number of contexts and any bound on the operations: as long as nothing  *)
(* is passed over, the default contexts exist, the card has no context     *)
(* whose rings are freed, and the bit map of the net queues is true.       *)
(***************************************************************************)
EXTENDS MCContexts, FiniteSetTheorems, TLAPS

\* The semaphore belongs to the caller that is inside.
Exclusive == \A c \in Inside : sem = c

\* A transfer has its memory from its beginning to the end of issue_cmd.
AreaKept ==
  \A c \in Callers :
    caller[c].op \in Transfers /\ caller[c].pc \notin {"idle", "done"} => caller[c].area

\* A command in CDRP is that of the caller that waits for its answer.
CommandSound ==
  cdrp.what = "cmd" =>
    cdrp.of \in Callers /\ At(cdrp.of, "poll") /\ cdrp.op = caller[cdrp.of].op

\* What the card works on is the command in CDRP, as it was written.
CardSound ==
  card # Idle =>
    /\ cdrp.what = "cmd" /\ card.of = cdrp.of /\ card.op = cdrp.op
    /\ card.sign = card.of /\ card.arg = card.of

\* What a response has put into the result registers.
ResultOf(rc) == IF rc = "ok" THEN "out" ELSE "code"

\* The registers that a caller inside has written, or read, are its own.
CallerSound(c) ==
  /\ caller[c].pc \in {"arg", "cmd", "poll"} => sign = c
  /\ caller[c].pc \in {"cmd", "poll"} => arg.of = c
  /\ At(c, "poll") => cdrp.of = c
  /\ At(c, "poll") /\ Answered => arg.what = ResultOf(cdrp.what)
  /\ At(c, "code") => caller[c].rcode = "fail" /\ cdrp.of = c
                        /\ arg.of = c /\ arg.what = "code"
  /\ At(c, "unlock") /\ caller[c].rcode # "timeout" =>
       arg.of = c /\ arg.what = ResultOf(caller[c].rcode)
  /\ At(c, "unlock") /\ caller[c].rcode = "fail" => caller[c].got = c

Sound == ~late => CommandSound /\ CardSound /\ \A c \in Callers : CallerSound(c)

IInv == TypeOK /\ Exclusive /\ AreaKept /\ Sound

-----------------------------------------------------------------------------
LEMMA NoOpIn == NoOp \in Ops
  BY MailboxAssumption DEF NoOp

LEMMA IdleTyped == Idle \in [of : Owners, op : Ops, sign : Owners, arg : Owners]
  BY NoOpIn DEF Idle, Owners

LEMMA RestingTyped == Resting \in CallerStates
  BY NoOpIn, MailboxAssumption DEF Resting, CallerStates, Owners

LEMMA InitInv == Init => IInv
  <1> SUFFICES ASSUME Init PROVE IInv OBVIOUS
  <1> USE MailboxAssumption, NoOpIn DEF Init
  <1>1. TypeOK BY IdleTyped, RestingTyped DEF TypeOK, Owners
  <1>2. Exclusive BY DEF Exclusive, Inside, Resting
  <1>3. AreaKept BY DEF AreaKept, Resting
  <1>4. Sound
    BY DEF Sound, CommandSound, CardSound, CallerSound, At, Resting
  <1> QED BY <1>1, <1>2, <1>3, <1>4 DEF IInv

-----------------------------------------------------------------------------
(* The types.                                                              *)

LEMMA AfterIssueTyped ==
  ASSUME NEW o, NEW rc PROVE AfterIssue(o, rc) \in {"read", "free", "done"}
  BY DEF AfterIssue

LEMMA TypeStep == TypeOK /\ [Next]_mailbox => TypeOK'
  <1> SUFFICES ASSUME TypeOK, [Next]_mailbox PROVE TypeOK' OBVIOUS
  <1> USE MailboxAssumption, NoOpIn, IdleTyped DEF TypeOK, regs
  <1>1. ASSUME NEW c \in Callers, NEW o \in Ops, Issue(c, o) PROVE TypeOK'
    <2>1. [Resting EXCEPT !.pc = "lock", !.op = o, !.area = o \in Transfers]
            \in CallerStates
      <3>1. (o \in Transfers) \in BOOLEAN OBVIOUS
      <3> QED BY <3>1, RestingTyped DEF CallerStates
    <2> QED BY <1>1, <2>1 DEF Issue
  <1>2. ASSUME NEW c \in Callers, Lock(c) PROVE TypeOK'
    BY <1>2 DEF Lock, Goto, Owners, CallerStates
  <1>3. ASSUME NEW c \in Callers, LockBusy(c) PROVE TypeOK'
    BY <1>3, AfterIssueTyped DEF LockBusy, CallerStates
  <1>4. ASSUME NEW c \in Callers, WriteSign(c) PROVE TypeOK'
    BY <1>4 DEF WriteSign, Goto, Owners, CallerStates
  <1>5. ASSUME NEW c \in Callers, WriteArgs(c) PROVE TypeOK'
    BY <1>5 DEF WriteArgs, Goto, Owners, CallerStates
  <1>6. ASSUME NEW c \in Callers, WriteCmd(c) PROVE TypeOK'
    <2> DEFINE r == [caller[c] EXCEPT !.pc = "poll", !.tries = 0]
    <2>1. caller' = [caller EXCEPT ![c] = r] BY <1>6 DEF WriteCmd
    <2>2. r \in CallerStates
      <3>1. caller[c] \in CallerStates /\ 0 \in 0 .. (LockRetries + PollRetries)
        OBVIOUS
      <3> QED BY <3>1 DEF CallerStates
    <2>3. cdrp' \in [of : Owners, what : {"cmd", "ok", "fail"}, op : Ops]
      <3>1. caller[c].op \in Ops BY DEF CallerStates
      <3> QED BY <1>6, <3>1 DEF WriteCmd, Owners
    <2>4. caller' \in [Callers -> CallerStates] BY <2>1, <2>2
    <2> QED BY <1>6, <2>3, <2>4 DEF WriteCmd
  <1>7. ASSUME NEW c \in Callers, PollTimeout(c) PROVE TypeOK'
    <2> DEFINE r == [caller[c] EXCEPT !.pc = "unlock", !.rcode = "timeout"]
    <2>1. caller' = [caller EXCEPT ![c] = r] BY <1>7 DEF PollTimeout
    <2>2. r \in CallerStates
      <3>1. caller[c] \in CallerStates OBVIOUS
      <3> QED BY <3>1 DEF CallerStates
    <2> QED BY <1>7, <2>1, <2>2 DEF PollTimeout
  <1>8. ASSUME NEW c \in Callers, PollAgain(c) PROVE TypeOK'
    BY <1>8 DEF PollAgain, GivesUp, CallerStates
  <1>9. ASSUME NEW c \in Callers, PollAnswered(c) PROVE TypeOK'
    <2> DEFINE r == [caller[c] EXCEPT !.rcode = cdrp.what,
                                       !.pc = IF cdrp.what = "ok" THEN "unlock" ELSE "code"]
    <2>1. caller' = [caller EXCEPT ![c] = r] BY <1>9 DEF PollAnswered
    <2>2. r \in CallerStates
      <3>1. caller[c] \in CallerStates OBVIOUS
      <3>2. cdrp.what \in {"ok", "fail"} BY <1>9 DEF PollAnswered, Answered
      <3> QED BY <3>1, <3>2 DEF CallerStates
    <2> QED BY <1>9, <2>1, <2>2 DEF PollAnswered
  <1>10. ASSUME NEW c \in Callers, ReadCode(c) PROVE TypeOK'
    <2> DEFINE r == [caller[c] EXCEPT !.got = arg.of, !.pc = "unlock"]
    <2>1. caller' = [caller EXCEPT ![c] = r] BY <1>10 DEF ReadCode
    <2>2. r \in CallerStates
      <3>1. caller[c] \in CallerStates /\ arg.of \in Owners OBVIOUS
      <3> QED BY <3>1 DEF CallerStates
    <2> QED BY <1>10, <2>1, <2>2 DEF ReadCode
  <1>11. ASSUME NEW c \in Callers, Unlock(c) PROVE TypeOK'
    BY <1>11, AfterIssueTyped DEF Unlock, Goto, Owners, CallerStates
  <1>12. ASSUME NEW c \in Callers, ReadResult(c) PROVE TypeOK'
    <2> DEFINE r == [caller[c] EXCEPT !.got = arg.of, !.pc = "done"]
    <2>1. caller' = [caller EXCEPT ![c] = r] BY <1>12 DEF ReadResult
    <2>2. r \in CallerStates
      <3>1. caller[c] \in CallerStates /\ arg.of \in Owners OBVIOUS
      <3> QED BY <3>1 DEF CallerStates
    <2> QED BY <1>12, <2>1, <2>2 DEF ReadResult
  <1>13. ASSUME NEW c \in Callers, FreeArea(c) PROVE TypeOK'
    <2> DEFINE r == [caller[c] EXCEPT !.area = FALSE, !.pc = "done"]
    <2>1. caller' = [caller EXCEPT ![c] = r] BY <1>13 DEF FreeArea
    <2>2. r \in CallerStates
      <3>1. caller[c] \in CallerStates OBVIOUS
      <3> QED BY <3>1 DEF CallerStates
    <2> QED BY <1>13, <2>1, <2>2 DEF FreeArea
  <1>14. ASSUME NEW c \in Callers, Return(c) PROVE TypeOK'
    BY <1>14, RestingTyped DEF Return
  <1>15. CASE CardTake BY <1>15 DEF CardTake
  <1>16. ASSUME NEW ok \in BOOLEAN, CardAnswer(ok) PROVE TypeOK'
    BY <1>16 DEF CardAnswer
  <1>17. CASE UNCHANGED mailbox BY <1>17 DEF mailbox
  <1> QED BY <1>1, <1>2, <1>3, <1>4, <1>5, <1>6, <1>7, <1>8, <1>9, <1>10, <1>11,
             <1>12, <1>13, <1>14, <1>15, <1>16, <1>17 DEF Next, Command

-----------------------------------------------------------------------------
(* The semaphore, and the memory of transfers.                             *)

\* A step that leaves the semaphore alone and takes nobody inside.
LEMMA ExclusiveKept ==
  ASSUME Exclusive, UNCHANGED sem, Inside' \subseteq Inside PROVE Exclusive'
  BY DEF Exclusive

LEMMA ExclusiveStep == TypeOK /\ Exclusive /\ [Next]_mailbox => Exclusive'
  <1> SUFFICES ASSUME TypeOK, Exclusive, [Next]_mailbox PROVE Exclusive' OBVIOUS
  <1> USE DEF TypeOK, CallerStates, At
  <1>1. ASSUME NEW c \in Callers, Lock(c) PROVE Exclusive'
    BY <1>1, MailboxAssumption DEF Lock, Enter, Goto, Exclusive, Inside
  <1>2. ASSUME NEW c \in Callers, Unlock(c) PROVE Exclusive'
    <2>1. \A d \in Inside : d = c BY <1>2 DEF Unlock, Exclusive, Inside
    <2>2. Inside' = {}
      BY <1>2, <2>1, AfterIssueTyped DEF Unlock, Goto, Inside
    <2> QED BY <2>2 DEF Exclusive
  <1>3. ASSUME NEW c \in Callers, NEW o \in Ops, Issue(c, o) PROVE Exclusive'
    BY <1>3, ExclusiveKept DEF Issue, Resting, Inside
  <1>4. ASSUME NEW c \in Callers, LockBusy(c) PROVE Exclusive'
    BY <1>4, AfterIssueTyped, ExclusiveKept DEF LockBusy, Inside
  <1>5. ASSUME NEW c \in Callers, WriteSign(c) \/ WriteArgs(c) \/ WriteCmd(c)
        PROVE Exclusive'
    BY <1>5, ExclusiveKept DEF WriteSign, WriteArgs, WriteCmd, Goto, Inside
  <1>6. ASSUME NEW c \in Callers, PollTimeout(c) \/ PollAgain(c) PROVE Exclusive'
    BY <1>6, ExclusiveKept DEF PollTimeout, PollAgain, Inside
  <1>7. ASSUME NEW c \in Callers, PollAnswered(c) \/ ReadCode(c) PROVE Exclusive'
    BY <1>7, ExclusiveKept DEF PollAnswered, ReadCode, Inside
  <1>8. ASSUME NEW c \in Callers, ReadResult(c) \/ FreeArea(c) \/ Return(c)
        PROVE Exclusive'
    BY <1>8, ExclusiveKept DEF ReadResult, FreeArea, Return, Resting, Inside
  <1>9. CASE CardTake \/ (\E ok \in BOOLEAN : CardAnswer(ok)) \/ UNCHANGED mailbox
    BY <1>9, ExclusiveKept DEF CardTake, CardAnswer, mailbox, Inside
  <1> QED BY <1>1, <1>2, <1>3, <1>4, <1>5, <1>6, <1>7, <1>8, <1>9 DEF Next, Command

LEMMA AreaStep == TypeOK /\ AreaKept /\ [Next]_mailbox => AreaKept'
  <1> SUFFICES ASSUME TypeOK, AreaKept, [Next]_mailbox PROVE AreaKept' OBVIOUS
  <1> USE MailboxAssumption DEF TypeOK, CallerStates, AreaKept, At, Goto
  <1>1. ASSUME NEW c \in Callers, NEW o \in Ops, Issue(c, o) PROVE AreaKept'
    BY <1>1 DEF Issue, Resting
  <1>2. ASSUME NEW c \in Callers, Lock(c) \/ LockBusy(c) PROVE AreaKept'
    BY <1>2 DEF Lock, LockBusy
  <1>3. ASSUME NEW c \in Callers, WriteSign(c) \/ WriteArgs(c) \/ WriteCmd(c)
        PROVE AreaKept'
    BY <1>3 DEF WriteSign, WriteArgs, WriteCmd
  <1>4. ASSUME NEW c \in Callers, PollTimeout(c) \/ PollAgain(c) PROVE AreaKept'
    BY <1>4 DEF PollTimeout, PollAgain
  <1>5. ASSUME NEW c \in Callers, PollAnswered(c) \/ ReadCode(c) PROVE AreaKept'
    BY <1>5 DEF PollAnswered, ReadCode
  <1>6. ASSUME NEW c \in Callers, Unlock(c) PROVE AreaKept' BY <1>6 DEF Unlock
  <1>7. ASSUME NEW c \in Callers, ReadResult(c) \/ FreeArea(c) \/ Return(c)
        PROVE AreaKept'
    BY <1>7 DEF ReadResult, FreeArea, Return, Resting
  <1>8. CASE CardTake \/ (\E ok \in BOOLEAN : CardAnswer(ok)) \/ UNCHANGED mailbox
    BY <1>8 DEF CardTake, CardAnswer, mailbox
  <1> QED BY <1>1, <1>2, <1>3, <1>4, <1>5, <1>6, <1>7, <1>8 DEF Next, Command

-----------------------------------------------------------------------------
(* Registers, card and callers.                                            *)

LEMMA SoundStep == IInv /\ [Next]_mailbox => Sound'
  <1> SUFFICES ASSUME TypeOK, Exclusive, Sound, [Next]_mailbox, ~late' PROVE Sound'
    BY DEF IInv, Sound
  <1> USE MailboxAssumption, NoOpIn
      DEF TypeOK, CallerStates, At, Goto, regs, CommandSound, CardSound, CallerSound
  <1>1. ASSUME NEW c \in Callers, NEW o \in Ops, Issue(c, o) PROVE Sound'
    BY <1>1 DEF Issue, Resting, Sound, Answered
  <1>2. ASSUME NEW c \in Callers, Lock(c) \/ LockBusy(c) PROVE Sound'
    BY <1>2, AfterIssueTyped DEF Lock, LockBusy, Sound, Answered
  <1>3. ASSUME NEW c \in Callers, WriteSign(c) PROVE Sound'
    <2>1. \A d \in Callers \ {c} : d \notin Inside
      BY <1>3 DEF WriteSign, Exclusive, Inside
    <2>2. card = Idle /\ Answered
      BY <1>3, <2>1 DEF WriteSign, Sound, Answered, Inside
    <2> QED BY <1>3, <2>1, <2>2 DEF WriteSign, Sound, Answered, Inside
  <1>4. ASSUME NEW c \in Callers, WriteArgs(c) PROVE Sound'
    <2>1. \A d \in Callers \ {c} : d \notin Inside
      BY <1>4 DEF WriteArgs, Exclusive, Inside
    <2> QED BY <1>4, <2>1 DEF WriteArgs, Sound, Answered, Inside
  <1>5. ASSUME NEW c \in Callers, WriteCmd(c) PROVE Sound'
    <2>1. \A d \in Callers \ {c} : d \notin Inside
      BY <1>5 DEF WriteCmd, Exclusive, Inside
    <2>2. card = Idle BY <1>5, <2>1 DEF WriteCmd, Sound, Inside
    <2> QED BY <1>5, <2>1, <2>2 DEF WriteCmd, Sound, Answered, Inside
  <1>6. ASSUME NEW c \in Callers, PollTimeout(c) PROVE Sound'
    <2>1. Answered /\ ~late BY <1>6 DEF PollTimeout
    <2>2. card = Idle /\ cdrp.what # "cmd" BY <2>1 DEF Sound, Answered
    <2>3. \A d \in Callers : CallerSound(d)' 
      BY <1>6, <2>1 DEF PollTimeout, Sound, Answered
    <2> QED BY <1>6, <2>2, <2>3 DEF PollTimeout, Sound
  <1>7. ASSUME NEW c \in Callers, PollAgain(c) PROVE Sound'
    BY <1>7 DEF PollAgain, Sound, Answered
  <1>8. ASSUME NEW c \in Callers, PollAnswered(c) PROVE Sound'
    BY <1>8 DEF PollAnswered, Sound, Answered, ResultOf
  <1>9. ASSUME NEW c \in Callers, ReadCode(c) PROVE Sound'
    BY <1>9 DEF ReadCode, Sound, Answered, ResultOf
  <1>10. ASSUME NEW c \in Callers, Unlock(c) PROVE Sound'
    BY <1>10, AfterIssueTyped DEF Unlock, Sound, Answered
  <1>11. ASSUME NEW c \in Callers, ReadResult(c) \/ FreeArea(c) \/ Return(c)
         PROVE Sound'
    BY <1>11 DEF ReadResult, FreeArea, Return, Resting, Sound, Answered
  <1>12. CASE CardTake BY <1>12 DEF CardTake, Sound, Answered, Idle
  <1>13. ASSUME NEW ok \in BOOLEAN, CardAnswer(ok) PROVE Sound'
    <2>1. /\ card.of \in Callers /\ At(card.of, "poll")
          /\ \A d \in Callers \ {card.of} : d \notin Inside
      BY <1>13 DEF CardAnswer, Sound, Exclusive, Inside
    <2> QED BY <1>13, <2>1 DEF CardAnswer, Sound, Answered, ResultOf, Inside
  <1>14. CASE UNCHANGED mailbox BY <1>14 DEF mailbox, Sound, Answered
  <1> QED BY <1>1, <1>2, <1>3, <1>4, <1>5, <1>6, <1>7, <1>8, <1>9, <1>10, <1>11,
             <1>12, <1>13, <1>14 DEF Next, Command

LEMMA Inductive == IInv /\ [Next]_mailbox => IInv'
  BY TypeStep, ExclusiveStep, AreaStep, SoundStep DEF IInv

\* The inductive invariant of the mailbox holds in every reachable state.
THEOREM Invariance == Spec => []IInv
  BY InitInv, Inductive, PTL DEF Spec

\* Every variable of the mailbox keeps its type, whatever the retries.
THEOREM TypeCorrect == Spec => []TypeOK
  <1>1. IInv => TypeOK BY DEF IInv
  <1> QED BY <1>1, Invariance, PTL

\* The card never takes a mixture of two commands, and issue_cmd excludes.
THEOREM CommandsWhole == Spec => []CommandWhole
  <1>1. IInv => CommandWhole
    BY DEF IInv, TypeOK, CallerStates, Exclusive, Sound, CommandSound, CardSound, CommandWhole,
           Inside, At
  <1> QED BY <1>1, Invariance, PTL

\* What issue_cmd has got when it releases the semaphore is its own answer.
THEOREM AnswersOwn == Spec => []AnswerOwn
  <1>1. IInv => AnswerOwn
    BY DEF IInv, TypeOK, CallerStates, Sound, CallerSound, AnswerOwn, ResultOf, Inside, At
  <1> QED BY <1>1, Invariance, PTL

\* No memory is freed while the card has still to answer into it.
THEOREM AnswersHaveRoom == Spec => []AnswerHasRoom
  <1>1. IInv => AnswerHasRoom
    BY DEF IInv, AreaKept, Sound, CommandSound, CardSound, AnswerHasRoom, At
  <1> QED BY <1>1, Invariance, PTL

\* Both together, as the runs check them: a late answer apart, every answer goes to the
\* caller whose command it answers and into memory that is still there.
THEOREM AnswersSound == Spec => []AnswerSound
  <1>1. AnswerOwn /\ AnswerHasRoom => AnswerSound
    BY DEF AnswerSound
  <1> QED BY <1>1, AnswersOwn, AnswersHaveRoom, PTL

-----------------------------------------------------------------------------
(* Contexts: as long as nothing is passed over.                            *)

\* The contexts in the table.
Taken == {i \in Ids : rx[i] # "none"}

\* Where the thread has a command under way, is about to create a context or creates
\* it, and readies the context of a queue.
Commanding == {"creating", "txing", "mtuing", "freeing", "destroying", "txdestroying"}
Making == {"dma", "creating"}
Adding == {"mtu", "mtuing", "irq"}

HostPlaces ==
  {"idle", "create", "dma", "tx", "rest", "mtu", "irq", "destroy", "free", "up", "queues", "next"}
    \cup Commanding

HostStates ==
  [pc : HostPlaces, i : Nat, why : {"none", "attach", "queue", "reset"}, fw : BOOLEAN,
   reset : BOOLEAN, saved : SUBSET Ids, todo : Nat]

CtxTyped ==
  /\ rx \in [Ids -> {"none", "allocated", "active"}]
  /\ queues \subseteq Ids /\ defRx \in Ids \cup {NoCtx}
  /\ tx \in {"none", "allocated", "active"} /\ defTx \in BOOLEAN /\ up \in BOOLEAN
  /\ host \in HostStates
  /\ cardRx \subseteq Ids /\ cardTx \in BOOLEAN

OfContexts(o) == o.cmd \in {"create_rx", "create_tx", "destroy_rx", "destroy_tx"}

\* What the mailbox does for the thread is what the thread waits for.
HostOp ==
  /\ HostAt("creating") => caller[Host].op = CreateRx(host.i)
  /\ HostAt("txing") => caller[Host].op = CreateTx
  /\ HostAt("mtuing") => caller[Host].op = SetMtu(host.i)
  /\ host.pc \in {"freeing", "destroying"} => caller[Host].op = DestroyRx(host.i)
  /\ HostAt("txdestroying") => caller[Host].op = DestroyTx

Ours ==
  /\ host.pc \in Commanding <=> ~At(Host, "idle")
  /\ host.pc \in Commanding => HostOp /\ (OfContexts(caller[Host].op) => ~At(Host, "read"))
  /\ \A c \in Callers \ {Host} : ~At(c, "idle") => caller[c].op \in Queries \cup Limits

\* The thread waits for the answer to o, or has given it up a moment ago.
Waiting(o) ==
  /\ caller[Host].op = o
  /\ \/ At(Host, "poll")
     \/ caller[Host].rcode = "timeout" /\ caller[Host].pc \in {"unlock", "free", "done"}

\* No command about contexts is left over in the mailbox.
Unanswered ==
  /\ card # Idle /\ OfContexts(card.op) => Waiting(card.op)
  /\ cdrp.what = "cmd" /\ OfContexts(cdrp.op) => Waiting(cdrp.op)

AnsweredAs(rc) ==
  \/ At(Host, "poll") /\ cdrp.what = rc
  \/ caller[Host].pc \in {"code", "unlock", "free", "done"} /\ caller[Host].rcode = rc

\* What the card has of the context that the command under way is about.
CardTrue ==
  /\ HostAt("creating") /\ host.i \in cardRx => AnsweredAs("ok") \/ AnsweredAs("timeout")
  /\ HostAt("txing") /\ cardTx => AnsweredAs("ok") \/ AnsweredAs("timeout")
  /\ host.pc \in {"freeing", "destroying"} /\ AnsweredAs("ok") => host.i \notin cardRx
  /\ HostAt("txdestroying") /\ AnsweredAs("ok") => ~cardTx
  /\ HostAt("dma") => host.i \notin cardRx

\* An interface that is up, or down.
Up == up /\ rx[0] = "active" /\ defRx = 0 /\ tx = "active" /\ defTx
NoTx == tx = "none" /\ ~defTx
Down == ~up /\ Taken = {} /\ defRx = NoCtx /\ NoTx

\* The bit map shows the contexts of net queues, but for those of S; in a recovery the
\* ids of no queue besides.
Known(S) ==
  IF host.reset
    THEN /\ queues = (Ids \ host.saved) \cup (Taken \ ({0} \cup S))
         /\ Taken \ {0} \subseteq host.saved
    ELSE queues = Taken \ ({0} \cup S)

\* The queues that a recovery has still to give a context.
ToDo == Cardinality(host.saved \ Taken)

QueueStage ==
  /\ HostAt("idle") => ~host.reset /\ Known({}) /\ (Up \/ Down)
  /\ HostAt("freeing") => ~host.reset /\ Known({}) /\ Up /\ host.i \in queues
  /\ HostAt("queues") => host.reset /\ ((Up /\ Taken = {0}) \/ (Down /\ queues = {}))
  /\ HostAt("next") => host.reset /\ host.why = "reset" /\ Known({}) /\ host.todo = ToDo
                         /\ (Up \/ (Down /\ host.saved = {}))
  /\ host.why \in {"queue", "reset"} =>
       /\ host.pc \in {"create"} \cup Making \cup Adding =>
            Up /\ (host.reset <=> host.why = "reset")
       /\ HostAt("create") => Known({}) /\ (host.reset => host.todo + 1 = ToDo)
       /\ host.pc \in Making \cup Adding =>
            Known({host.i}) /\ host.i \in Taken \ {0} /\ (host.reset => host.todo = ToDo)

AttachStage ==
  /\ host.pc \in {"create"} \cup Making => host.why # "none"
  /\ host.pc \in Adding => host.why \in {"queue", "reset"}
  /\ host.pc \in {"tx", "txing", "rest"} => host.why = "attach"
  /\ HostAt("create") /\ host.why = "attach" => Down
  /\ host.pc \in Making /\ host.why = "attach" =>
        ~up /\ host.i = 0 /\ Taken = {0} /\ defRx = NoCtx /\ NoTx
  /\ host.pc \in {"tx", "txing", "rest"} => ~up /\ Taken = {0} /\ defRx = 0
  /\ HostAt("tx") => NoTx
  /\ HostAt("txing") => tx = "allocated" /\ ~defTx
  /\ HostAt("rest") => tx = "active" /\ defTx
  /\ HostAt("up") => Down /\ host.reset

\* A detach that commands the card has one context to destroy, the default one; that of
\* a recovery has as many as there are, and the card has none.
DestroyStage ==
  /\ HostAt("destroy") => /\ 0 \in Taken /\ defRx = (IF host.i = 0 THEN 0 ELSE NoCtx)
                          /\ tx = "active" \/ NoTx
  /\ HostAt("destroying") => host.i = 0 /\ Taken = {0} /\ defRx = 0 /\ host.fw
                              /\ (tx = "active" \/ NoTx)
  /\ HostAt("txdestroying") => Taken = {0} /\ cardRx = {} /\ host.fw /\ defRx = NoCtx
  /\ HostAt("destroy") /\ host.fw => Taken = {0} /\ (host.i # 0 => cardRx = {})
  /\ HostAt("destroy") /\ ~host.fw => host.reset /\ host.why = "none" /\ cardRx = {} /\ ~cardTx
  /\ HostAt("free") => defRx = NoCtx /\ NoTx /\ cardRx = {}

\* The thread is attaching or detaching the interface.
AttachingOrNot ==
  \/ host.pc \in {"create", "dma", "creating", "tx", "txing", "rest"} /\ host.why = "attach"
  \/ host.pc \in {"destroy", "destroying", "txdestroying", "free"}

\* Attach and detach find no net queues, but in a recovery, and never one with the id 0.
Settled ==
  /\ AttachingOrNot \/ host.pc \in {"up", "queues"} =>
       IF host.reset THEN 0 \notin queues ELSE queues = {}
  /\ 0 \notin host.saved
  /\ \A j \in Taken : rx[j] = IF host.pc \in Making /\ j = host.i THEN "allocated" ELSE "active"

Placed == CtxTyped /\ DefaultsLive /\ CardBacked /\ QueueStage /\ AttachStage /\ DestroyStage
           /\ Settled

Mail == Ours /\ Unanswered /\ CardTrue

CtxInv == IInv /\ Placed /\ Mail

CalmInv == calm => CtxInv

-----------------------------------------------------------------------------
LEMMA IdFacts ==
  /\ 0 \in Ids /\ 1 \in Ids /\ NoCtx \notin Ids /\ Ids \subseteq Nat
  /\ IsFiniteSet(Ids) /\ \A S \in SUBSET Ids : IsFiniteSet(S) /\ Cardinality(S) \in Nat
<1>1. NumRx \in Nat /\ NumRx > 1
  BY ContextsAssumption, MCContextsAssumption
<1>2. IsFiniteSet(Ids)
  BY <1>1, FS_Interval DEF Ids
<1>3. \A S \in SUBSET Ids : IsFiniteSet(S) /\ Cardinality(S) \in Nat
  BY <1>2, FS_Subset, FS_CardinalityType
<1> QED BY <1>1, <1>2, <1>3 DEF Ids, NoCtx

LEMMA OpFacts ==
  /\ \A i \in Ids : /\ CreateRx(i) \in Transfers /\ DestroyRx(i) \in Sets /\ SetMtu(i) \in Sets
                    /\ OfContexts(CreateRx(i)) /\ OfContexts(DestroyRx(i))
                    /\ ~OfContexts(SetMtu(i))
  /\ CreateTx \in Transfers /\ DestroyTx \in Sets /\ OfContexts(CreateTx) /\ OfContexts(DestroyTx)
  /\ \A o \in Queries \cup Limits : ~OfContexts(o)
<1>1. \A o \in Queries \cup Limits : ~OfContexts(o)
  BY ContextsAssumption DEF OfContexts
<1>2. \A i \in Ids : /\ CreateRx(i) \in Transfers /\ DestroyRx(i) \in Sets /\ SetMtu(i) \in Sets
  BY ContextsAssumption
<1>3. \A i \in Ids : /\ OfContexts(CreateRx(i)) /\ OfContexts(DestroyRx(i))
                     /\ ~OfContexts(SetMtu(i))
  BY DEF OfContexts, CreateRx, DestroyRx, SetMtu
<1>4. CreateTx \in Transfers /\ DestroyTx \in Sets
  BY ContextsAssumption
<1>5. OfContexts(CreateTx) /\ OfContexts(DestroyTx)
  BY DEF OfContexts, CreateTx, DestroyTx
<1> QED BY <1>1, <1>2, <1>3, <1>4, <1>5

\* How the set of the contexts changes.
LEMMA TakenSame == UNCHANGED rx => Taken' = Taken
BY DEF Taken

LEMMA TakenMore ==
  ASSUME rx \in [Ids -> {"none", "allocated", "active"}], NEW i \in Ids,
         NEW v \in {"allocated", "active"}, rx' = [rx EXCEPT ![i] = v]
  PROVE  Taken' = Taken \cup {i}
BY DEF Taken

LEMMA TakenLess ==
  ASSUME rx \in [Ids -> {"none", "allocated", "active"}], NEW i \in Ids, FreeRx(i)
  PROVE  Taken' = Taken \ {i}
BY DEF Taken, FreeRx

LEMMA TakenCount ==
  /\ Taken \subseteq Ids /\ IsFiniteSet(Taken) /\ Cardinality(Taken) \in Nat
  /\ Taken = {} => Cardinality(Taken) = 0
  /\ Taken = {0} => Cardinality(Taken) = 1
  /\ 0 \in Taken => Cardinality(Taken) > 0
<1>1. Taken \subseteq Ids
  BY DEF Taken
<1>2. IsFiniteSet(Taken) /\ Cardinality(Taken) \in Nat
  BY <1>1, IdFacts
<1>3. 0 \in Taken => Cardinality(Taken) > 0
  BY <1>2, FS_EmptySet
<1> QED BY <1>1, <1>2, <1>3, FS_EmptySet, FS_Singleton

LEMMA AfterGoto ==
  ASSUME host \in HostStates, NEW l, HostGoto(l)
  PROVE  /\ host'.pc = l /\ host'.i = host.i /\ host'.why = host.why /\ host'.fw = host.fw
         /\ host'.reset = host.reset /\ host'.saved = host.saved /\ host'.todo = host.todo
BY DEF HostStates, HostGoto

LEMMA HostDetaches ==
  ASSUME host \in HostStates, NEW l \in HostPlaces, NEW b \in BOOLEAN
  PROVE  [host EXCEPT !.pc = l, !.i = 0, !.fw = b] \in HostStates
BY DEF HostStates

\* The thread goes on without a command.
LEMMA MailStays ==
  ASSUME Mail, UNCHANGED mailbox, host.pc \notin Commanding, host'.pc \notin Commanding,
         host'.pc = "dma" => host'.i \notin cardRx'
  PROVE  Mail'
<1>1. UNCHANGED <<card, cdrp, caller>>
  BY DEF mailbox, regs
<1>2. Ours'
  BY <1>1 DEF Mail, Ours, At
<1>3. Unanswered'
  BY <1>1 DEF Mail, Unanswered, Waiting, At
<1>4. CardTrue'
  BY DEF CardTrue, HostAt, Commanding
<1> QED BY <1>2, <1>3, <1>4 DEF Mail

\* The thread begins.
LEMMA BeginsPlaced ==
  ASSUME Placed, ~Harm, Attach \/ QueueAlloc \/ Detach
  PROVE  Placed'
<1>0. host \in HostStates /\ HostAt("idle")
  BY DEF Placed, CtxTyped, Attach, QueueAlloc, Detach
<1>1. /\ ~host.reset /\ queues = Taken \ {0} /\ (Up \/ Down)
      /\ \A j \in Taken : rx[j] = "active"
  BY <1>0 DEF Placed, QueueStage, Settled, Known, HostAt, Making
<1>2. UNCHANGED <<rx, active, queues, defRx, tx, defTx, up, cardRx, cardTx>>
  BY DEF Attach, QueueAlloc, Detach, table, txVars, cardVars
<1>3. Taken' = Taken
  BY <1>2, TakenSame
<1>4. DefaultsLive' /\ CardBacked'
  BY <1>2 DEF Placed, DefaultsLive, CardBacked
<1>5. host' \in HostStates
  <2>1. "create" \in HostPlaces /\ "destroy" \in HostPlaces /\ "free" \in HostPlaces
    BY DEF HostPlaces
  <2>2. Attach => host' \in HostStates
    BY <1>0, <2>1 DEF Attach, HostStates
  <2>3. QueueAlloc => host' \in HostStates
    BY <1>0, <2>1 DEF QueueAlloc, HostStates
  <2>4. Detach => host' \in HostStates
    <3> DEFINE l == IF up THEN "destroy" ELSE "free"
    <3>1. l \in HostPlaces
      BY <2>1
    <3>2. Detach => host' = [host EXCEPT !.pc = l, !.i = 0, !.fw = TRUE]
      BY DEF Detach
    <3> HIDE DEF l
    <3> QED BY <1>0, <3>1, <3>2, HostDetaches
  <2> QED BY <2>2, <2>3, <2>4
<1>6. CtxTyped'
  BY <1>2, <1>5 DEF Placed, CtxTyped
<1>7. ASSUME Attach PROVE QueueStage' /\ AttachStage' /\ DestroyStage' /\ Settled'
  <2>1. host'.pc = "create" /\ host'.why = "attach" /\ host'.reset = FALSE /\ host'.saved = host.saved
    BY <1>0, <1>1, <1>7 DEF Attach, HostStates
  <2>2. Down /\ queues = {}
    BY <1>1, <1>7 DEF Attach, Up, Down
  <2> QED BY <1>1, <1>2, <1>3, <2>1, <2>2
          DEF Placed, QueueStage, AttachStage, DestroyStage, Settled, HostAt, Making, Adding,
              AttachingOrNot, Up, Down, NoTx
<1>8. ASSUME QueueAlloc PROVE QueueStage' /\ AttachStage' /\ DestroyStage' /\ Settled'
  <2>1. host'.pc = "create" /\ host'.why = "queue" /\ host'.reset = FALSE /\ host'.saved = host.saved
    BY <1>0, <1>1, <1>8 DEF QueueAlloc, HostStates
  <2>2. Up
    BY <1>1, <1>8 DEF QueueAlloc, Up, Down
  <2> QED BY <1>1, <1>2, <1>3, <2>1, <2>2
          DEF Placed, QueueStage, AttachStage, DestroyStage, Settled, HostAt, Making, Adding,
              AttachingOrNot, Up, Known
<1>9. ASSUME Detach PROVE QueueStage' /\ AttachStage' /\ DestroyStage' /\ Settled'
  <2>1. /\ host'.pc = (IF up THEN "destroy" ELSE "free") /\ host'.i = 0 /\ host'.fw = TRUE
        /\ host'.reset = FALSE /\ host'.saved = host.saved
    BY <1>0, <1>1, <1>9 DEF Detach, HostStates
  <2>2. queues = {}
    BY <1>9 DEF Harm
  <2>3. 0 \in Ids /\ Taken \subseteq Ids
    BY IdFacts, TakenCount
  <2>4. CASE up
    <3>1. Up /\ Taken = {0}
      BY <1>1, <2>2, <2>3, <2>4 DEF Up, Down, Taken
    <3> QED BY <1>1, <1>2, <1>3, <2>1, <2>2, <2>4, <3>1
          DEF Placed, QueueStage, AttachStage, DestroyStage, Settled, HostAt, Making, Adding,
              AttachingOrNot, Up
  <2>5. CASE ~up
    <3>1. Down /\ cardRx = {}
      BY <1>1, <2>2, <2>3, <2>5 DEF Up, Down, Taken, Placed, CardBacked
    <3> QED BY <1>1, <1>2, <1>3, <2>1, <2>2, <2>5, <3>1
          DEF Placed, QueueStage, AttachStage, DestroyStage, Settled, HostAt, Making, Adding,
              AttachingOrNot, Down, NoTx
  <2> QED BY <2>4, <2>5
<1> QED BY <1>4, <1>6, <1>7, <1>8, <1>9 DEF Placed

\* A new context, or no memory for one.
LEMMA AllocPlaced ==
  ASSUME Placed, ~Harm, CreateAlloc
  PROVE  Placed' /\ host'.i \notin cardRx'
<1>0. host \in HostStates /\ HostAt("create")
  BY DEF Placed, CtxTyped, CreateAlloc
<1>1. PICK i \in OpenIds : /\ \A j \in OpenIds : i <= j
                           /\ rx' = [rx EXCEPT ![i] = "allocated"]
                           /\ host' = [host EXCEPT !.pc = "dma", !.i = i]
  BY DEF CreateAlloc
<1>2. i \in Ids /\ i \notin Taken /\ i \notin queues /\ i \in Nat
  BY <1>1, IdFacts DEF OpenIds, Taken
<1>3. /\ host'.pc = "dma" /\ host'.i = i /\ host'.why = host.why /\ host'.reset = host.reset
      /\ host'.saved = host.saved /\ host'.todo = host.todo /\ host' \in HostStates
  <2>1. "dma" \in HostPlaces
    BY DEF HostPlaces
  <2> QED BY <1>0, <1>1, <1>2, <2>1 DEF HostStates
<1>4. /\ UNCHANGED <<queues, defRx, tx, defTx, up, cardRx, cardTx>> /\ active' = active + 1
      /\ rx \in [Ids -> {"none", "allocated", "active"}]
  BY DEF CreateAlloc, txVars, cardVars, Placed, CtxTyped
<1>5. Taken' = Taken \cup {i}
  BY <1>1, <1>2, <1>4, TakenMore
<1>6. CtxTyped'
  BY <1>1, <1>3, <1>4 DEF Placed, CtxTyped
<1>7. DefaultsLive'
  <2>1. active = Cardinality(Taken) /\ (defRx # NoCtx => rx[defRx] = "active")
        /\ (defTx => tx = "active") /\ defRx \in Ids \cup {NoCtx}
    BY DEF Placed, DefaultsLive, CtxTyped, Taken
  <2>2. Cardinality(Taken \cup {i}) = Cardinality(Taken) + 1
    BY <1>2, TakenCount, FS_AddElement
  <2>3. active' = Cardinality(Taken')
    BY <1>4, <1>5, <2>1, <2>2
  <2>4. defRx # NoCtx => rx'[defRx] = "active"
    BY <1>1, <1>2, <1>4, <2>1 DEF Taken
  <2> QED BY <1>4, <2>1, <2>3, <2>4 DEF DefaultsLive, Taken
<1>8. CardBacked' /\ i \notin cardRx
  BY <1>2, <1>4, <1>5 DEF Placed, CardBacked, Taken
<1>9. \A j \in Taken : rx'[j] = "active"
  BY <1>0, <1>1, <1>2, <1>4 DEF Placed, Settled, HostAt, Making, Taken
<1>10. rx'[i] = "allocated"
  BY <1>1, <1>2, <1>4
<1>11. CASE host.why = "attach"
  <2>1. Down /\ (IF host.reset THEN 0 \notin queues ELSE queues = {})
    BY <1>0, <1>11 DEF Placed, AttachStage, Settled, AttachingOrNot, HostAt
  <2>2. i = 0
    <3>1. 0 \in OpenIds
      BY <2>1, IdFacts DEF OpenIds, Down, Taken
    <3> QED BY <1>1, <1>2, <3>1
  <2> QED BY <1>3, <1>4, <1>5, <1>6, <1>7, <1>8, <1>9, <1>10, <1>11, <2>1, <2>2
          DEF Placed, QueueStage, AttachStage, DestroyStage, Settled, HostAt, Making, Adding,
              AttachingOrNot, Down, NoTx
<1>12. CASE host.why \in {"queue", "reset"}
  <2>1. /\ Up /\ (host.reset <=> host.why = "reset") /\ Known({})
        /\ host.reset => host.todo + 1 = ToDo
    BY <1>0, <1>12 DEF Placed, QueueStage, HostAt
  <2>2. i # 0
    BY <1>2, <2>1, IdFacts DEF Up, Taken
  <2>3. Up'
    BY <1>1, <1>2, <1>4, <2>1, <2>2, IdFacts DEF Up
  <2>4. Known({host.i})'
    <3>1. /\ host.reset => /\ queues = (Ids \ host.saved) \cup (Taken \ {0})
                           /\ Taken \ {0} \subseteq host.saved
          /\ ~host.reset => queues = Taken \ {0}
      BY <2>1 DEF Known
    <3>2. Taken' \ {0, i} = Taken \ {0}
      BY <1>2, <1>5, <2>2
    <3> QED BY <1>2, <1>3, <1>4, <1>5, <3>1, <3>2 DEF Known
  <2>5. host.reset => host.todo = ToDo'
    <3> SUFFICES ASSUME host.reset PROVE host.todo = ToDo'
      OBVIOUS
    <3>1. i \in host.saved \ Taken
      BY <1>2, <2>1 DEF Known
    <3>2. host.saved \ Taken' = (host.saved \ Taken) \ {i}
      BY <1>5
    <3>3. IsFiniteSet(host.saved \ Taken)
      BY <1>0, IdFacts DEF HostStates
    <3>4. Cardinality(host.saved \ Taken') = Cardinality(host.saved \ Taken) - 1
      BY <3>1, <3>2, <3>3, FS_RemoveElement
    <3>5. host.todo \in Nat
      BY <1>0 DEF HostStates
    <3> QED BY <1>3, <2>1, <3>4, <3>5 DEF ToDo
  <2>6. 0 \notin host.saved
    BY DEF Placed, Settled
  <2> QED BY <1>2, <1>3, <1>4, <1>5, <1>6, <1>7, <1>8, <1>9, <1>10, <1>12, <2>1, <2>2, <2>3, <2>4,
             <2>5, <2>6
          DEF Placed, QueueStage, AttachStage, DestroyStage, Settled, HostAt, Making, Adding,
              AttachingOrNot
<1> QED BY <1>0, <1>3, <1>11, <1>12 DEF Placed, AttachStage, HostAt, HostStates

LEMMA NoMemoryPlaced ==
  ASSUME Placed, ~Harm, CreateNoMemory
  PROVE  Placed'
<1>0. host \in HostStates /\ HostAt("create")
  BY DEF Placed, CtxTyped, CreateNoMemory
<1>1. /\ UNCHANGED <<rx, active, queues, defRx, tx, defTx, up, cardRx, cardTx>>
      /\ host.why \in {"attach", "queue"}
  <2>1. host.why # "none" /\ host.why \in {"none", "attach", "queue", "reset"}
    BY <1>0 DEF Placed, AttachStage, HostAt, HostStates
  <2>2. host.why # "reset"
    BY DEF Harm
  <2> QED BY <2>1, <2>2 DEF CreateNoMemory, table, txVars, cardVars
<1>2. Taken' = Taken
  BY <1>1, TakenSame
<1>3. /\ host'.pc = (IF host.why = "attach" THEN "free" ELSE "idle") /\ host'.why = host.why
      /\ host'.reset = host.reset /\ host'.saved = host.saved /\ host'.i = host.i
      /\ host' = [host EXCEPT !.pc = IF host.why = "attach" THEN "free" ELSE "idle"]
  BY <1>0, <1>1, AfterGoto DEF CreateNoMemory, CreateFails, HostGoto
<1>4. host' \in HostStates
  <2>1. "free" \in HostPlaces /\ "idle" \in HostPlaces
    BY DEF HostPlaces
  <2> QED BY <1>0, <1>3, <2>1 DEF HostStates
<1>5. CtxTyped' /\ DefaultsLive' /\ CardBacked'
  BY <1>1, <1>4 DEF Placed, CtxTyped, DefaultsLive, CardBacked
<1>6. CASE host.why = "attach"
  <2>1. Down /\ cardRx = {} /\ (IF host.reset THEN 0 \notin queues ELSE queues = {})
    BY <1>0, <1>6
    DEF Placed, AttachStage, Settled, AttachingOrNot, HostAt, Down, CardBacked, Taken
  <2> QED BY <1>1, <1>2, <1>3, <1>5, <1>6, <2>1
          DEF Placed, QueueStage, AttachStage, DestroyStage, Settled, HostAt, Making, Adding,
              AttachingOrNot, Down, NoTx
<1>7. CASE host.why = "queue"
  <2>1. Up /\ ~host.reset /\ Known({})
    BY <1>0, <1>7 DEF Placed, QueueStage, HostAt
  <2> QED BY <1>0, <1>1, <1>2, <1>3, <1>5, <1>7, <2>1
          DEF Placed, QueueStage, AttachStage, DestroyStage, Settled, HostAt, Making, Adding,
              AttachingOrNot, Up, Known
<1> QED BY <1>1, <1>6, <1>7

\* The rest of an attach, and of a queue's context.
LEMMA RestPlaced ==
  ASSUME Placed, TxNoMemory \/ (\E ok \in BOOLEAN : AttachRest(ok))
  PROVE  Placed'
<1>0. host \in HostStates /\ host.pc \in {"tx", "rest"}
  BY DEF Placed, CtxTyped, TxNoMemory, AttachRest, HostAt
<1>1. /\ UNCHANGED <<rx, active, queues, defRx, tx, defTx, cardRx, cardTx>>
      /\ "destroy" \in HostPlaces /\ "queues" \in HostPlaces /\ "idle" \in HostPlaces
  BY DEF TxNoMemory, AttachRest, table, txVars, cardVars, HostPlaces
<1>2. Taken' = Taken
  BY <1>1, TakenSame
<1>3. /\ ~up /\ Taken = {0} /\ defRx = 0 /\ host.why = "attach"
      /\ HostAt("tx") => NoTx
      /\ HostAt("rest") => tx = "active" /\ defTx
      /\ rx[0] = "active"
      /\ IF host.reset THEN 0 \notin queues ELSE queues = {}
  BY <1>0 DEF Placed, AttachStage, Settled, AttachingOrNot, HostAt, Making
<1>4. ASSUME Undo, up' = FALSE PROVE Placed'
  <2>1. /\ host'.pc = "destroy" /\ host'.i = 0 /\ host'.fw = TRUE /\ host'.why = host.why
        /\ host'.reset = host.reset /\ host'.saved = host.saved
    BY <1>0, <1>4 DEF Undo, HostStates
  <2>2. host' \in HostStates
    BY <1>0, <1>1, <1>4, HostDetaches DEF Undo
  <2>3. CtxTyped' /\ DefaultsLive' /\ CardBacked'
    BY <1>1, <1>4, <2>2 DEF Placed, CtxTyped, DefaultsLive, CardBacked
  <2>4. tx = "active" \/ NoTx
    BY <1>0, <1>3 DEF HostAt
  <2> QED BY <1>0, <1>1, <1>2, <1>3, <2>1, <2>3, <2>4
          DEF Placed, QueueStage, AttachStage, DestroyStage, Settled, HostAt, Making, Adding,
              AttachingOrNot, NoTx
<1>5. CASE TxNoMemory
  <2>1. Undo /\ up' = up
    BY <1>5 DEF TxNoMemory, table, txVars, cardVars
  <2>2. up \in BOOLEAN
    BY DEF Placed, CtxTyped
  <2> QED BY <1>3, <1>4, <2>1, <2>2
<1>6. CASE AttachRest(FALSE)
  <2>1. Undo /\ up' = FALSE
    BY <1>6 DEF AttachRest
  <2> QED BY <1>4, <2>1
<1>7. CASE AttachRest(TRUE)
  <2> DEFINE l == IF host.reset THEN "queues" ELSE "idle"
  <2>1. HostAt("rest") /\ up' = TRUE /\ HostGoto(l)
    BY <1>7 DEF AttachRest
  <2>2. l \in HostPlaces /\ host' = [host EXCEPT !.pc = l]
    BY <1>1, <2>1 DEF HostGoto
  <2>3. /\ host'.pc = l /\ host'.i = host.i /\ host'.why = host.why
        /\ host'.reset = host.reset /\ host'.saved = host.saved
    BY <1>0, <2>1, AfterGoto
  <2>4. l = IF host.reset THEN "queues" ELSE "idle"
    OBVIOUS
  <2> HIDE DEF l
  <2>5. host' \in HostStates
    BY <1>0, <2>2 DEF HostStates
  <2>6. CtxTyped' /\ DefaultsLive' /\ CardBacked'
    BY <1>1, <2>1, <2>5 DEF Placed, CtxTyped, DefaultsLive, CardBacked
  <2>7. Up'
    BY <1>1, <1>3, <2>1 DEF Up
  <2>8. host.reset \in BOOLEAN
    BY <1>0 DEF HostStates
  <2> QED BY <1>0, <1>1, <1>2, <1>3, <2>3, <2>4, <2>6, <2>7, <2>8
          DEF Placed, QueueStage, AttachStage, DestroyStage, Settled, HostAt, Making, Adding,
              AttachingOrNot, Known
<1> QED BY <1>5, <1>6, <1>7

LEMMA ReadyPlaced ==
  ASSUME Placed, QueueReady
  PROVE  Placed'
<1>0. host \in HostStates /\ HostAt("irq")
  BY DEF Placed, CtxTyped, QueueReady
<1> DEFINE l == IF host.why = "reset" THEN "next" ELSE "idle"
<1>1. /\ UNCHANGED <<rx, active, defRx, tx, defTx, up, cardRx, cardTx>>
      /\ queues' = queues \cup {host.i} /\ HostGoto(l)
  BY DEF QueueReady, QueueEnd, txVars, cardVars
<1>2. Taken' = Taken
  BY <1>1, TakenSame
<1>3. /\ Up /\ host.why \in {"queue", "reset"} /\ (host.reset <=> host.why = "reset")
      /\ Known({host.i}) /\ host.i \in Taken \ {0} /\ (host.reset => host.todo = ToDo)
      /\ 0 \notin host.saved
      /\ \A j \in Taken : rx[j] = "active"
  <2>1. host.why \in {"queue", "reset"}
    BY <1>0 DEF Placed, AttachStage, HostAt, Adding
  <2> QED BY <1>0, <2>1 DEF Placed, QueueStage, Settled, HostAt, Adding, Making
<1>4. /\ host'.pc = l /\ host'.i = host.i /\ host'.why = host.why /\ host'.reset = host.reset
      /\ host'.saved = host.saved /\ host'.todo = host.todo
  BY <1>0, <1>1, AfterGoto
<1>5. l = (IF host.why = "reset" THEN "next" ELSE "idle") /\ host' = [host EXCEPT !.pc = l]
  BY <1>1 DEF HostGoto
<1> HIDE DEF l
<1>6. host' \in HostStates
  <2>1. l \in HostPlaces
    BY <1>5 DEF HostPlaces
  <2> QED BY <1>0, <1>5, <2>1 DEF HostStates
<1>7. CtxTyped' /\ DefaultsLive' /\ CardBacked'
  <2>1. host.i \in Ids
    BY <1>3 DEF Taken
  <2> QED BY <1>1, <1>6, <2>1 DEF Placed, CtxTyped, DefaultsLive, CardBacked
<1>8. Known({})'
  BY <1>1, <1>2, <1>3, <1>4 DEF Known
<1>9. ToDo' = ToDo /\ Up'
  BY <1>1, <1>2, <1>3, <1>4 DEF ToDo, Up
<1>10. host.reset \in BOOLEAN
  BY <1>0 DEF HostStates
<1> QED BY <1>1, <1>2, <1>3, <1>4, <1>5, <1>7, <1>8, <1>9, <1>10
        DEF Placed, QueueStage, AttachStage, DestroyStage, Settled, HostAt, Making, Adding,
            AttachingOrNot

\* A detach without commands.
LEMMA DestroyPlaced ==
  ASSUME Placed, DestroyNoFw \/ DestroyTxNoFw
  PROVE  Placed'
<1>0. host \in HostStates /\ HostAt("destroy") /\ host.i \in Nat
  BY DEF Placed, CtxTyped, DestroyNoFw, DestroyTxNoFw, HostStates
<1>1. UNCHANGED <<rx, active, queues, up, cardRx, cardTx>>
  BY DEF DestroyNoFw, Destroyed, DestroyTxNoFw, table, txVars, cardVars
<1>2. Taken' = Taken
  BY <1>1, TakenSame
<1>3. /\ 0 \in Taken /\ defRx = (IF host.i = 0 THEN 0 ELSE NoCtx) /\ (tx = "active" \/ NoTx)
      /\ host.fw => Taken = {0} /\ (host.i # 0 => cardRx = {})
      /\ ~host.fw => host.reset /\ host.why = "none" /\ cardRx = {} /\ ~cardTx
      /\ IF host.reset THEN 0 \notin queues ELSE queues = {}
      /\ active = Cardinality(Taken) /\ active \in Nat /\ active > 0
      /\ 0 \notin host.saved
      /\ \A j \in Taken : rx[j] = "active"
  <2>1. active = Cardinality(Taken)
    BY DEF Placed, DefaultsLive, Taken
  <2> QED BY <1>0, <2>1, TakenCount
          DEF Placed, DestroyStage, Settled, AttachingOrNot, HostAt, Making
<1>4. CASE DestroyNoFw
  <2>1. /\ ~host.fw /\ defRx' = Undefault(host.i) /\ UNCHANGED <<tx, defTx>>
        /\ host' = [host EXCEPT !.pc = "destroy", !.i = host.i + 1]
    BY <1>4 DEF DestroyNoFw, Destroyed, txVars
  <2>2. /\ host'.pc = "destroy" /\ host'.i = host.i + 1 /\ host'.why = host.why
        /\ host'.reset = host.reset /\ host'.saved = host.saved /\ host'.fw = host.fw
        /\ host' \in HostStates
    <3>1. host.i + 1 \in Nat /\ "destroy" \in HostPlaces
      BY <1>0 DEF HostPlaces
    <3> QED BY <1>0, <2>1, <3>1 DEF HostStates
  <2>3. defRx' = NoCtx /\ host'.i # 0
    BY <1>0, <1>3, <2>1, <2>2 DEF Undefault
  <2>4. CtxTyped' /\ DefaultsLive' /\ CardBacked'
    BY <1>1, <2>1, <2>2, <2>3 DEF Placed, CtxTyped, DefaultsLive, CardBacked
  <2> QED BY <1>0, <1>1, <1>2, <1>3, <2>1, <2>2, <2>3, <2>4
          DEF Placed, QueueStage, AttachStage, DestroyStage, Settled, HostAt, Making, Adding,
              AttachingOrNot, NoTx
<1>5. CASE DestroyTxNoFw
  <2>1. /\ host.i >= active /\ (tx = "none" \/ ~host.fw) /\ tx' = "none" /\ defTx' = FALSE
        /\ HostGoto("free") /\ UNCHANGED defRx
    BY <1>5 DEF DestroyTxNoFw, table
  <2>2. host.i # 0
    BY <1>0, <1>3, <2>1
  <2>3. defRx = NoCtx /\ cardRx = {} /\ ~cardTx
    <3>1. host.fw => ~cardTx
      BY <2>1 DEF Placed, CardBacked
    <3> QED BY <1>3, <2>2, <3>1
  <2>4. /\ host'.pc = "free" /\ host'.i = host.i /\ host'.why = host.why
        /\ host'.reset = host.reset /\ host'.saved = host.saved
    BY <1>0, <2>1, AfterGoto
  <2>5. host' \in HostStates
    <3>1. "free" \in HostPlaces
      BY DEF HostPlaces
    <3> QED BY <1>0, <2>1, <3>1 DEF HostStates, HostGoto
  <2>6. CtxTyped' /\ DefaultsLive' /\ CardBacked'
    BY <1>1, <2>1, <2>3, <2>5 DEF Placed, CtxTyped, DefaultsLive, CardBacked
  <2> QED BY <1>0, <1>1, <1>2, <1>3, <2>1, <2>3, <2>4, <2>6
          DEF Placed, QueueStage, AttachStage, DestroyStage, Settled, HostAt, Making, Adding,
              AttachingOrNot, NoTx
<1> QED BY <1>4, <1>5

LEMMA FreePlaced ==
  ASSUME Placed, ~Harm, FreeAll
  PROVE  Placed'
<1>0. host \in HostStates /\ HostAt("free")
  BY DEF Placed, CtxTyped, FreeAll
<1> DEFINE l == IF ~host.reset THEN "idle" ELSE "up"
<1>1. /\ rx' = [i \in Ids |-> "none"] /\ active' = 0 /\ up' = FALSE
      /\ UNCHANGED <<queues, defRx, tx, defTx, cardRx, cardTx>>
      /\ HostGoto(AfterFree)
  BY DEF FreeAll, txVars, cardVars
<1>2. ~(host.reset /\ host.why = "attach")
  BY DEF Harm
<1>3. AfterFree = l
  BY <1>2 DEF AfterFree
<1>4. /\ host'.pc = l /\ host'.i = host.i /\ host'.why = host.why
      /\ host'.reset = host.reset /\ host'.saved = host.saved
  BY <1>0, <1>1, <1>3, AfterGoto
<1>5. l = (IF ~host.reset THEN "idle" ELSE "up") /\ host' = [host EXCEPT !.pc = l]
  BY <1>1, <1>3 DEF HostGoto
<1> HIDE DEF l
<1>6. host' \in HostStates
  <2>1. l \in HostPlaces
    BY <1>5 DEF HostPlaces
  <2> QED BY <1>0, <1>5, <2>1 DEF HostStates
<1>7. /\ defRx = NoCtx /\ NoTx /\ cardRx = {} /\ ~cardTx /\ 0 \notin host.saved
      /\ IF host.reset THEN 0 \notin queues ELSE queues = {}
  BY <1>0 DEF Placed, DestroyStage, Settled, AttachingOrNot, HostAt, CardBacked, NoTx
<1>8. Taken' = {}
  BY <1>1 DEF Taken
<1>9. CtxTyped'
  BY <1>1, <1>6 DEF Placed, CtxTyped
<1>10. DefaultsLive' /\ CardBacked'
  <2>1. active' = Cardinality(Taken')
    BY <1>1, <1>8, FS_EmptySet
  <2> QED BY <1>1, <1>7, <2>1 DEF DefaultsLive, CardBacked, NoTx, Taken
<1>11. Down'
  BY <1>1, <1>7, <1>8 DEF Down, NoTx
<1>12. host.reset \in BOOLEAN
  BY <1>0 DEF HostStates
<1> QED BY <1>1, <1>4, <1>5, <1>7, <1>8, <1>9, <1>10, <1>11, <1>12
        DEF Placed, QueueStage, AttachStage, DestroyStage, Settled, HostAt, Making, Adding,
            AttachingOrNot, Known

\* The recovery of the net queues.
LEMMA RecoveryPlaced ==
  ASSUME Placed, ~Harm, \/ \E b \in BOOLEAN : ResetAttach(b)
                        \/ QueuesStart \/ QueuesNext \/ QueuesEnd
  PROVE  Placed'
<1>0. host \in HostStates /\ host.todo \in Nat /\ 0 \notin host.saved /\ host.saved \subseteq Ids
  BY DEF Placed, CtxTyped, HostStates, Settled
<1>1. /\ UNCHANGED <<rx, active, defRx, tx, defTx, up, cardRx, cardTx>>
      /\ "create" \in HostPlaces /\ "next" \in HostPlaces /\ "queues" \in HostPlaces
      /\ "idle" \in HostPlaces
  BY DEF ResetAttach, QueuesStart, QueuesNext, QueuesEnd, table, txVars, cardVars, HostPlaces
<1>2. Taken' = Taken
  BY <1>1, TakenSame
<1>3. /\ DefaultsLive' /\ CardBacked' /\ (Up => Up') /\ (Down => Down')
      /\ host' \in HostStates /\ queues' \subseteq Ids => CtxTyped'
  BY <1>1, <1>2 DEF Placed, CtxTyped, DefaultsLive, CardBacked, Up, Down, NoTx
<1>4. ASSUME NEW b \in BOOLEAN, ResetAttach(b) PROVE Placed'
  <2> DEFINE l == IF b THEN "create" ELSE "queues"
  <2>1. HostAt("up") /\ host' = [host EXCEPT !.pc = l, !.why = "attach"] /\ queues' = queues
    BY <1>4 DEF ResetAttach, table
  <2>2. l \in HostPlaces /\ l \in {"create", "queues"} /\ (l = "create" <=> b)
    BY <1>1
  <2> HIDE DEF l
  <2>3. /\ host'.pc = l /\ host'.i = host.i /\ host'.why = "attach"
        /\ host'.reset = host.reset /\ host'.saved = host.saved /\ host' \in HostStates
    BY <1>0, <2>1, <2>2 DEF HostStates
  <2>4. Down /\ host.reset /\ 0 \notin queues
    BY <2>1 DEF Placed, AttachStage, Settled, HostAt
  <2>5. l = "queues" => queues = {}
    <3>1. ~b => b = FALSE
      OBVIOUS
    <3> QED BY <1>4, <2>2, <3>1 DEF Harm
  <2>6. CtxTyped'
    BY <1>3, <2>1, <2>3 DEF Placed, CtxTyped
  <2>7. \A j \in Taken : rx[j] = "active"
    BY <2>4 DEF Down
  <2> QED BY <1>0, <1>1, <1>2, <1>3, <2>1, <2>2, <2>3, <2>4, <2>5, <2>6, <2>7
          DEF Placed, QueueStage, AttachStage, DestroyStage, Settled, HostAt, Making, Adding,
              AttachingOrNot
<1>5. CASE QueuesStart
  <2>1. /\ HostAt("queues") /\ queues' = Ids \ queues
        /\ host' = [host EXCEPT !.pc = "next", !.why = "reset", !.saved = queues,
                                !.todo = Cardinality(queues)]
    BY <1>5 DEF QueuesStart, Inverted
  <2>2. queues \subseteq Ids /\ Cardinality(queues) \in Nat
    BY IdFacts DEF Placed, CtxTyped
  <2>3. /\ host'.pc = "next" /\ host'.i = host.i /\ host'.why = "reset"
        /\ host'.reset = host.reset /\ host'.saved = queues
        /\ host'.todo = Cardinality(queues) /\ host' \in HostStates
    BY <1>0, <1>1, <2>1, <2>2 DEF HostStates
  <2>4. /\ host.reset /\ 0 \notin queues
        /\ (Up /\ Taken = {0}) \/ (Down /\ queues = {})
        /\ \A j \in Taken : rx[j] = "active"
    BY <2>1 DEF Placed, QueueStage, Settled, HostAt, Making
  <2>5. CtxTyped'
    BY <1>3, <2>1, <2>2, <2>3
  <2>6. Taken \ {0} = {} /\ queues \ Taken = queues
    BY <2>4 DEF Down
  <2>7. Known({})'
    BY <1>2, <2>1, <2>3, <2>4, <2>6 DEF Known
  <2>8. ToDo' = host'.todo
    BY <1>2, <2>3, <2>6 DEF ToDo
  <2> QED BY <1>1, <1>2, <1>3, <2>3, <2>4, <2>5, <2>7, <2>8
          DEF Placed, QueueStage, AttachStage, DestroyStage, Settled, HostAt, Making, Adding,
              AttachingOrNot
<1>6. CASE QueuesNext \/ QueuesEnd
  <2>1. HostAt("next")
    BY <1>6 DEF QueuesNext, QueuesEnd
  <2>2. /\ host.reset /\ host.why = "reset" /\ Known({}) /\ host.todo = ToDo
        /\ Up \/ (Down /\ host.saved = {})
        /\ \A j \in Taken : rx[j] = "active"
    BY <2>1 DEF Placed, QueueStage, Settled, HostAt, Making
  <2>3. /\ host.todo = 0 => host.saved \ Taken = {}
        /\ host.saved = {} => host.todo = 0
    <3>1. IsFiniteSet(host.saved \ Taken)
      BY <1>0, IdFacts
    <3> QED BY <2>2, <3>1, FS_EmptySet DEF ToDo
  <2>4. CASE QueuesNext
    <3>1. /\ host.todo > 0 /\ queues' = queues
          /\ host' = [host EXCEPT !.pc = "create", !.todo = host.todo - 1]
      BY <2>4 DEF QueuesNext, table
    <3>2. /\ host'.pc = "create" /\ host'.i = host.i /\ host'.why = "reset"
          /\ host'.reset = host.reset /\ host'.saved = host.saved
          /\ host'.todo + 1 = host.todo /\ host' \in HostStates
      <4> DEFINE n == host.todo - 1
      <4>1. n \in Nat /\ n + 1 = host.todo
        BY <1>0, <3>1
      <4>2. host' = [host EXCEPT !.pc = "create", !.todo = n]
        BY <3>1
      <4> HIDE DEF n
      <4> QED BY <1>0, <1>1, <2>2, <4>1, <4>2 DEF HostStates
    <3>3. Up
      BY <1>0, <2>2, <2>3, <3>1
    <3>4. Known({})' /\ ToDo' = ToDo
      BY <1>2, <2>2, <3>1, <3>2 DEF Known, ToDo
    <3>5. CtxTyped'
      BY <1>3, <3>1, <3>2 DEF Placed, CtxTyped
    <3> QED BY <1>0, <1>1, <1>2, <1>3, <2>2, <3>2, <3>3, <3>4, <3>5
            DEF Placed, QueueStage, AttachStage, DestroyStage, Settled, HostAt, Making, Adding,
                AttachingOrNot
  <2>5. CASE QueuesEnd
    <3>1. /\ host.todo = 0 /\ queues' = host.saved
          /\ host' = [host EXCEPT !.pc = "idle", !.reset = FALSE, !.saved = {}]
      BY <2>5 DEF QueuesEnd
    <3>2. /\ host'.pc = "idle" /\ host'.i = host.i /\ host'.why = "reset"
          /\ host'.reset = FALSE /\ host'.saved = {} /\ host' \in HostStates
      <4>1. {} \in SUBSET Ids /\ FALSE \in BOOLEAN
        OBVIOUS
      <4> QED BY <1>0, <1>1, <2>2, <3>1, <4>1 DEF HostStates
    <3>3. host.saved = Taken \ {0}
      <4>1. Taken \ {0} \subseteq host.saved
        BY <2>2 DEF Known
      <4> QED BY <1>0, <2>3, <3>1, <4>1
    <3>4. Known({})'
      BY <1>2, <3>1, <3>2, <3>3 DEF Known
    <3>5. CtxTyped'
      BY <1>0, <1>3, <3>1, <3>2
    <3> QED BY <1>0, <1>1, <1>2, <1>3, <2>2, <3>2, <3>4, <3>5
            DEF Placed, QueueStage, AttachStage, DestroyStage, Settled, HostAt, Making, Adding,
                AttachingOrNot
  <2> QED BY <1>6, <2>4, <2>5
<1> QED BY <1>4, <1>5, <1>6

\* The firmware starts anew.
LEMMA ResetPlaced ==
  ASSUME Placed, Reset
  PROVE  Placed'
<1>0. host \in HostStates /\ HostAt("idle")
  BY DEF Placed, CtxTyped, Reset
<1> DEFINE l == IF up THEN "destroy" ELSE "free"
<1>1. /\ UNCHANGED <<rx, active, queues, defRx, tx, defTx, up>> /\ cardRx' = {} /\ cardTx' = FALSE
      /\ host' = [host EXCEPT !.pc = l, !.i = 0, !.fw = FALSE, !.reset = TRUE, !.why = "none"]
  BY DEF Reset, table, txVars
<1>2. Taken' = Taken
  BY <1>1, TakenSame
<1>3. l \in {"destroy", "free"} /\ (l = "destroy" <=> up) /\ l \in HostPlaces
  BY DEF HostPlaces
<1> HIDE DEF l
<1>4. /\ host'.pc = l /\ host'.i = 0 /\ host'.fw = FALSE /\ host'.reset = TRUE
      /\ host'.why = "none" /\ host'.saved = host.saved /\ host' \in HostStates
  BY <1>0, <1>1, <1>3 DEF HostStates
<1>5. /\ queues = Taken \ {0} /\ (Up \/ Down) /\ 0 \notin host.saved
      /\ \A j \in Taken : rx[j] = "active"
  BY <1>0 DEF Placed, QueueStage, Settled, Known, HostAt, Making
<1>6. CtxTyped' /\ DefaultsLive' /\ CardBacked'
  BY <1>1, <1>4 DEF Placed, CtxTyped, DefaultsLive, CardBacked
<1>7. /\ up => 0 \in Taken /\ defRx = 0 /\ tx = "active"
      /\ ~up => defRx = NoCtx /\ NoTx
  BY <1>5, IdFacts DEF Up, Down, Taken
<1> QED BY <1>1, <1>2, <1>3, <1>4, <1>5, <1>6, <1>7
        DEF Placed, QueueStage, AttachStage, DestroyStage, Settled, HostAt, Making, Adding,
            AttachingOrNot, NoTx

-----------------------------------------------------------------------------
(* The thread gives a command to the mailbox.                              *)

LEMMA SendMail ==
  ASSUME IInv, Mail, NEW o \in Ops, Issue(Host, o), UNCHANGED <<cardRx, cardTx>>,
         host'.pc \in Commanding, caller'[Host].op = o => HostOp',
         host'.pc = "creating" => host'.i \notin cardRx,
         host'.pc = "txing" => ~cardTx
  PROVE  IInv' /\ Mail'
<1> TypeOK
  BY DEF IInv
<1>0. Host \in Callers /\ caller[Host].pc = "idle"
  BY ContextsAssumption DEF Issue, At
<1>1. /\ caller'[Host].pc = "lock" /\ caller'[Host].op = o
      /\ \A c \in Callers \ {Host} : caller'[c] = caller[c]
      /\ UNCHANGED <<card, cdrp>>
  BY <1>0 DEF Issue, Resting, regs, TypeOK
<1>2. Ours'
  BY <1>1 DEF Mail, Ours, At
<1>3. Unanswered'
  BY <1>0, <1>1 DEF Mail, Unanswered, Waiting, At
<1>4. CardTrue'
  BY <1>1 DEF CardTrue, HostAt, AnsweredAs, At, Commanding
<1>5. IInv'
  BY <1>0, Inductive DEF Next
<1> QED BY <1>2, <1>3, <1>4, <1>5 DEF Mail

LEMMA CreateSends ==
  ASSUME IInv, Placed, Mail, CreateSend
  PROVE  IInv' /\ Placed' /\ Mail'
<1>0. host \in HostStates /\ HostAt("dma")
  BY DEF Placed, CtxTyped, CreateSend
<1>1. /\ UNCHANGED <<rx, active, queues, defRx, tx, defTx, up, cardRx, cardTx>>
      /\ HostGoto("creating") /\ Issue(Host, CreateRx(host.i))
  BY DEF CreateSend, Send, table, txVars, cardVars
<1>2. Taken' = Taken
  BY <1>1, TakenSame
<1>3. /\ host'.pc = "creating" /\ host'.i = host.i /\ host'.why = host.why
      /\ host'.reset = host.reset /\ host'.saved = host.saved /\ host'.todo = host.todo
  BY <1>0, <1>1, AfterGoto
<1>4. host' \in HostStates
  <2>1. "creating" \in HostPlaces
    BY DEF HostPlaces, Commanding
  <2> QED BY <1>0, <1>1, <2>1 DEF HostStates, HostGoto
<1>5. CtxTyped' /\ DefaultsLive' /\ CardBacked'
  BY <1>1, <1>4 DEF Placed, CtxTyped, DefaultsLive, CardBacked
<1>6. /\ Up => Up'
      /\ Known({host.i}) => Known({host.i})'
      /\ NoTx => NoTx'
      /\ ToDo' = ToDo
  BY <1>1, <1>2, <1>3 DEF Up, Known, ToDo, NoTx
<1>7. QueueStage' /\ AttachStage' /\ DestroyStage'
  BY <1>0, <1>1, <1>2, <1>3, <1>6
  DEF Placed, QueueStage, AttachStage, DestroyStage, HostAt, Making, Adding
<1>8. Settled'
  BY <1>0, <1>1, <1>2, <1>3 DEF Placed, Settled, HostAt, Making, AttachingOrNot
<1>9. host.i \in Ids
  <2>1. host.why \in {"attach", "queue", "reset"}
    BY <1>0 DEF Placed, AttachStage, HostAt, Making, HostStates
  <2> QED BY <1>0, <2>1, IdFacts DEF Placed, QueueStage, AttachStage, HostAt, Making, Taken
<1>10. IInv' /\ Mail'
  <2>1. CreateRx(host.i) \in Ops
    BY <1>9, OpFacts DEF Ops
  <2>2. host.i \notin cardRx
    BY <1>0 DEF Mail, CardTrue
  <2>3. caller'[Host].op = CreateRx(host.i) => HostOp'
    BY <1>3 DEF HostOp, HostAt
  <2>4. host'.pc \in Commanding
    BY <1>3 DEF Commanding
  <2> QED BY <1>1, <1>3, <2>1, <2>2, <2>3, <2>4, SendMail
<1> QED BY <1>5, <1>7, <1>8, <1>10 DEF Placed

LEMMA TxSends ==
  ASSUME IInv, Placed, Mail, TxSend
  PROVE  IInv' /\ Placed' /\ Mail'
<1>0. host \in HostStates /\ HostAt("tx") /\ tx = "none"
  BY DEF Placed, CtxTyped, TxSend
<1>1. /\ UNCHANGED <<rx, active, queues, defRx, defTx, up, cardRx, cardTx>>
      /\ tx' = "allocated" /\ HostGoto("txing") /\ Issue(Host, CreateTx)
  BY DEF TxSend, Send, table, cardVars
<1>2. Taken' = Taken
  BY <1>1, TakenSame
<1>3. /\ host'.pc = "txing" /\ host'.i = host.i /\ host'.why = host.why
      /\ host'.reset = host.reset /\ host'.saved = host.saved /\ host'.todo = host.todo
  BY <1>0, <1>1, AfterGoto
<1>4. host' \in HostStates
  <2>1. "txing" \in HostPlaces
    BY DEF HostPlaces, Commanding
  <2> QED BY <1>0, <1>1, <2>1 DEF HostStates, HostGoto
<1>5. NoTx /\ ~cardTx /\ host.why = "attach" /\ ~up /\ Taken = {0} /\ defRx = 0
  BY <1>0 DEF Placed, AttachStage, CardBacked, HostAt
<1>6. CtxTyped' /\ DefaultsLive' /\ CardBacked'
  BY <1>1, <1>4, <1>5 DEF Placed, CtxTyped, DefaultsLive, CardBacked, NoTx
<1>7. QueueStage' /\ AttachStage' /\ DestroyStage'
  BY <1>1, <1>2, <1>3, <1>5
  DEF QueueStage, AttachStage, DestroyStage, HostAt, Making, Adding, NoTx
<1>8. Settled'
  BY <1>0, <1>1, <1>2, <1>3, <1>5 DEF Placed, Settled, HostAt, Making, AttachingOrNot
<1>9. IInv' /\ Mail'
  <2>1. CreateTx \in Ops
    BY OpFacts DEF Ops
  <2>2. caller'[Host].op = CreateTx => HostOp'
    BY <1>3 DEF HostOp, HostAt
  <2>3. host'.pc \in Commanding
    BY <1>3 DEF Commanding
  <2> QED BY <1>1, <1>3, <1>5, <2>1, <2>2, <2>3, SendMail
<1> QED BY <1>6, <1>7, <1>8, <1>9 DEF Placed

LEMMA MtuSends ==
  ASSUME IInv, Placed, Mail, QueueMtu
  PROVE  IInv' /\ Placed' /\ Mail'
<1>0. host \in HostStates /\ HostAt("mtu")
  BY DEF Placed, CtxTyped, QueueMtu
<1>1. /\ UNCHANGED <<rx, active, queues, defRx, tx, defTx, up, cardRx, cardTx>>
      /\ HostGoto("mtuing") /\ Issue(Host, SetMtu(ContextId(host.i)))
  BY DEF QueueMtu, Send, table, txVars, cardVars
<1>2. Taken' = Taken
  BY <1>1, TakenSame
<1>3. /\ host'.pc = "mtuing" /\ host'.i = host.i /\ host'.why = host.why
      /\ host'.reset = host.reset /\ host'.saved = host.saved /\ host'.todo = host.todo
  BY <1>0, <1>1, AfterGoto
<1>4. host' \in HostStates
  <2>1. "mtuing" \in HostPlaces
    BY DEF HostPlaces, Commanding
  <2> QED BY <1>0, <1>1, <2>1 DEF HostStates, HostGoto
<1>5. CtxTyped' /\ DefaultsLive' /\ CardBacked'
  BY <1>1, <1>4 DEF Placed, CtxTyped, DefaultsLive, CardBacked
<1>6. /\ Up => Up'
      /\ Known({host.i}) => Known({host.i})'
      /\ ToDo' = ToDo
  BY <1>1, <1>2, <1>3 DEF Up, Known, ToDo
<1>7. QueueStage' /\ AttachStage' /\ DestroyStage'
  BY <1>0, <1>1, <1>2, <1>3, <1>6
  DEF Placed, QueueStage, AttachStage, DestroyStage, HostAt, Making, Adding
<1>8. Settled'
  BY <1>0, <1>1, <1>2, <1>3 DEF Placed, Settled, HostAt, Making, AttachingOrNot
<1>9. host.i \in Taken /\ host.i \in Ids /\ rx[host.i] = "active"
  <2>1. host.why \in {"queue", "reset"}
    BY <1>0 DEF Placed, AttachStage, HostAt, Adding
  <2>2. host.i \in Taken
    BY <1>0, <2>1 DEF Placed, QueueStage, HostAt, Adding
  <2> QED BY <1>0, <2>2 DEF Placed, Settled, HostAt, Making, Taken
<1>10. IInv' /\ Mail'
  <2>1. SetMtu(host.i) \in Ops
    BY <1>9, OpFacts DEF Ops
  <2>2. ContextId(host.i) = host.i
    BY <1>9 DEF ContextId
  <2>3. caller'[Host].op = SetMtu(host.i) => HostOp'
    BY <1>3 DEF HostOp, HostAt
  <2>4. host'.pc \in Commanding
    BY <1>3 DEF Commanding
  <2> QED BY <1>1, <1>3, <2>1, <2>2, <2>3, <2>4, SendMail
<1> QED BY <1>5, <1>7, <1>8, <1>10 DEF Placed

LEMMA FreeSends ==
  ASSUME IInv, Placed, Mail, NEW i \in Ids, QueueFree(i)
  PROVE  IInv' /\ Placed' /\ Mail'
<1>0. host \in HostStates /\ HostAt("idle") /\ i \in queues /\ rx[i] # "none" /\ i \in Nat
  BY IdFacts DEF Placed, CtxTyped, QueueFree
<1>1. /\ UNCHANGED <<rx, active, queues, defRx, tx, defTx, up, cardRx, cardTx>>
      /\ host' = [host EXCEPT !.pc = "freeing", !.i = i]
      /\ Issue(Host, DestroyRx(ContextId(i)))
  BY DEF QueueFree, table, txVars, cardVars
<1>2. Taken' = Taken
  BY <1>1, TakenSame
<1>3. /\ host'.pc = "freeing" /\ host'.i = i /\ host'.why = host.why
      /\ host'.reset = host.reset /\ host'.saved = host.saved /\ host' \in HostStates
  <2>1. "freeing" \in HostPlaces
    BY DEF HostPlaces, Commanding
  <2> QED BY <1>0, <1>1, <2>1 DEF HostStates
<1>4. CtxTyped' /\ DefaultsLive' /\ CardBacked'
  BY <1>1, <1>3 DEF Placed, CtxTyped, DefaultsLive, CardBacked
<1>5. ~host.reset /\ Known({}) /\ (Up \/ Down) /\ i \in Taken /\ rx[i] = "active"
  BY <1>0 DEF Placed, QueueStage, Settled, HostAt, Making, Taken
<1>6. Up /\ Up' /\ Known({})'
  BY <1>1, <1>2, <1>3, <1>5 DEF Up, Down, Known
<1>7. QueueStage' /\ AttachStage' /\ DestroyStage'
  BY <1>0, <1>1, <1>2, <1>3, <1>5, <1>6
  DEF QueueStage, AttachStage, DestroyStage, HostAt, Making, Adding
<1>8. Settled'
  BY <1>0, <1>1, <1>2, <1>3 DEF Placed, Settled, HostAt, Making, AttachingOrNot
<1>9. IInv' /\ Mail'
  <2>1. DestroyRx(i) \in Ops
    BY OpFacts DEF Ops
  <2>2. ContextId(i) = i
    BY <1>5 DEF ContextId
  <2>3. caller'[Host].op = DestroyRx(i) => HostOp'
    BY <1>3 DEF HostOp, HostAt
  <2>4. host'.pc \in Commanding
    BY <1>3 DEF Commanding
  <2> QED BY <1>1, <1>3, <2>1, <2>2, <2>3, <2>4, SendMail
<1> QED BY <1>4, <1>7, <1>8, <1>9 DEF Placed

LEMMA DestroySends ==
  ASSUME IInv, Placed, Mail, DestroySend
  PROVE  IInv' /\ Placed' /\ Mail'
<1>0. /\ host \in HostStates /\ HostAt("destroy") /\ host.i \in Nat
      /\ host.i < active /\ rx[host.i] # "none" /\ host.fw
  BY DEF Placed, CtxTyped, DestroySend, HostStates
<1>1. /\ UNCHANGED <<rx, active, queues, defRx, tx, defTx, up, cardRx, cardTx>>
      /\ HostGoto("destroying") /\ Issue(Host, DestroyRx(ContextId(host.i)))
  BY DEF DestroySend, Send, table, txVars, cardVars
<1>2. Taken' = Taken
  BY <1>1, TakenSame
<1>3. /\ host'.pc = "destroying" /\ host'.i = host.i /\ host'.why = host.why
      /\ host'.reset = host.reset /\ host'.saved = host.saved /\ host'.fw = host.fw
  BY <1>0, <1>1, AfterGoto
<1>4. host' \in HostStates
  <2>1. "destroying" \in HostPlaces
    BY DEF HostPlaces, Commanding
  <2> QED BY <1>0, <1>1, <2>1 DEF HostStates, HostGoto
<1>5. CtxTyped' /\ DefaultsLive' /\ CardBacked'
  BY <1>1, <1>4 DEF Placed, CtxTyped, DefaultsLive, CardBacked
<1>6. Taken = {0} /\ host.i = 0 /\ rx[0] = "active" /\ defRx = 0 /\ (tx = "active" \/ NoTx)
  <2>1. Taken = {0} /\ active = Cardinality(Taken)
    BY <1>0 DEF Placed, DestroyStage, DefaultsLive, Taken
  <2>2. host.i = 0
    BY <1>0, <2>1, TakenCount
  <2> QED BY <1>0, <2>1, <2>2 DEF Placed, DestroyStage, Settled, HostAt, Making
<1>7. QueueStage' /\ AttachStage' /\ DestroyStage'
  BY <1>0, <1>1, <1>2, <1>3, <1>6
  DEF QueueStage, AttachStage, DestroyStage, HostAt, Making, Adding, NoTx
<1>8. Settled'
  BY <1>0, <1>1, <1>2, <1>3 DEF Placed, Settled, HostAt, Making, AttachingOrNot
<1>9. IInv' /\ Mail'
  <2>1. DestroyRx(host.i) \in Ops
    BY <1>6, IdFacts, OpFacts DEF Ops
  <2>2. ContextId(host.i) = host.i
    BY <1>6 DEF ContextId
  <2>3. caller'[Host].op = DestroyRx(host.i) => HostOp'
    BY <1>3 DEF HostOp, HostAt
  <2>4. host'.pc \in Commanding
    BY <1>3 DEF Commanding
  <2> QED BY <1>1, <1>3, <2>1, <2>2, <2>3, <2>4, SendMail
<1> QED BY <1>5, <1>7, <1>8, <1>9 DEF Placed

LEMMA DestroyTxSends ==
  ASSUME IInv, Placed, Mail, DestroyTxSend
  PROVE  IInv' /\ Placed' /\ Mail'
<1>0. /\ host \in HostStates /\ HostAt("destroy") /\ host.i \in Nat
      /\ host.i >= active /\ tx # "none" /\ host.fw
  BY DEF Placed, CtxTyped, DestroyTxSend, HostStates
<1>1. /\ UNCHANGED <<rx, active, queues, defRx, tx, defTx, up, cardRx, cardTx>>
      /\ HostGoto("txdestroying") /\ Issue(Host, DestroyTx)
  BY DEF DestroyTxSend, Send, table, txVars, cardVars
<1>2. Taken' = Taken
  BY <1>1, TakenSame
<1>3. /\ host'.pc = "txdestroying" /\ host'.i = host.i /\ host'.why = host.why
      /\ host'.reset = host.reset /\ host'.saved = host.saved /\ host'.fw = host.fw
  BY <1>0, <1>1, AfterGoto
<1>4. host' \in HostStates
  <2>1. "txdestroying" \in HostPlaces
    BY DEF HostPlaces, Commanding
  <2> QED BY <1>0, <1>1, <2>1 DEF HostStates, HostGoto
<1>5. CtxTyped' /\ DefaultsLive' /\ CardBacked'
  BY <1>1, <1>4 DEF Placed, CtxTyped, DefaultsLive, CardBacked
<1>6. Taken = {0} /\ cardRx = {} /\ defRx = NoCtx
  <2>1. Taken = {0} /\ active = Cardinality(Taken)
    BY <1>0 DEF Placed, DestroyStage, DefaultsLive, Taken
  <2>2. host.i # 0
    BY <1>0, <2>1, TakenCount
  <2> QED BY <1>0, <2>1, <2>2 DEF Placed, DestroyStage
<1>7. QueueStage' /\ AttachStage' /\ DestroyStage'
  BY <1>0, <1>1, <1>2, <1>3, <1>6
  DEF QueueStage, AttachStage, DestroyStage, HostAt, Making, Adding
<1>8. Settled'
  BY <1>0, <1>1, <1>2, <1>3 DEF Placed, Settled, HostAt, Making, AttachingOrNot
<1>9. IInv' /\ Mail'
  <2>1. DestroyTx \in Ops
    BY OpFacts DEF Ops
  <2>2. caller'[Host].op = DestroyTx => HostOp'
    BY <1>3 DEF HostOp, HostAt
  <2>3. host'.pc \in Commanding
    BY <1>3 DEF Commanding
  <2> QED BY <1>1, <1>3, <2>1, <2>2, <2>3, SendMail
<1> QED BY <1>5, <1>7, <1>8, <1>9 DEF Placed

-----------------------------------------------------------------------------
(* The thread has the answer to its command.                               *)

LEMMA ReturnMail ==
  ASSUME IInv, Mail, Return(Host), host.pc \in Commanding, host'.pc \notin Commanding,
         host'.pc # "dma",
         caller[Host].rcode # "timeout" \/ ~OfContexts(caller[Host].op)
  PROVE  IInv' /\ Mail'
<1> TypeOK
  BY DEF IInv
<1>0. Host \in Callers /\ caller[Host].pc = "done"
  BY ContextsAssumption DEF Return, At
<1>1. /\ caller'[Host].pc = "idle"
      /\ \A c \in Callers \ {Host} : caller'[c] = caller[c]
      /\ UNCHANGED <<card, cdrp>>
  BY <1>0 DEF Return, Resting, regs, TypeOK
<1>2. Ours'
  BY <1>1 DEF Mail, Ours, At
<1>3. Unanswered'
  BY <1>0, <1>1 DEF Mail, Unanswered, Waiting, At
<1>4. CardTrue'
  BY DEF CardTrue, HostAt, Commanding
<1>5. IInv'
  BY <1>0, Inductive DEF Next
<1> QED BY <1>2, <1>3, <1>4, <1>5 DEF Mail

\* What the thread knows of the card when a command has ended.
LEMMA EndedTrue ==
  ASSUME IInv, Mail, NEW l, NEW rc, Ended(l, rc)
  PROVE  /\ Return(Host) /\ HostAt(l) /\ caller[Host].rcode = rc
         /\ l = "creating" /\ rc = "fail" => host.i \notin cardRx
         /\ l = "txing" /\ rc = "fail" => ~cardTx
         /\ l \in {"freeing", "destroying"} /\ rc = "ok" => host.i \notin cardRx
         /\ l = "txdestroying" /\ rc = "ok" => ~cardTx
<1>1. Return(Host) /\ HostAt(l) /\ caller[Host].rcode = rc /\ caller[Host].pc = "done"
  BY DEF Ended, Return, At
<1>2. /\ AnsweredAs("ok") <=> rc = "ok"
      /\ AnsweredAs("timeout") <=> rc = "timeout"
  BY <1>1 DEF AnsweredAs, At
<1> QED BY <1>1, <1>2 DEF Mail, CardTrue, HostAt

LEMMA CreatedPlaced ==
  ASSUME IInv, Placed, Mail, CreateOk
  PROVE  IInv' /\ Placed' /\ Mail'
<1>0. host \in HostStates /\ HostAt("creating")
  BY DEF Placed, CtxTyped, CreateOk, Ended
<1> DEFINE l == IF host.why = "attach" THEN "tx" ELSE "mtu"
<1>1. /\ UNCHANGED <<active, queues, tx, defTx, up, cardRx, cardTx>>
      /\ rx' = [rx EXCEPT ![host.i] = "active"]
      /\ defRx' = (IF defRx = NoCtx THEN host.i ELSE defRx)
      /\ HostGoto(l) /\ Ended("creating", "ok")
      /\ rx \in [Ids -> {"none", "allocated", "active"}]
  BY DEF CreateOk, Created, txVars, cardVars, Placed, CtxTyped
<1>2. /\ host'.pc = l /\ host'.i = host.i /\ host'.why = host.why
      /\ host'.reset = host.reset /\ host'.saved = host.saved /\ host'.todo = host.todo
  BY <1>0, <1>1, AfterGoto
<1>3. l = (IF host.why = "attach" THEN "tx" ELSE "mtu") /\ host' = [host EXCEPT !.pc = l]
  BY <1>1 DEF HostGoto
<1> HIDE DEF l
<1>4. host' \in HostStates
  <2>1. l \in HostPlaces
    BY <1>3 DEF HostPlaces
  <2> QED BY <1>0, <1>3, <2>1 DEF HostStates
<1>5. host.why \in {"attach", "queue", "reset"}
  BY <1>0 DEF Placed, AttachStage, HostAt, Making, HostStates
<1>6. host.i \in Taken /\ host.i \in Ids
  BY <1>0, <1>5, IdFacts DEF Placed, QueueStage, AttachStage, HostAt, Making, Taken
<1>7. Taken' = Taken /\ (\A j \in Taken : rx'[j] = "active")
  <2>1. Taken' = Taken
    BY <1>1, <1>6 DEF Taken
  <2>2. \A j \in Taken : j # host.i => rx[j] = "active"
    BY DEF Placed, Settled
  <2> QED BY <1>1, <1>6, <2>1, <2>2 DEF Taken
<1>8. CtxTyped'
  BY <1>1, <1>4, <1>6 DEF Placed, CtxTyped
<1>9. DefaultsLive' /\ CardBacked'
  <2>1. active' = Cardinality(Taken')
    BY <1>1, <1>7 DEF Placed, DefaultsLive, Taken
  <2>2. defRx' # NoCtx => rx'[defRx'] = "active"
    BY <1>1, <1>6, <1>7 DEF Placed, DefaultsLive, CtxTyped
  <2>3. cardRx' \subseteq Taken'
    BY <1>1, <1>7 DEF Placed, CardBacked, Taken
  <2> QED BY <1>1, <2>1, <2>2, <2>3 DEF Placed, DefaultsLive, CardBacked, Taken
<1>10. IInv' /\ Mail'
  <2>1. host.pc \in Commanding /\ host'.pc \notin Commanding /\ host'.pc # "dma"
    BY <1>0, <1>2, <1>3 DEF Commanding, HostAt
  <2> QED BY <1>1, <2>1, EndedTrue, ReturnMail
<1>11. CASE host.why = "attach"
  <2>1. /\ ~up /\ host.i = 0 /\ Taken = {0} /\ defRx = NoCtx /\ NoTx
        /\ IF host.reset THEN 0 \notin queues ELSE queues = {}
        /\ 0 \notin host.saved
    BY <1>0, <1>11 DEF Placed, AttachStage, Settled, AttachingOrNot, HostAt, Making
  <2> QED BY <1>0, <1>1, <1>2, <1>3, <1>7, <1>8, <1>9, <1>10, <1>11, <2>1
          DEF Placed, QueueStage, AttachStage, DestroyStage, Settled, HostAt, Making, Adding,
              AttachingOrNot, NoTx
<1>12. CASE host.why \in {"queue", "reset"}
  <2>1. /\ Up /\ (host.reset <=> host.why = "reset") /\ Known({host.i})
        /\ host.i \in Taken \ {0} /\ (host.reset => host.todo = ToDo)
        /\ 0 \notin host.saved
    BY <1>0, <1>12 DEF Placed, QueueStage, Settled, HostAt, Making
  <2>2. /\ defRx' = defRx /\ ToDo' = ToDo /\ rx'[0] = "active"
    BY <1>1, <1>2, <1>6, <1>7, <2>1, IdFacts DEF Up, ToDo, Taken
  <2>3. Known({host.i})' /\ Up'
    BY <1>1, <1>2, <1>7, <2>1, <2>2 DEF Known, Up
  <2> QED BY <1>0, <1>1, <1>2, <1>3, <1>7, <1>8, <1>9, <1>10, <1>12, <2>1, <2>2, <2>3
          DEF Placed, QueueStage, AttachStage, DestroyStage, Settled, HostAt, Making, Adding,
              AttachingOrNot
<1> QED BY <1>5, <1>11, <1>12

LEMMA RefusedPlaced ==
  ASSUME IInv, Placed, Mail, ~Harm, NEW rc \in {"ok", "fail", "timeout"}, CreateRefused(rc)
  PROVE  IInv' /\ Placed' /\ Mail'
<1>0. host \in HostStates /\ HostAt("creating")
  BY DEF Placed, CtxTyped, CreateRefused, Ended
<1>1. rc = "fail" /\ host.why \in {"attach", "queue"}
  <2>1. host.why \in {"attach", "queue", "reset"}
    BY <1>0 DEF Placed, AttachStage, HostAt, Making, HostStates
  <2>2. rc # "ok"
    BY DEF CreateRefused
  <2>3. rc # "timeout"
    BY DEF Harm
  <2>4. rc = "fail"
    BY <2>2, <2>3
  <2>5. host.why # "reset"
    BY <2>4 DEF Harm
  <2> QED BY <2>1, <2>4, <2>5
<1> DEFINE l == IF host.why = "attach" THEN "free" ELSE "idle"
<1>2. /\ UNCHANGED <<queues, defRx, tx, defTx, up, cardRx, cardTx>>
      /\ FreeRx(host.i) /\ HostGoto(l) /\ Ended("creating", "fail")
      /\ rx \in [Ids -> {"none", "allocated", "active"}]
      /\ rx' = [rx EXCEPT ![host.i] = "none"] /\ active' = active - 1
  BY <1>1 DEF CreateRefused, CreateFails, txVars, cardVars, Placed, CtxTyped, FreeRx
<1>3. /\ host'.pc = l /\ host'.i = host.i /\ host'.why = host.why
      /\ host'.reset = host.reset /\ host'.saved = host.saved /\ host'.todo = host.todo
  BY <1>0, <1>2, AfterGoto
<1>4. l = (IF host.why = "attach" THEN "free" ELSE "idle") /\ host' = [host EXCEPT !.pc = l]
  BY <1>2 DEF HostGoto
<1> HIDE DEF l
<1>5. host' \in HostStates
  <2>1. l \in HostPlaces
    BY <1>4 DEF HostPlaces
  <2> QED BY <1>0, <1>4, <2>1 DEF HostStates
<1>6. host.i \in Taken /\ host.i \in Ids
  BY <1>0, <1>1, IdFacts DEF Placed, QueueStage, AttachStage, HostAt, Making, Taken
<1>7. Taken' = Taken \ {host.i}
  BY <1>2, <1>6, TakenLess
<1>8. \A j \in Taken' : rx'[j] = "active"
  <2>1. \A j \in Taken : j # host.i => rx[j] = "active"
    BY DEF Placed, Settled
  <2> QED BY <1>2, <1>6, <1>7, <2>1 DEF Taken
<1>9. host.i \notin cardRx
  BY <1>2, EndedTrue
<1>10. CtxTyped'
  BY <1>2, <1>5 DEF Placed, CtxTyped
<1>11. DefaultsLive' /\ CardBacked'
  <2>1. active = Cardinality(Taken) /\ defRx \in Ids \cup {NoCtx}
        /\ (defRx # NoCtx => rx[defRx] = "active") /\ rx[host.i] = "allocated"
    BY <1>0, <1>6 DEF Placed, DefaultsLive, Settled, HostAt, Making, CtxTyped, Taken
  <2>2. active' = Cardinality(Taken')
    BY <1>2, <1>6, <1>7, <2>1, TakenCount, FS_RemoveElement
  <2>3. defRx' # NoCtx => rx'[defRx'] = "active"
    BY <1>2, <1>6, <2>1
  <2>4. cardRx' \subseteq Taken'
    BY <1>2, <1>7, <1>9 DEF Placed, CardBacked, Taken
  <2> QED BY <1>2, <2>2, <2>3, <2>4 DEF Placed, DefaultsLive, CardBacked, Taken
<1>12. IInv' /\ Mail'
  <2>1. host.pc \in Commanding /\ host'.pc \notin Commanding /\ host'.pc # "dma"
    BY <1>0, <1>3, <1>4 DEF Commanding, HostAt
  <2> QED BY <1>2, <2>1, EndedTrue, ReturnMail
<1>13. CASE host.why = "attach"
  <2>1. /\ ~up /\ host.i = 0 /\ Taken = {0} /\ defRx = NoCtx /\ NoTx
        /\ IF host.reset THEN 0 \notin queues ELSE queues = {}
        /\ 0 \notin host.saved
    BY <1>0, <1>13 DEF Placed, AttachStage, Settled, AttachingOrNot, HostAt, Making
  <2>2. Taken' = {} /\ cardRx' = {}
    BY <1>7, <1>11, <2>1 DEF CardBacked, Taken
  <2> QED BY <1>0, <1>2, <1>3, <1>4, <1>8, <1>10, <1>11, <1>12, <1>13, <2>1, <2>2
          DEF Placed, QueueStage, AttachStage, DestroyStage, Settled, HostAt, Making, Adding,
              AttachingOrNot, NoTx
<1>14. CASE host.why = "queue"
  <2>1. /\ Up /\ ~host.reset /\ queues = Taken \ {0, host.i} /\ host.i # 0
        /\ 0 \notin host.saved
    BY <1>0, <1>14 DEF Placed, QueueStage, Settled, HostAt, Making, Known
  <2>2. Up' /\ Known({})'
    BY <1>2, <1>3, <1>6, <1>7, <2>1, IdFacts DEF Up, Known
  <2> QED BY <1>0, <1>2, <1>3, <1>4, <1>8, <1>10, <1>11, <1>12, <1>14, <2>1, <2>2
          DEF Placed, QueueStage, AttachStage, DestroyStage, Settled, HostAt, Making, Adding,
              AttachingOrNot
<1> QED BY <1>1, <1>13, <1>14

LEMMA TxEndsPlaced ==
  ASSUME IInv, Placed, Mail, ~Harm,
         TxOk \/ (\E rc \in {"ok", "fail", "timeout"} : TxRefused(rc))
  PROVE  IInv' /\ Placed' /\ Mail'
<1>0. host \in HostStates /\ HostAt("txing")
  BY DEF Placed, CtxTyped, TxOk, TxRefused, Ended
<1>1. UNCHANGED <<rx, active, queues, defRx, up, cardRx, cardTx>>
  BY DEF TxOk, TxRefused, table, cardVars
<1>2. Taken' = Taken
  BY <1>1, TakenSame
<1>3. /\ ~up /\ Taken = {0} /\ defRx = 0 /\ host.why = "attach" /\ ~defTx
      /\ IF host.reset THEN 0 \notin queues ELSE queues = {}
      /\ 0 \notin host.saved
      /\ \A j \in Taken : rx[j] = "active"
  BY <1>0 DEF Placed, AttachStage, Settled, AttachingOrNot, HostAt, Making
<1>4. ASSUME TxOk PROVE IInv' /\ Placed' /\ Mail'
  <2>1. tx' = "active" /\ defTx' = TRUE /\ HostGoto("rest") /\ Ended("txing", "ok")
    BY <1>4 DEF TxOk
  <2>2. /\ host'.pc = "rest" /\ host'.i = host.i /\ host'.why = host.why
        /\ host'.reset = host.reset /\ host'.saved = host.saved
    BY <1>0, <2>1, AfterGoto
  <2>3. host' \in HostStates
    <3>1. "rest" \in HostPlaces
      BY DEF HostPlaces
    <3> QED BY <1>0, <2>1, <3>1 DEF HostStates, HostGoto
  <2>4. CtxTyped' /\ DefaultsLive' /\ CardBacked'
    BY <1>1, <2>1, <2>3 DEF Placed, CtxTyped, DefaultsLive, CardBacked
  <2>5. IInv' /\ Mail'
    <3>1. host.pc \in Commanding /\ host'.pc \notin Commanding /\ host'.pc # "dma"
      BY <1>0, <2>2 DEF Commanding, HostAt
    <3> QED BY <2>1, <3>1, EndedTrue, ReturnMail
  <2> QED BY <1>1, <1>2, <1>3, <2>1, <2>2, <2>4, <2>5
          DEF Placed, QueueStage, AttachStage, DestroyStage, Settled, HostAt, Making, Adding,
              AttachingOrNot
<1>5. ASSUME NEW rc \in {"ok", "fail", "timeout"}, TxRefused(rc) PROVE IInv' /\ Placed' /\ Mail'
  <2>1. rc = "fail"
    <3>1. rc # "ok"
      BY <1>5 DEF TxRefused
    <3>2. rc # "timeout"
      BY <1>5 DEF Harm
    <3> QED BY <3>1, <3>2
  <2>2. tx' = "none" /\ Undo /\ defTx' = defTx /\ Ended("txing", "fail")
    BY <1>5, <2>1 DEF TxRefused
  <2>3. /\ host'.pc = "destroy" /\ host'.i = 0 /\ host'.fw = TRUE /\ host'.why = host.why
        /\ host'.reset = host.reset /\ host'.saved = host.saved
    BY <1>0, <2>2 DEF Undo, HostStates
  <2>4. host' \in HostStates
    <3>1. "destroy" \in HostPlaces
      BY DEF HostPlaces
    <3> QED BY <1>0, <2>2, <3>1, HostDetaches DEF Undo
  <2>5. ~cardTx
    BY <2>2, EndedTrue
  <2>6. CtxTyped' /\ DefaultsLive' /\ CardBacked'
    BY <1>1, <1>3, <2>2, <2>4, <2>5 DEF Placed, CtxTyped, DefaultsLive, CardBacked
  <2>7. IInv' /\ Mail'
    <3>1. host.pc \in Commanding /\ host'.pc \notin Commanding /\ host'.pc # "dma"
      BY <1>0, <2>3 DEF Commanding, HostAt
    <3> QED BY <2>2, <3>1, EndedTrue, ReturnMail
  <2> QED BY <1>1, <1>2, <1>3, <2>2, <2>3, <2>6, <2>7
          DEF Placed, QueueStage, AttachStage, DestroyStage, Settled, HostAt, Making, Adding,
              AttachingOrNot, NoTx
<1> QED BY <1>4, <1>5

LEMMA MtuEndsPlaced ==
  ASSUME IInv, Placed, Mail, NEW rc, QueueMtuEnd(rc)
  PROVE  IInv' /\ Placed' /\ Mail'
<1>0. host \in HostStates /\ HostAt("mtuing")
  BY DEF Placed, CtxTyped, QueueMtuEnd, Ended
<1>1. /\ UNCHANGED <<rx, active, queues, defRx, tx, defTx, up, cardRx, cardTx>>
      /\ HostGoto("irq") /\ Ended("mtuing", rc)
  BY DEF QueueMtuEnd, table, txVars, cardVars
<1>2. Taken' = Taken
  BY <1>1, TakenSame
<1>3. /\ host'.pc = "irq" /\ host'.i = host.i /\ host'.why = host.why
      /\ host'.reset = host.reset /\ host'.saved = host.saved /\ host'.todo = host.todo
  BY <1>0, <1>1, AfterGoto
<1>4. host' \in HostStates
  <2>1. "irq" \in HostPlaces
    BY DEF HostPlaces
  <2> QED BY <1>0, <1>1, <2>1 DEF HostStates, HostGoto
<1>5. CtxTyped' /\ DefaultsLive' /\ CardBacked'
  BY <1>1, <1>4 DEF Placed, CtxTyped, DefaultsLive, CardBacked
<1>6. /\ Up => Up'
      /\ Known({host.i}) => Known({host.i})'
      /\ ToDo' = ToDo
  BY <1>1, <1>2, <1>3 DEF Up, Known, ToDo
<1>7. QueueStage' /\ AttachStage' /\ DestroyStage'
  BY <1>0, <1>1, <1>2, <1>3, <1>6
  DEF Placed, QueueStage, AttachStage, DestroyStage, HostAt, Making, Adding
<1>8. Settled'
  BY <1>0, <1>1, <1>2, <1>3 DEF Placed, Settled, HostAt, Making, AttachingOrNot
<1>9. ~OfContexts(caller[Host].op)
  <2>1. host.pc \in Commanding
    BY <1>0 DEF Commanding, HostAt
  <2>2. caller[Host].op = SetMtu(host.i)
    BY <1>0, <2>1 DEF Mail, Ours, HostOp
  <2> QED BY <2>2 DEF SetMtu, OfContexts
<1>10. IInv' /\ Mail'
  <2>1. host.pc \in Commanding /\ host'.pc \notin Commanding /\ host'.pc # "dma"
    BY <1>0, <1>3 DEF Commanding, HostAt
  <2> QED BY <1>1, <1>9, <2>1, EndedTrue, ReturnMail
<1> QED BY <1>5, <1>7, <1>8, <1>10 DEF Placed

LEMMA FreedPlaced ==
  ASSUME IInv, Placed, Mail, ~Harm, NEW rc \in {"ok", "fail", "timeout"}, QueueFreed(rc)
  PROVE  IInv' /\ Placed' /\ Mail'
<1>0. host \in HostStates /\ HostAt("freeing")
  BY DEF Placed, CtxTyped, QueueFreed, Ended
<1>1. rc = "ok"
  BY DEF Harm
<1>2. /\ UNCHANGED <<tx, defTx, up, cardRx, cardTx>>
      /\ defRx' = Undefault(host.i) /\ FreeRx(host.i) /\ queues' = queues \ {host.i}
      /\ HostGoto("idle") /\ Ended("freeing", "ok")
      /\ rx \in [Ids -> {"none", "allocated", "active"}]
      /\ rx' = [rx EXCEPT ![host.i] = "none"] /\ active' = active - 1
  BY <1>1 DEF QueueFreed, txVars, cardVars, Placed, CtxTyped, FreeRx
<1>3. /\ host'.pc = "idle" /\ host'.i = host.i /\ host'.why = host.why
      /\ host'.reset = host.reset /\ host'.saved = host.saved
  BY <1>0, <1>2, AfterGoto
<1>4. host' \in HostStates
  <2>1. "idle" \in HostPlaces
    BY DEF HostPlaces
  <2> QED BY <1>0, <1>2, <2>1 DEF HostStates, HostGoto
<1>5. /\ ~host.reset /\ queues = Taken \ {0} /\ Up /\ host.i \in queues /\ host.i \in Taken
      /\ host.i \in Ids /\ 0 \notin host.saved
      /\ \A j \in Taken : rx[j] = "active"
  BY <1>0 DEF Placed, QueueStage, Settled, HostAt, Making, Known, Taken
<1>6. Taken' = Taken \ {host.i}
  BY <1>2, <1>5, TakenLess
<1>7. \A j \in Taken' : rx'[j] = "active"
  BY <1>2, <1>5, <1>6 DEF Taken
<1>8. defRx' = 0 /\ host.i # 0 /\ rx'[0] = "active"
  BY <1>2, <1>5, IdFacts DEF Up, Undefault
<1>9. host.i \notin cardRx
  BY <1>2, EndedTrue
<1>10. CtxTyped'
  BY <1>2, <1>4, <1>8, IdFacts DEF Placed, CtxTyped
<1>11. DefaultsLive' /\ CardBacked'
  <2>1. active = Cardinality(Taken)
    BY DEF Placed, DefaultsLive, Taken
  <2>2. active' = Cardinality(Taken')
    BY <1>2, <1>5, <1>6, <2>1, TakenCount, FS_RemoveElement
  <2>3. cardRx' \subseteq Taken'
    BY <1>2, <1>6, <1>9 DEF Placed, CardBacked, Taken
  <2> QED BY <1>2, <1>8, <2>2, <2>3 DEF Placed, DefaultsLive, CardBacked, Taken
<1>12. IInv' /\ Mail'
  <2>1. host.pc \in Commanding /\ host'.pc \notin Commanding /\ host'.pc # "dma"
    BY <1>0, <1>3 DEF Commanding, HostAt
  <2> QED BY <1>2, <2>1, EndedTrue, ReturnMail
<1>13. Up' /\ Known({})'
  BY <1>2, <1>3, <1>5, <1>6, <1>8 DEF Up, Known
<1> QED BY <1>2, <1>3, <1>5, <1>7, <1>10, <1>11, <1>12, <1>13
        DEF Placed, QueueStage, AttachStage, DestroyStage, Settled, HostAt, Making, Adding,
            AttachingOrNot

LEMMA DestroyEndsPlaced ==
  ASSUME IInv, Placed, Mail, ~Harm, NEW rc \in {"ok", "fail", "timeout"},
         DestroyEnd(rc) \/ DestroyTxEnd(rc)
  PROVE  IInv' /\ Placed' /\ Mail'
<1>0. host \in HostStates /\ host.pc \in {"destroying", "txdestroying"} /\ rc = "ok"
  BY DEF Placed, CtxTyped, DestroyEnd, DestroyTxEnd, Ended, Harm, HostAt
<1>1. UNCHANGED <<rx, active, queues, up, cardRx, cardTx>>
  BY DEF DestroyEnd, Destroyed, DestroyTxEnd, table, txVars, cardVars
<1>2. Taken' = Taken
  BY <1>1, TakenSame
<1>3. /\ Taken = {0} /\ host.fw /\ 0 \notin host.saved
      /\ IF host.reset THEN 0 \notin queues ELSE queues = {}
      /\ \A j \in Taken : rx[j] = "active"
  BY <1>0 DEF Placed, DestroyStage, Settled, AttachingOrNot, HostAt, Making
<1>4. CASE DestroyEnd(rc)
  <2>1. /\ Ended("destroying", "ok") /\ HostAt("destroying")
        /\ defRx' = Undefault(host.i) /\ UNCHANGED <<tx, defTx>>
        /\ host' = [host EXCEPT !.pc = "destroy", !.i = host.i + 1]
    BY <1>0, <1>4 DEF DestroyEnd, Destroyed, Ended, txVars
  <2>2. host.i = 0 /\ defRx = 0 /\ (tx = "active" \/ NoTx) /\ cardRx = {}
    <3>1. host.i = 0 /\ defRx = 0 /\ (tx = "active" \/ NoTx)
      BY <2>1 DEF Placed, DestroyStage
    <3>2. 0 \notin cardRx
      BY <2>1, <3>1, EndedTrue
    <3> QED BY <1>3, <3>1, <3>2 DEF Placed, CardBacked, Taken
  <2>3. /\ host'.pc = "destroy" /\ host'.i = 1 /\ host'.why = host.why
        /\ host'.reset = host.reset /\ host'.saved = host.saved /\ host'.fw = host.fw
        /\ host' \in HostStates
    <3>1. "destroy" \in HostPlaces
      BY DEF HostPlaces
    <3>2. host' = [host EXCEPT !.pc = "destroy", !.i = 1]
      BY <2>1, <2>2
    <3> QED BY <1>0, <3>1, <3>2 DEF HostStates
  <2>4. defRx' = NoCtx
    BY <2>1, <2>2 DEF Undefault
  <2>5. CtxTyped' /\ DefaultsLive' /\ CardBacked'
    BY <1>1, <2>1, <2>3, <2>4 DEF Placed, CtxTyped, DefaultsLive, CardBacked
  <2>6. IInv' /\ Mail'
    <3>1. host.pc \in Commanding /\ host'.pc \notin Commanding /\ host'.pc # "dma"
      BY <1>0, <2>3 DEF Commanding
    <3> QED BY <2>1, <3>1, EndedTrue, ReturnMail
  <2> QED BY <1>1, <1>2, <1>3, <2>1, <2>2, <2>3, <2>4, <2>5, <2>6
          DEF Placed, QueueStage, AttachStage, DestroyStage, Settled, HostAt, Making, Adding,
              AttachingOrNot, NoTx
<1>5. CASE DestroyTxEnd(rc)
  <2>1. /\ Ended("txdestroying", "ok") /\ HostAt("txdestroying")
        /\ tx' = "none" /\ defTx' = FALSE /\ HostGoto("free") /\ defRx' = defRx
    BY <1>0, <1>5 DEF DestroyTxEnd, Ended, table
  <2>2. ~cardTx /\ cardRx = {} /\ defRx = NoCtx
    BY <2>1, EndedTrue DEF Placed, DestroyStage
  <2>3. /\ host'.pc = "free" /\ host'.i = host.i /\ host'.why = host.why
        /\ host'.reset = host.reset /\ host'.saved = host.saved
    BY <1>0, <2>1, AfterGoto
  <2>4. host' \in HostStates
    <3>1. "free" \in HostPlaces
      BY DEF HostPlaces
    <3> QED BY <1>0, <2>1, <3>1 DEF HostStates, HostGoto
  <2>5. CtxTyped' /\ DefaultsLive' /\ CardBacked'
    BY <1>1, <2>1, <2>2, <2>4 DEF Placed, CtxTyped, DefaultsLive, CardBacked
  <2>6. IInv' /\ Mail'
    <3>1. host.pc \in Commanding /\ host'.pc \notin Commanding /\ host'.pc # "dma"
      BY <1>0, <2>3 DEF Commanding
    <3> QED BY <2>1, <3>1, EndedTrue, ReturnMail
  <2> QED BY <1>1, <1>2, <1>3, <2>1, <2>2, <2>3, <2>5, <2>6
          DEF Placed, QueueStage, AttachStage, DestroyStage, Settled, HostAt, Making, Adding,
              AttachingOrNot, NoTx
<1> QED BY <1>4, <1>5

-----------------------------------------------------------------------------
(* What the mailbox does for the thread.                                   *)

\* A command about contexts is not one whose result is read.
LEMMA AfterOurs ==
  ASSUME NEW o, NEW rc, OfContexts(o)
  PROVE  AfterIssue(o, rc) \in {"free", "done"}
BY OpFacts DEF AfterIssue

LEMMA CommandStep ==
  ASSUME TypeOK, NEW c \in Callers, Command(c)
  PROVE  /\ ~At(c, "idle") /\ caller'[c].op = caller[c].op /\ caller'[c].pc # "idle"
         /\ \A d \in Callers \ {c} : caller'[d] = caller[d]
         /\ card' = card
<1>0. /\ caller \in [Callers -> CallerStates]
      /\ \A o, rc : AfterIssue(o, rc) \in {"read", "free", "done"}
  BY DEF TypeOK, AfterIssue
<1>1. CASE Lock(c) \/ LockBusy(c)
  BY <1>0, <1>1 DEF Lock, LockBusy, Goto, At, CallerStates
<1>2. CASE WriteSign(c) \/ WriteArgs(c) \/ WriteCmd(c)
  BY <1>0, <1>2 DEF WriteSign, WriteArgs, WriteCmd, Goto, At, CallerStates
<1>3. CASE PollTimeout(c) \/ PollAgain(c) \/ PollAnswered(c)
  BY <1>0, <1>3 DEF PollTimeout, PollAgain, PollAnswered, At, CallerStates
<1>4. CASE ReadCode(c) \/ Unlock(c) \/ ReadResult(c) \/ FreeArea(c)
  BY <1>0, <1>4 DEF ReadCode, Unlock, ReadResult, FreeArea, Goto, At, CallerStates
<1> QED BY <1>1, <1>2, <1>3, <1>4 DEF Command

\* The thread's own steps, with a command about contexts.
LEMMA HostCommand ==
  ASSUME TypeOK, Sound, Mail, ~(late /\ At(Host, "poll")), Command(Host),
         OfContexts(caller[Host].op)
  PROVE  /\ caller'[Host].pc # "read"
         /\ Unanswered'
         /\ AnsweredAs("ok")' => AnsweredAs("ok")
         /\ AnsweredAs("ok") \/ AnsweredAs("timeout")
              => AnsweredAs("ok")' \/ AnsweredAs("timeout")'
<1>0. /\ Host \in Callers /\ caller \in [Callers -> CallerStates]
      /\ \A rc : AfterIssue(caller[Host].op, rc) \in {"free", "done"}
      /\ caller[Host].pc # "read"
  BY AfterOurs, CommandStep, ContextsAssumption DEF TypeOK, Mail, Ours, At
<1>1. Unanswered
  BY DEF Mail
<1>2. CASE Lock(Host) \/ LockBusy(Host)
  BY <1>0, <1>1, <1>2
  DEF Lock, LockBusy, Goto, At, CallerStates, Unanswered, Waiting, AnsweredAs, regs
<1>3. CASE WriteSign(Host) \/ WriteArgs(Host) \/ WriteCmd(Host)
  BY <1>0, <1>1, <1>3
  DEF WriteSign, WriteArgs, WriteCmd, Goto, At, CallerStates, Unanswered, Waiting, AnsweredAs
<1>4. CASE PollTimeout(Host) \/ PollAgain(Host)
  BY <1>0, <1>1, <1>4
  DEF PollTimeout, PollAgain, At, CallerStates, Unanswered, Waiting, AnsweredAs, Answered, regs
<1>5. CASE PollAnswered(Host)
  <2>1. card = Idle /\ cdrp.what # "cmd"
    BY <1>5 DEF PollAnswered, Sound, CardSound, Answered
  <2> QED BY <1>0, <1>5, <2>1
          DEF PollAnswered, At, CallerStates, Unanswered, AnsweredAs, regs
<1>6. CASE ReadCode(Host) \/ Unlock(Host) \/ ReadResult(Host) \/ FreeArea(Host)
  BY <1>0, <1>1, <1>6
  DEF ReadCode, Unlock, ReadResult, FreeArea, Goto, At, CallerStates, Unanswered, Waiting,
      AnsweredAs, regs
<1> QED BY <1>2, <1>3, <1>4, <1>5, <1>6 DEF Command

\* The registers when another caller goes on, or the thread with its MTU command.
LEMMA OtherCommand ==
  ASSUME TypeOK, Mail, NEW c \in Callers, Command(c), ~OfContexts(caller[c].op)
  PROVE  Unanswered'
<1>0. Unanswered /\ caller \in [Callers -> CallerStates] /\ card' = card
  BY CommandStep DEF Mail, TypeOK
<1>1. CASE c # Host
  <2>1. caller'[Host] = caller[Host]
    BY <1>1, CommandStep, ContextsAssumption
  <2>2. cdrp' = cdrp \/ cdrp'.op = caller[c].op
    <3>1. WriteCmd(c) => cdrp'.op = caller[c].op
      BY DEF WriteCmd
    <3>2. ~WriteCmd(c) => cdrp' = cdrp
      BY DEF Command, Lock, LockBusy, WriteSign, WriteArgs, PollTimeout, PollAgain,
             PollAnswered, ReadCode, Unlock, ReadResult, FreeArea, regs
    <3> QED BY <3>1, <3>2
  <2> QED BY <1>0, <2>1, <2>2 DEF Unanswered, Waiting, At
<1>2. CASE c = Host
  <2>1. /\ ~(card # Idle /\ OfContexts(card.op))
        /\ ~(cdrp.what = "cmd" /\ OfContexts(cdrp.op))
    BY <1>0, <1>2 DEF Unanswered, Waiting
  <2>2. cdrp' = cdrp \/ cdrp'.op = caller[c].op
    <3>1. WriteCmd(c) => cdrp'.op = caller[c].op
      BY DEF WriteCmd
    <3>2. ~WriteCmd(c) => cdrp' = cdrp
      BY DEF Command, Lock, LockBusy, WriteSign, WriteArgs, PollTimeout, PollAgain,
             PollAnswered, ReadCode, Unlock, ReadResult, FreeArea, regs
    <3> QED BY <3>1, <3>2
  <2> QED BY <1>0, <2>1, <2>2 DEF Unanswered
<1> QED BY <1>1, <1>2

LEMMA CommandMail ==
  ASSUME IInv, Mail, ~(late /\ At(Host, "poll")), NEW c \in Callers, Command(c),
         UNCHANGED ctxVars
  PROVE  Mail'
<1>0. /\ TypeOK /\ Exclusive /\ Sound /\ Ours /\ CardTrue /\ Host \in Callers
      /\ UNCHANGED <<host, cardRx, cardTx>>
  BY ContextsAssumption DEF IInv, Mail, ctxVars, cardVars
<1>1. CASE c = Host
  <2>1. /\ host.pc \in Commanding /\ HostOp /\ ~At(Host, "idle")
        /\ caller'[Host].op = caller[Host].op /\ caller'[Host].pc # "idle"
        /\ \A d \in Callers \ {Host} : caller'[d] = caller[d]
    BY <1>0, <1>1, CommandStep DEF Ours
  <2>2. HostOp'
    BY <1>0, <2>1 DEF HostOp, HostAt
  <2>3. CASE OfContexts(caller[Host].op)
    <3>1. Ours'
      BY <1>0, <1>1, <2>1, <2>2, <2>3, HostCommand DEF Ours, At
    <3>2. CardTrue'
      <4>1. host.pc # "dma"
        BY <2>1 DEF Commanding
      <4> QED BY <1>0, <1>1, <2>3, <4>1, HostCommand DEF CardTrue, HostAt
    <3> QED BY <1>0, <1>1, <2>3, <3>1, <3>2, HostCommand DEF Mail
  <2>4. CASE ~OfContexts(caller[Host].op)
    <3>1. host.pc = "mtuing"
      <4>1. /\ OfContexts(CreateRx(host.i)) /\ OfContexts(CreateTx)
            /\ OfContexts(DestroyRx(host.i)) /\ OfContexts(DestroyTx)
        BY DEF OfContexts, CreateRx, CreateTx, DestroyRx, DestroyTx
      <4> QED BY <2>1, <2>4, <4>1 DEF HostOp, HostAt, Commanding
    <3>2. Ours'
      BY <1>0, <2>1, <2>2, <2>4 DEF Ours, At
    <3>3. CardTrue'
      BY <1>0, <3>1 DEF CardTrue, HostAt
    <3> QED BY <1>0, <1>1, <2>4, <3>2, <3>3, OtherCommand DEF Mail
  <2> QED BY <2>3, <2>4
<1>2. CASE c # Host
  <2>1. /\ ~At(c, "idle") /\ caller'[c].op = caller[c].op
        /\ \A d \in Callers \ {c} : caller'[d] = caller[d]
    BY <1>0, CommandStep
  <2>2. caller[c].op \in Queries \cup Limits /\ ~OfContexts(caller[c].op)
    BY <1>0, <1>2, <2>1, OpFacts DEF Ours
  <2>3. caller'[Host] = caller[Host]
    BY <1>0, <1>2, <2>1
  <2>4. Ours'
    BY <1>0, <2>1, <2>2, <2>3 DEF Ours, HostOp, HostAt, At
  <2>5. At(Host, "poll") => cdrp' = cdrp
    <3>1. WriteCmd(c) => c \in Inside
      BY DEF WriteCmd, Inside, At
    <3>2. At(Host, "poll") => Host \in Inside
      BY <1>0 DEF Inside, At
    <3>3. ~WriteCmd(c) => cdrp' = cdrp
      BY DEF Command, Lock, LockBusy, WriteSign, WriteArgs, PollTimeout, PollAgain,
             PollAnswered, ReadCode, Unlock, ReadResult, FreeArea, regs
    <3> QED BY <1>0, <1>2, <3>1, <3>2, <3>3 DEF Exclusive
  <2>6. CardTrue'
    <3>1. \A rc : AnsweredAs(rc)' <=> AnsweredAs(rc)
      BY <2>3, <2>5 DEF AnsweredAs, At
    <3> QED BY <1>0, <3>1 DEF CardTrue, HostAt
  <2> QED BY <1>0, <2>2, <2>4, <2>6, OtherCommand DEF Mail
<1> QED BY <1>1, <1>2

\* The other callers begin and end.
LEMMA OthersMail ==
  ASSUME IInv, Mail, OtherIssues \/ OtherReturns
  PROVE  Mail'
<1>0. /\ Host \in Callers /\ caller \in [Callers -> CallerStates]
      /\ Ours /\ Unanswered /\ CardTrue
  BY ContextsAssumption DEF IInv, TypeOK, Mail
<1>1. /\ UNCHANGED <<host, cardRx, cardTx, card, cdrp>>
      /\ caller'[Host] = caller[Host]
      /\ \A d \in Callers \ {Host} :
           caller'[d] = caller[d] \/ caller'[d].pc = "idle" \/ caller'[d].op \in Queries \cup Limits
  <2>1. ASSUME NEW c \in Callers \ {Host}, NEW o \in Queries \cup Limits, Issue(c, o)
        PROVE  /\ UNCHANGED <<card, cdrp>> /\ caller'[c].op = o
               /\ \A d \in Callers \ {c} : caller'[d] = caller[d]
    BY <1>0, <2>1 DEF Issue, Resting, regs
  <2>2. ASSUME NEW c \in Callers \ {Host}, Return(c)
        PROVE  /\ UNCHANGED <<card, cdrp>> /\ caller'[c].pc = "idle"
               /\ \A d \in Callers \ {c} : caller'[d] = caller[d]
    BY <1>0, <2>2 DEF Return, Resting, regs
  <2>3. UNCHANGED <<host, cardRx, cardTx>>
    BY DEF OtherIssues, OtherReturns, ctxVars, cardVars
  <2>4. CASE OtherIssues
    BY <1>0, <2>1, <2>3, <2>4 DEF OtherIssues
  <2>5. CASE OtherReturns
    BY <1>0, <2>2, <2>3, <2>5 DEF OtherReturns
  <2> QED BY <2>4, <2>5
<1>2. Ours'
  BY <1>0, <1>1 DEF Ours, HostOp, HostAt, At
<1>3. Unanswered'
  BY <1>0, <1>1 DEF Unanswered, Waiting, At
<1>4. CardTrue'
  BY <1>0, <1>1 DEF CardTrue, HostAt, AnsweredAs, At
<1> QED BY <1>2, <1>3, <1>4 DEF Mail

-----------------------------------------------------------------------------
(* The card.                                                               *)

LEMMA TakeMail ==
  ASSUME Mail, CardTake, UNCHANGED ctxVars
  PROVE  Mail'
<1>0. /\ UNCHANGED <<host, cardRx, cardTx, cdrp, caller>> /\ card'.op = cdrp.op
      /\ cdrp.what = "cmd"
  BY DEF CardTake, ctxVars, cardVars, regs
<1>1. Ours'
  BY <1>0 DEF Mail, Ours, HostOp, HostAt, At
<1>2. Unanswered'
  BY <1>0 DEF Mail, Unanswered, Waiting, At
<1>3. CardTrue'
  BY <1>0 DEF Mail, CardTrue, HostAt, AnsweredAs, At
<1> QED BY <1>1, <1>2, <1>3 DEF Mail

\* As long as the thread waits, the card works on the thread's command.
LEMMA CardOfHost ==
  ASSUME IInv, ~late, At(Host, "poll"), card # Idle
  PROVE  cdrp.what = "cmd" /\ card.op = caller[Host].op
BY ContextsAssumption
DEF IInv, Sound, CommandSound, CardSound, CallerSound

\* Only what the card has changes.
LEMMA CardPlaced ==
  ASSUME Placed, UNCHANGED <<rx, active, queues, defRx, tx, defTx, up, host>>,
         cardRx' \subseteq Taken, cardTx' \in BOOLEAN, cardTx' => tx # "none", DestroyStage'
  PROVE  Placed'
<1>1. Taken' = Taken
  BY TakenSame
<1>2. CtxTyped' /\ DefaultsLive' /\ CardBacked'
  BY <1>1 DEF Placed, CtxTyped, DefaultsLive, CardBacked, Taken
<1>3. QueueStage'
  <2>1. /\ Up' <=> Up
    BY DEF Up
  <2>2. Down' <=> Down
    BY <1>1 DEF Down, NoTx
  <2>3. \A S : Known(S)' <=> Known(S)
    BY <1>1 DEF Known
  <2>4. ToDo' = ToDo
    BY <1>1 DEF ToDo
  <2> QED BY <1>1, <2>1, <2>2, <2>3, <2>4 DEF Placed, QueueStage, HostAt
<1>4. AttachStage'
  BY <1>1 DEF Placed, AttachStage, HostAt, Down, NoTx
<1>5. Settled'
  BY <1>1 DEF Placed, Settled, HostAt, AttachingOrNot
<1> QED BY <1>2, <1>3, <1>4, <1>5 DEF Placed

\* The card has done something that is not about contexts.
LEMMA DoesOther ==
  ASSUME IInv, Placed, Mail, ~(late /\ At(Host, "poll")), NEW ok \in BOOLEAN, CardDoes(ok),
         ~OfContexts(card.op)
  PROVE  Placed' /\ Mail'
<1>0. /\ UNCHANGED <<rx, active, queues, defRx, tx, defTx, up, host, caller>>
      /\ card # Idle /\ card' = Idle /\ cdrp'.what # "cmd"
  BY DEF CardDoes, CardAnswer, table, txVars
<1>1. UNCHANGED <<cardRx, cardTx>>
  <2>1. /\ card.op.cmd # "create_rx" /\ card.op.cmd # "destroy_rx"
        /\ card.op \notin {CreateTx, DestroyTx}
    BY OpFacts DEF OfContexts
  <2> QED BY <2>1 DEF CardDoes
<1>2. Placed'
  <2>1. cardRx \subseteq Taken /\ cardTx \in BOOLEAN /\ (cardTx => tx # "none")
    BY DEF Placed, CtxTyped, CardBacked, Taken
  <2>2. DestroyStage'
    BY <1>0, <1>1, TakenSame DEF Placed, DestroyStage, HostAt, NoTx
  <2> QED BY <1>0, <1>1, <2>1, <2>2, CardPlaced
<1>3. Ours' /\ Unanswered'
  BY <1>0 DEF Mail, Ours, HostOp, HostAt, At, Unanswered
<1>4. CardTrue'
  <2>1. CASE At(Host, "poll")
    <3>1. ~OfContexts(caller[Host].op)
      BY <1>0, <2>1, CardOfHost
    <3>2. HostOp
      BY <2>1 DEF Mail, Ours, At
    <3>3. /\ OfContexts(CreateRx(host.i)) /\ OfContexts(CreateTx)
          /\ OfContexts(DestroyRx(host.i)) /\ OfContexts(DestroyTx)
      BY DEF OfContexts, CreateRx, CreateTx, DestroyRx, DestroyTx
    <3>4. host.pc \notin {"creating", "txing", "freeing", "destroying", "txdestroying"}
      BY <3>1, <3>2, <3>3 DEF HostOp, HostAt
    <3> QED BY <1>0, <1>1, <3>4 DEF Mail, CardTrue, HostAt
  <2>2. CASE ~At(Host, "poll")
    <3>1. \A rc : AnsweredAs(rc)' <=> AnsweredAs(rc)
      BY <1>0, <2>2 DEF AnsweredAs, At
    <3> QED BY <1>0, <1>1, <3>1 DEF Mail, CardTrue, HostAt
  <2> QED BY <2>1, <2>2
<1> QED BY <1>2, <1>3, <1>4 DEF Mail

\* The card has carried out, or refused, the thread's command, which the thread may
\* have given up a moment ago.
LEMMA DoesOurs ==
  ASSUME IInv, Placed, Mail, ~(late /\ At(Host, "poll")), NEW ok \in BOOLEAN, CardDoes(ok),
         OfContexts(card.op)
  PROVE  Placed' /\ Mail'
<1> DEFINE o == card.op
<1>0. /\ UNCHANGED <<rx, active, queues, defRx, tx, defTx, up, host, caller>>
      /\ card # Idle /\ card' = Idle /\ cdrp'.what = (IF ok THEN "ok" ELSE "fail")
      /\ cardRx' = CASE ok /\ o.cmd = "create_rx" -> cardRx \cup {o.id}
                     [] ok /\ o.cmd = "destroy_rx" -> cardRx \ {o.id}
                     [] OTHER -> cardRx
      /\ cardTx' = IF ok /\ o \in {CreateTx, DestroyTx} THEN o = CreateTx ELSE cardTx
  BY DEF CardDoes, CardAnswer, table, txVars
<1>1. Waiting(o) /\ caller[Host].op = o
  BY <1>0 DEF Mail, Unanswered, Waiting
<1>2. host.pc \in Commanding /\ HostOp /\ Ours
  BY <1>1 DEF Mail, Ours, Waiting, At
<1>3. At(Host, "poll") => cdrp.what = "cmd"
  BY <1>0, CardOfHost
<1>4. /\ AnsweredAs("ok")' => ok
      /\ ok => AnsweredAs("ok")' \/ AnsweredAs("timeout")'
      /\ AnsweredAs("ok") \/ AnsweredAs("timeout") => AnsweredAs("timeout")'
  BY <1>0, <1>1, <1>3 DEF AnsweredAs, Waiting, At
<1>5. Ours' /\ Unanswered'
  BY <1>0, <1>2 DEF Ours, HostOp, HostAt, At, Unanswered
<1>6. cardRx \subseteq Taken /\ cardTx \in BOOLEAN /\ (cardTx => tx # "none") /\ CardTrue
  BY DEF Placed, CtxTyped, CardBacked, Taken, Mail
<1>7. /\ OfContexts(o) /\ Taken' = Taken
      /\ host.pc # "dma"
  BY <1>0, <1>2, TakenSame DEF Commanding
<1> HIDE DEF o
<1>8. CASE host.pc = "creating"
  <2>1. o.cmd = "create_rx" /\ o.id = host.i /\ o \notin {CreateTx, DestroyTx}
    BY <1>1, <1>2, <1>8 DEF HostOp, HostAt, CreateRx, CreateTx, DestroyTx
  <2>2. host.i \in Taken
    <3>1. host.why \in {"attach", "queue", "reset"}
      BY <1>8 DEF Placed, CtxTyped, AttachStage, HostAt, Making, HostStates
    <3> QED BY <1>8, <3>1 DEF Placed, QueueStage, AttachStage, HostAt, Making
  <2>3. cardTx' = cardTx /\ cardRx' = IF ok THEN cardRx \cup {host.i} ELSE cardRx
    BY <1>0, <2>1
  <2>4. DestroyStage'
    BY <1>0, <1>8 DEF DestroyStage, HostAt
  <2>5. CardTrue'
    BY <1>0, <1>4, <1>6, <1>8, <2>3 DEF CardTrue, HostAt
  <2> QED BY <1>0, <1>5, <1>6, <2>2, <2>3, <2>4, <2>5, CardPlaced DEF Mail
<1>9. CASE host.pc = "txing"
  <2>1. o = CreateTx /\ o.cmd # "create_rx" /\ o.cmd # "destroy_rx"
    BY <1>1, <1>2, <1>9 DEF HostOp, HostAt, CreateTx
  <2>2. tx # "none"
    BY <1>9 DEF Placed, AttachStage, HostAt
  <2>3. cardRx' = cardRx /\ cardTx' = IF ok THEN TRUE ELSE cardTx
    BY <1>0, <2>1
  <2>4. DestroyStage'
    BY <1>0, <1>9 DEF DestroyStage, HostAt
  <2>5. CardTrue'
    BY <1>0, <1>4, <1>6, <1>9, <2>3 DEF CardTrue, HostAt
  <2> QED BY <1>0, <1>5, <1>6, <2>2, <2>3, <2>4, <2>5, CardPlaced DEF Mail
<1>10. CASE host.pc \in {"freeing", "destroying"}
  <2>1. o.cmd = "destroy_rx" /\ o.id = host.i /\ o \notin {CreateTx, DestroyTx}
    BY <1>1, <1>2, <1>10 DEF HostOp, HostAt, DestroyRx, CreateTx, DestroyTx
  <2>2. cardTx' = cardTx /\ cardRx' = IF ok THEN cardRx \ {host.i} ELSE cardRx
    BY <1>0, <2>1
  <2>3. DestroyStage'
    BY <1>0, <1>7, <1>10 DEF Placed, DestroyStage, HostAt, NoTx
  <2>4. CardTrue'
    BY <1>0, <1>4, <1>6, <1>10, <2>2 DEF CardTrue, HostAt
  <2> QED BY <1>0, <1>5, <1>6, <2>2, <2>3, <2>4, CardPlaced DEF Mail
<1>11. CASE host.pc = "txdestroying"
  <2>1. o = DestroyTx /\ o # CreateTx /\ o.cmd # "create_rx" /\ o.cmd # "destroy_rx"
    BY <1>1, <1>2, <1>11 DEF HostOp, HostAt, CreateTx, DestroyTx
  <2>2. cardRx' = cardRx /\ cardTx' = IF ok THEN FALSE ELSE cardTx
    BY <1>0, <2>1
  <2>3. DestroyStage'
    BY <1>0, <1>7, <1>11, <2>2 DEF Placed, DestroyStage, HostAt
  <2>4. CardTrue'
    BY <1>0, <1>4, <1>6, <1>11, <2>2 DEF CardTrue, HostAt
  <2> QED BY <1>0, <1>5, <1>6, <2>2, <2>3, <2>4, CardPlaced DEF Mail
<1>12. host.pc # "mtuing"
  <2>1. ~OfContexts(SetMtu(host.i))
    BY DEF OfContexts, SetMtu
  <2> QED BY <1>1, <1>2, <1>7, <2>1 DEF HostOp, HostAt
<1> QED BY <1>2, <1>8, <1>9, <1>10, <1>11, <1>12 DEF Commanding

-----------------------------------------------------------------------------
(* Every step.                                                             *)

\* A step of the thread without a command.
LEMMA LocalStep ==
  ASSUME CtxInv, Placed', UNCHANGED mailbox, host.pc \notin Commanding,
         host'.pc \notin Commanding, host'.pc = "dma" => host'.i \notin cardRx'
  PROVE  CtxInv'
<1>1. Mail'
  BY MailStays DEF CtxInv
<1>2. IInv'
  BY Inductive DEF CtxInv
<1> QED BY <1>1, <1>2 DEF CtxInv

LEMMA PlacedStays ==
  ASSUME Placed, UNCHANGED ctxVars
  PROVE  Placed'
<1>0. UNCHANGED <<rx, active, queues, defRx, tx, defTx, up, host, cardRx, cardTx>>
  BY DEF ctxVars, table, txVars, cardVars
<1>1. cardRx \subseteq Taken /\ cardTx \in BOOLEAN /\ (cardTx => tx # "none")
  BY DEF Placed, CtxTyped, CardBacked, Taken
<1>2. DestroyStage'
  BY <1>0, TakenSame DEF Placed, DestroyStage, HostAt, NoTx
<1> QED BY <1>0, <1>1, <1>2, CardPlaced

LEMMA StandsStill ==
  ASSUME CtxInv, UNCHANGED vars
  PROVE  CtxInv'
<1>0. UNCHANGED ctxVars /\ UNCHANGED mailbox /\ UNCHANGED <<host, cardRx, cardTx, card, cdrp, caller>>
  BY DEF vars, ctxVars, cardVars, mailbox, regs
<1>1. IInv'
  BY <1>0, Inductive DEF CtxInv
<1>2. Placed'
  BY <1>0, PlacedStays DEF CtxInv
<1>3. Mail'
  BY <1>0 DEF CtxInv, Mail, Ours, HostOp, HostAt, At, Unanswered, Waiting, CardTrue, AnsweredAs
<1> QED BY <1>1, <1>2, <1>3 DEF CtxInv

LEMMA ResetStep ==
  ASSUME CtxInv, Reset
  PROVE  CtxInv'
<1>0. /\ IInv /\ Placed /\ Mail /\ UNCHANGED <<sem, regs, caller, late>> /\ card' = Idle
      /\ host.pc = "idle" /\ host'.pc \in {"destroy", "free"}
  <2>1. host \in HostStates
    BY DEF CtxInv, Placed, CtxTyped
  <2> QED BY <2>1 DEF CtxInv, Reset, HostAt, HostStates
<1>1. IInv'
  <2>1. TypeOK'
    BY <1>0, IdleTyped DEF IInv, TypeOK, regs
  <2>2. Exclusive' /\ AreaKept'
    BY <1>0 DEF IInv, Exclusive, AreaKept, Inside
  <2>3. Sound'
    BY <1>0 DEF IInv, Sound, CommandSound, CardSound, CallerSound, At, Answered, regs
  <2> QED BY <2>1, <2>2, <2>3 DEF IInv
<1>2. Ours' /\ Unanswered'
  BY <1>0 DEF Mail, Ours, Unanswered, Waiting, At, Commanding, regs
<1>3. CardTrue'
  BY <1>0 DEF CardTrue, HostAt
<1> QED BY <1>0, <1>1, <1>2, <1>3, ResetPlaced DEF CtxInv, Mail

LEMMA BeginsStep ==
  ASSUME CtxInv, ~Harm, HostBegins
  PROVE  CtxInv'
<1>0. host \in HostStates
  BY DEF CtxInv, Placed, CtxTyped
<1>1. CASE Attach \/ QueueAlloc \/ Detach
  <2>1. UNCHANGED mailbox /\ host.pc = "idle" /\ host'.pc \in {"create", "destroy", "free"}
    BY <1>0, <1>1 DEF Attach, QueueAlloc, Detach, HostAt, HostStates
  <2>2. Placed'
    BY <1>1, BeginsPlaced DEF CtxInv
  <2> QED BY <2>1, <2>2, LocalStep DEF Commanding
<1>2. CASE Reset
  BY <1>2, ResetStep
<1>3. ASSUME NEW i \in Ids, QueueFree(i) PROVE CtxInv'
  BY <1>3, FreeSends DEF CtxInv
<1> QED BY <1>1, <1>2, <1>3 DEF HostBegins

LEMMA CreateStep ==
  ASSUME CtxInv, ~Harm,
         CreateAlloc \/ CreateNoMemory \/ CreateSend \/ CreateNoDma \/ CreateOk
  PROVE  CtxInv'
<1>0. host \in HostStates /\ Placed
  BY DEF CtxInv, Placed, CtxTyped
<1>1. CASE CreateAlloc
  <2>1. UNCHANGED mailbox /\ host.pc = "create" /\ host'.pc = "dma"
    BY <1>0, <1>1 DEF CreateAlloc, HostAt, HostStates
  <2> QED BY <1>0, <1>1, <2>1, AllocPlaced, LocalStep DEF Commanding
<1>2. CASE CreateNoMemory
  <2>1. UNCHANGED mailbox /\ host.pc = "create"
    BY <1>2 DEF CreateNoMemory, HostAt
  <2>2. host'.pc \in {"free", "idle", "next"}
    <3>1. host.why \in {"attach", "queue", "reset"}
      BY <1>0, <2>1 DEF Placed, AttachStage, HostAt, HostStates
    <3> QED BY <1>0, <1>2, <3>1, AfterGoto DEF CreateNoMemory, CreateFails
  <2> QED BY <1>0, <1>2, <2>1, <2>2, NoMemoryPlaced, LocalStep DEF Commanding
<1>3. CASE CreateSend
  BY <1>3, CreateSends DEF CtxInv
<1>4. CASE CreateOk
  BY <1>4, CreatedPlaced DEF CtxInv
<1> QED BY <1>1, <1>2, <1>3, <1>4 DEF Harm

LEMMA AttachStep ==
  ASSUME CtxInv, ~Harm,
         \/ TxSend \/ TxNoDma \/ TxNoMemory \/ TxOk
         \/ \E ok \in BOOLEAN : AttachRest(ok)
         \/ QueueMtu \/ QueueReady \/ QueueNoIrq
  PROVE  CtxInv'
<1>0. host \in HostStates /\ Placed
  BY DEF CtxInv, Placed, CtxTyped
<1>1. CASE TxSend
  BY <1>1, TxSends DEF CtxInv
<1>2. CASE TxOk
  BY <1>2, TxEndsPlaced DEF CtxInv
<1>3. CASE QueueMtu
  BY <1>3, MtuSends DEF CtxInv
<1>4. CASE QueueReady
  <2>1. UNCHANGED mailbox /\ host.pc = "irq" /\ host'.pc \in {"next", "idle"}
    BY <1>0, <1>4, AfterGoto DEF QueueReady, QueueEnd, HostAt
  <2> QED BY <1>0, <1>4, <2>1, ReadyPlaced, LocalStep DEF Commanding
<1>5. CASE TxNoMemory \/ (\E ok \in BOOLEAN : AttachRest(ok))
  <2>1. UNCHANGED mailbox /\ host.pc \in {"tx", "rest"}
    BY <1>5 DEF TxNoMemory, AttachRest, HostAt
  <2>2. host'.pc \in {"destroy", "queues", "idle"}
    <3>1. Undo => host'.pc = "destroy"
      BY <1>0 DEF Undo, HostStates
    <3>2. ASSUME NEW ok \in BOOLEAN, AttachRest(ok) PROVE host'.pc \in {"destroy", "queues", "idle"}
      BY <1>0, <3>1, <3>2, AfterGoto DEF AttachRest
    <3> QED BY <1>5, <3>1, <3>2 DEF TxNoMemory
  <2> QED BY <1>0, <1>5, <2>1, <2>2, RestPlaced, LocalStep DEF Commanding
<1> QED BY <1>1, <1>2, <1>3, <1>4, <1>5 DEF Harm

LEMMA DetachStep ==
  ASSUME CtxInv, ~Harm,
         DestroySend \/ DestroyNoFw \/ DestroyTxSend \/ DestroyTxNoFw \/ FreeAll
  PROVE  CtxInv'
<1>0. host \in HostStates /\ Placed
  BY DEF CtxInv, Placed, CtxTyped
<1>1. CASE DestroySend
  BY <1>1, DestroySends DEF CtxInv
<1>2. CASE DestroyTxSend
  BY <1>2, DestroyTxSends DEF CtxInv
<1>3. CASE DestroyNoFw
  <2>1. UNCHANGED mailbox /\ host.pc = "destroy" /\ host'.pc = "destroy"
    BY <1>0, <1>3 DEF DestroyNoFw, Destroyed, HostAt, HostStates
  <2> QED BY <1>0, <1>3, <2>1, DestroyPlaced, LocalStep DEF Commanding
<1>4. CASE DestroyTxNoFw
  <2>1. UNCHANGED mailbox /\ host.pc = "destroy" /\ host'.pc = "free"
    BY <1>0, <1>4, AfterGoto DEF DestroyTxNoFw, HostAt
  <2> QED BY <1>0, <1>4, <2>1, DestroyPlaced, LocalStep DEF Commanding
<1>5. CASE FreeAll
  <2>1. UNCHANGED mailbox /\ host.pc = "free" /\ host'.pc \in {"idle", "queues", "up"}
    BY <1>0, <1>5, AfterGoto DEF FreeAll, AfterFree, HostAt
  <2> QED BY <1>0, <1>5, <2>1, FreePlaced, LocalStep DEF Commanding
<1> QED BY <1>1, <1>2, <1>3, <1>4, <1>5

LEMMA RecoveryStep ==
  ASSUME CtxInv, ~Harm,
         \/ \E b \in BOOLEAN : ResetAttach(b)
         \/ QueuesStart \/ QueuesNext \/ QueuesEnd
  PROVE  CtxInv'
<1>0. host \in HostStates /\ Placed
  BY DEF CtxInv, Placed, CtxTyped
<1>1. UNCHANGED mailbox /\ host.pc \in {"up", "queues", "next"}
  BY DEF ResetAttach, QueuesStart, QueuesNext, QueuesEnd, HostAt
<1>2. host'.pc \in {"create", "queues", "next", "idle"}
  <2>1. ASSUME NEW b \in BOOLEAN, ResetAttach(b) PROVE host'.pc \in {"create", "queues"}
    BY <1>0, <2>1 DEF ResetAttach, HostStates
  <2> QED BY <1>0, <2>1 DEF QueuesStart, QueuesNext, QueuesEnd, HostStates
<1> QED BY <1>0, <1>1, <1>2, RecoveryPlaced, LocalStep DEF Commanding

LEMMA EndsStep ==
  ASSUME CtxInv, ~Harm, NEW rc \in {"ok", "fail", "timeout"},
         \/ CreateRefused(rc) \/ TxRefused(rc) \/ QueueMtuEnd(rc) \/ QueueFreed(rc)
         \/ DestroyEnd(rc) \/ DestroyTxEnd(rc)
  PROVE  CtxInv'
<1>1. IInv /\ Placed /\ Mail
  BY DEF CtxInv
<1>2. IInv' /\ Placed' /\ Mail'
  BY <1>1, RefusedPlaced, TxEndsPlaced, MtuEndsPlaced, FreedPlaced, DestroyEndsPlaced
<1> QED BY <1>2 DEF CtxInv

LEMMA GoesOnStep ==
  ASSUME CtxInv, ~Harm, HostGoesOn
  PROVE  CtxInv'
<1>1. CASE DestroyHole
  <2>1. UNCHANGED vars
    BY <1>1 DEF DestroyHole
  <2> QED BY <2>1, StandsStill
<1> QED BY <1>1, CreateStep, AttachStep, DetachStep, RecoveryStep, EndsStep DEF HostGoesOn

\* The mailbox, the other callers and the card.
LEMMA MailboxStep ==
  ASSUME CtxInv, ~Harm,
         CardSteps \/ OtherIssues \/ OtherReturns \/ (\E c \in Callers : CallerStep(c))
  PROVE  CtxInv'
<1>0. IInv /\ Placed /\ Mail /\ ~(late /\ At(Host, "poll"))
  BY DEF CtxInv, Harm
<1>1. ASSUME NEW c \in Callers, CallerStep(c) PROVE CtxInv'
  <2>1. Command(c) /\ UNCHANGED ctxVars
    BY <1>1 DEF CallerStep
  <2>2. IInv'
    BY <1>0, <2>1, Inductive DEF Next
  <2> QED BY <1>0, <2>1, <2>2, CommandMail, PlacedStays DEF CtxInv
<1>2. CASE OtherIssues \/ OtherReturns
  <2>1. UNCHANGED ctxVars
    BY <1>2 DEF OtherIssues, OtherReturns
  <2>2. IInv'
    BY <1>0, <1>2, Inductive DEF OtherIssues, OtherReturns, Next, Ops
  <2> QED BY <1>0, <1>2, <2>1, <2>2, OthersMail, PlacedStays DEF CtxInv
<1>3. CASE CardTake /\ UNCHANGED ctxVars
  <2>1. IInv'
    BY <1>0, <1>3, Inductive DEF Next
  <2> QED BY <1>0, <1>3, <2>1, TakeMail, PlacedStays DEF CtxInv
<1>4. ASSUME NEW ok \in BOOLEAN, CardDoes(ok) PROVE CtxInv'
  <2>1. IInv'
    BY <1>0, <1>4, Inductive DEF CardDoes, Next
  <2> QED BY <1>0, <1>4, <2>1, DoesOurs, DoesOther DEF CtxInv
<1> QED BY <1>1, <1>2, <1>3, <1>4 DEF CardSteps

LEMMA CalmStep == CalmInv /\ [MCNext]_mcVars => CalmInv'
<1> SUFFICES ASSUME CalmInv, [MCNext]_mcVars, calm' PROVE CtxInv'
  BY DEF CalmInv
<1>1. CASE MCNext
  <2>1. CtxInv /\ ~Harm
    BY <1>1 DEF MCNext, CalmInv
  <2> QED BY <1>1, <2>1, BeginsStep, GoesOnStep, MailboxStep DEF MCNext
<1>2. CASE UNCHANGED mcVars
  BY <1>2, StandsStill DEF mcVars, CalmInv
<1> QED BY <1>1, <1>2

LEMMA CalmInit == MCInit => CalmInv
<1> SUFFICES ASSUME MCInit PROVE CtxInv
  BY DEF CalmInv
<1>0. /\ 0 \in Ids /\ 1 \in Ids /\ NoCtx \notin Ids /\ \A i \in Ids : i <= 1 <=> i \in {0, 1}
      /\ NumRx \in Nat
  BY IdFacts, ContextsAssumption
<1>1. IInv
  BY InitInv DEF MCInit
<1>2. /\ host = IdleHost /\ host.pc = "idle" /\ ~host.reset /\ host.saved = {} /\ host.why = "none"
      /\ queues = {1} /\ active = 2 /\ defRx = 0 /\ tx = "active" /\ defTx /\ up
      /\ cardRx = {0, 1} /\ cardTx
      /\ rx = [i \in Ids |-> IF i <= 1 THEN "active" ELSE "none"]
  BY DEF MCInit, IdleHost
<1>3. Taken = {0, 1} /\ \A j \in Taken : rx[j] = "active"
  BY <1>0, <1>2 DEF Taken
<1>4. CtxTyped
  <2>1. host \in HostStates
    BY <1>2 DEF IdleHost, HostStates, HostPlaces
  <2> QED BY <1>0, <1>2, <2>1 DEF CtxTyped, MCInit
<1>5. DefaultsLive /\ CardBacked
  <2>1. IsFiniteSet({0}) /\ Cardinality({0}) = 1 /\ 1 \notin {0}
    <3>1. \A x : IsFiniteSet({x}) /\ Cardinality({x}) = 1
      BY FS_Singleton
    <3>2. IsFiniteSet({0}) /\ Cardinality({0}) = 1
      BY <3>1, Zenon
    <3> QED BY <3>2
  <2>2. Cardinality({0} \cup {1}) = Cardinality({0}) + 1
    BY <2>1, FS_AddElement
  <2>3. {0} \cup {1} = {0, 1}
    OBVIOUS
  <2>4. active = Cardinality(Taken)
    BY <1>2, <1>3, <2>1, <2>2, <2>3
  <2> QED BY <1>0, <1>2, <1>3, <2>4 DEF DefaultsLive, CardBacked, Taken
<1>6. QueueStage /\ AttachStage /\ DestroyStage /\ Settled
  BY <1>0, <1>2, <1>3
  DEF QueueStage, AttachStage, DestroyStage, Settled, HostAt, Making, Adding, AttachingOrNot,
      Known, Up
<1>7. Mail
  <2>1. /\ \A c \in Callers : At(c, "idle")
        /\ card = Idle /\ cdrp.what = "ok" /\ Host \in Callers
    BY ContextsAssumption DEF MCInit, Init, At, Resting
  <2> QED BY <1>2, <2>1 DEF Mail, Ours, Unanswered, CardTrue, HostAt, Commanding
<1> QED BY <1>1, <1>4, <1>5, <1>6, <1>7 DEF CtxInv, Placed

LEMMA CalmInvariance == MCSpec => []CalmInv
BY CalmInit, CalmStep, PTL DEF MCSpec

\* While nothing has been passed over, the default contexts are contexts that exist, and
\* active_rx_ctxs counts those in the table: through attach, detach, the net queues'
\* coming and going and the recovery after a reset, whatever the card refuses.
THEOREM DefaultsStayLive == MCSpec => []DefaultsLiveInCalm
<1>1. CalmInv => DefaultsLiveInCalm
  BY DEF CalmInv, CtxInv, Placed, DefaultsLiveInCalm
<1> QED BY <1>1, CalmInvariance, PTL

\* While nothing has been passed over, the card has only contexts whose rings are there:
\* the driver frees none before the card has said that it has let go of it.
THEOREM CardHasBacked == MCSpec => []CardBackedInCalm
<1>1. CalmInv => CardBackedInCalm
  BY DEF CalmInv, CtxInv, Placed, CardBackedInCalm
<1> QED BY <1>1, CalmInvariance, PTL

\* While nothing has been passed over, the bit map of the net queues is that of the
\* contexts beyond the first whenever the thread is at rest: after a recovery too, where
\* it has been inverted and put back.
THEOREM QueuesStayKnown == MCSpec => []QueuesKnownInCalm
<1>1. CtxInv => QueuesKnown
  BY DEF CtxInv, Placed, QueueStage, Known, QueuesKnown, Taken
<1>2. CalmInv => QueuesKnownInCalm
  BY <1>1 DEF CalmInv, QueuesKnownInCalm
<1> QED BY <1>2, CalmInvariance, PTL
=============================================================================
