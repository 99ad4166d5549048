------------------------------ MODULE Mailbox ------------------------------
(***************************************************************************)
(* The command mailbox of the card (driver/nxhal.c): the registers SIGN,   *)
(* ARG1..3 and CDRP, which all PCI functions and all threads share;        *)
(* issue_cmd, which writes a command under the hardware semaphore 5 and    *)
(* polls for the answer; and what its callers do with the answer once the  *)
(* semaphore is released.  A caller is a thread of some function.          *)
(*                                                                         *)
(* A value in the registers is represented by the caller whose command it  *)
(* belongs to, so that the properties can tell what a reader finds.        *)
(***************************************************************************)
EXTENDS Naturals, FiniteSets

CONSTANTS
  Callers, NoCaller,
  Sets,         \* commands whose answer is only a code
  Queries,      \* commands whose result is read when they succeed
  Limits,       \* commands whose result is read in any case
  Transfers,    \* commands answered through memory that is freed afterwards
  LockRetries, PollRetries   \* NX_OS_CRB_RETRY_COUNT in either loop

Ops == Sets \cup Queries \cup Limits \cup Transfers

ASSUME MailboxAssumption ==
  /\ NoCaller \notin Callers
  /\ LockRetries \in Nat /\ PollRetries \in Nat
  /\ Transfers \cap (Sets \cup Queries \cup Limits) = {}
  /\ Ops # {}

VARIABLES
  sem,    \* who holds semaphore 5
  sign,   \* SIGN: the command whose signature it holds
  arg,    \* ARG1..3: whose they are, arguments or results
  cdrp,   \* CDRP: a command, or the card's response
  card,   \* the command that the card works on
  caller, \* the thread of each caller
  late    \* a command was given up and may still be answered

regs == <<sign, arg, cdrp>>
mailbox == <<sem, regs, card, caller, late>>

Owners == Callers \cup {NoCaller}
NoOp == CHOOSE o \in Ops : TRUE
Idle == [of |-> NoCaller, op |-> NoOp, sign |-> NoCaller, arg |-> NoCaller]
Resting == [pc |-> "idle", op |-> NoOp, tries |-> 0, rcode |-> "ok",
            got |-> NoCaller, area |-> FALSE]

\* Mutant of Answered: what is read first is taken for the answer.
AnsweredAtOnce == TRUE

\* The card has answered (NX_CDRP_IS_RSP).
Answered == cdrp.what # "cmd"

Init ==
  /\ sem = NoCaller
  /\ sign = NoCaller
  /\ arg = [of |-> NoCaller, what |-> "in"]
  /\ cdrp = [of |-> NoCaller, what |-> "ok", op |-> NoOp]
  /\ card = Idle
  /\ caller = [c \in Callers |-> Resting]
  /\ late = FALSE

At(c, l) == caller[c].pc = l
Goto(c, l) == caller' = [caller EXCEPT ![c].pc = l]

-----------------------------------------------------------------------------
(* A caller.                                                               *)

\* A command function begins; a transfer first allocates its memory.
Issue(c, o) ==
  /\ At(c, "idle")
  /\ caller' = [caller EXCEPT ![c] =
       [Resting EXCEPT !.pc = "lock", !.op = o, !.area = o \in Transfers]]
  /\ UNCHANGED <<sem, regs, card, late>>

\* Mutant of Enter: the semaphore is not waited for.
EnterAtOnce(c) == TRUE

\* Reading PCIE_SEM5_LOCK gives 1 when the semaphore was free.
Enter(c) == sem = NoCaller

\* api_lock
Lock(c) ==
  /\ At(c, "lock") /\ Enter(c)
  /\ sem' = c
  /\ Goto(c, "sign")
  /\ UNCHANGED <<regs, card, late>>

\* What follows issue_cmd in the command function.
AfterIssue(o, rc) ==
  IF o \in Limits \/ (o \in Queries /\ rc = "ok") THEN "read"
  ELSE IF o \in Transfers THEN "free" ELSE "done"

LockBusy(c) ==
  /\ At(c, "lock") /\ ~Enter(c)
  /\ IF caller[c].tries < LockRetries
     THEN caller' = [caller EXCEPT ![c].tries = @ + 1]
     ELSE caller' = [caller EXCEPT ![c].rcode = "timeout",
                                   ![c].pc = AfterIssue(caller[c].op, "timeout")]
  /\ UNCHANGED <<sem, regs, card, late>>

\* The mailbox is sound again once a command begins while nothing is left of
\* those that were given up.
WriteSign(c) ==
  /\ At(c, "sign")
  /\ sign' = c
  /\ late' = (late /\ (card # Idle \/ ~Answered))
  /\ Goto(c, "arg")
  /\ UNCHANGED <<sem, arg, cdrp, card>>

WriteArgs(c) ==
  /\ At(c, "arg")
  /\ arg' = [of |-> c, what |-> "in"]
  /\ Goto(c, "cmd")
  /\ UNCHANGED <<sem, sign, cdrp, card, late>>

WriteCmd(c) ==
  /\ At(c, "cmd")
  /\ cdrp' = [of |-> c, what |-> "cmd", op |-> caller[c].op]
  /\ caller' = [caller EXCEPT ![c].pc = "poll", ![c].tries = 0]
  /\ UNCHANGED <<sem, sign, arg, card, late>>

\* poll_rsp counts the read before it looks at what was read.
GivesUp(c) == caller[c].tries >= PollRetries

PollTimeout(c) ==
  /\ At(c, "poll") /\ GivesUp(c)
  /\ caller' = [caller EXCEPT ![c].pc = "unlock", ![c].rcode = "timeout"]
  /\ late' = (late \/ ~Answered)
  /\ UNCHANGED <<sem, regs, card>>

PollAgain(c) ==
  /\ At(c, "poll") /\ ~GivesUp(c) /\ ~Answered
  /\ caller' = [caller EXCEPT ![c].tries = @ + 1]
  /\ UNCHANGED <<sem, regs, card, late>>

PollAnswered(c) ==
  /\ At(c, "poll") /\ ~GivesUp(c) /\ Answered
  /\ caller' = [caller EXCEPT ![c].rcode = cdrp.what,
                              ![c].pc = IF cdrp.what = "ok" THEN "unlock" ELSE "code"]
  /\ UNCHANGED <<sem, regs, card, late>>

\* The reason of a failure is in ARG1.
ReadCode(c) ==
  /\ At(c, "code")
  /\ caller' = [caller EXCEPT ![c].got = arg.of, ![c].pc = "unlock"]
  /\ UNCHANGED <<sem, regs, card, late>>

\* api_unlock: reading PCIE_SEM5_UNLOCK frees the semaphore.
Unlock(c) ==
  /\ At(c, "unlock")
  /\ sem' = NoCaller
  /\ Goto(c, AfterIssue(caller[c].op, caller[c].rcode))
  /\ UNCHANGED <<regs, card, late>>

\* The results are read when the semaphore is free again.
ReadResult(c) ==
  /\ At(c, "read")
  /\ caller' = [caller EXCEPT ![c].got = arg.of, ![c].pc = "done"]
  /\ UNCHANGED <<sem, regs, card, late>>

\* The response is copied, whatever the code, and its memory freed.
FreeArea(c) ==
  /\ At(c, "free")
  /\ caller' = [caller EXCEPT ![c].area = FALSE, ![c].pc = "done"]
  /\ UNCHANGED <<sem, regs, card, late>>

Return(c) ==
  /\ At(c, "done")
  /\ caller' = [caller EXCEPT ![c] = Resting]
  /\ UNCHANGED <<sem, regs, card, late>>

Command(c) ==
  \/ Lock(c) \/ LockBusy(c)
  \/ WriteSign(c) \/ WriteArgs(c) \/ WriteCmd(c)
  \/ PollTimeout(c) \/ PollAgain(c) \/ PollAnswered(c)
  \/ ReadCode(c) \/ Unlock(c) \/ ReadResult(c) \/ FreeArea(c)

-----------------------------------------------------------------------------
(* The card takes a command with the registers as they are, works on one   *)
(* at a time, and answers when it is done, if ever.                        *)

CardTake ==
  /\ card = Idle /\ cdrp.what = "cmd"
  /\ card' = [of |-> cdrp.of, op |-> cdrp.op, sign |-> sign, arg |-> arg.of]
  /\ UNCHANGED <<sem, regs, caller, late>>

CardAnswer(ok) ==
  /\ card # Idle
  /\ arg' = [of |-> card.of, what |-> IF ok THEN "out" ELSE "code"]
  /\ cdrp' = [of |-> card.of, what |-> IF ok THEN "ok" ELSE "fail", op |-> NoOp]
  /\ card' = Idle
  /\ UNCHANGED <<sem, sign, caller, late>>

Next ==
  \/ \E c \in Callers : Command(c) \/ Return(c) \/ \E o \in Ops : Issue(c, o)
  \/ CardTake
  \/ \E ok \in BOOLEAN : CardAnswer(ok)

\* Every thread that has begun a command goes on.
Fairness == \A c \in Callers : WF_mailbox(Command(c))

Spec == Init /\ [][Next]_mailbox /\ Fairness

-----------------------------------------------------------------------------
(* Properties.                                                             *)

CallerStates ==
  [pc : {"idle", "lock", "sign", "arg", "cmd", "poll", "code", "unlock", "read",
         "free", "done"},
   op : Ops, tries : 0 .. (LockRetries + PollRetries),
   rcode : {"ok", "fail", "timeout"}, got : Owners, area : BOOLEAN]

\* Types; the tries of a caller stay below the limits of the two loops.
TypeOK ==
  /\ sem \in Owners
  /\ sign \in Owners
  /\ arg \in [of : Owners, what : {"in", "out", "code"}]
  /\ cdrp \in [of : Owners, what : {"cmd", "ok", "fail"}, op : Ops]
  /\ card \in [of : Owners, op : Ops,
               sign : Owners, arg : Owners]
  /\ caller \in [Callers -> CallerStates]
  /\ late \in BOOLEAN

\* The callers between lock and unlock of issue_cmd.
Inside == {c \in Callers :
             caller[c].pc \in {"sign", "arg", "cmd", "poll", "code", "unlock"}}

\* issue_cmd writes the mailbox only with the semaphore (nxhal.c, "Acquire
\* semaphore before accessing CRB"), and unless a command was given up before,
\* the card never takes one whose signature or arguments are another
\* command's, nor works on one that its caller has left.
CommandWhole ==
  /\ \A c \in Inside : sem = c
  /\ card # Idle /\ ~late =>
       /\ card.sign = card.of /\ card.arg = card.of
       /\ \E c \in Inside : At(c, "poll") /\ card.of = c

\* Unless a command was given up before, what issue_cmd has got when it
\* returns is the answer to its own command, and as long as it has the
\* semaphore the result registers are its own: a code it has read too.
AnswerOwn ==
  ~late => \A c \in Inside :
    /\ (At(c, "poll") /\ Answered) \/ At(c, "code") =>
         arg.of = c /\ cdrp.of = c
    /\ At(c, "unlock") /\ caller[c].rcode # "timeout" =>
         arg.of = c /\ arg.what = IF caller[c].rcode = "ok" THEN "out" ELSE "code"
    /\ At(c, "unlock") /\ caller[c].rcode = "fail" => caller[c].got = c

\* Memory the card is to answer into is not freed before it has answered,
\* unless the command was given up.
AnswerHasRoom ==
  card # Idle /\ ~late /\ card.op \in Transfers => caller[card.of].area

\* Until a command is given up, an answer goes where it belongs: to its own caller, and
\* into memory that is still there.
AnswerSound == AnswerOwn /\ AnswerHasRoom
=============================================================================
