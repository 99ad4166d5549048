----------------------------- MODULE MCContexts -----------------------------
(***************************************************************************)
(* Model checking of Contexts: a bounded number of operations, another     *)
(* caller that reads limits, and what holds as long as no command is left  *)
(* in the balance and no failure is passed over.                           *)
(***************************************************************************)
EXTENDS Contexts

CONSTANTS
  MaxBegins,  \* operations of the driver's thread
  MaxOthers   \* commands of the other callers

\* There is an id for a queue beside the first context.
ASSUME MCContextsAssumption == NumRx > 1

VARIABLES
  left,  \* operations that may still come, and commands of others
  calm   \* nothing has failed in a way that the driver does not make good

mcVars == <<vars, left, calm>>

\* The interface has been attached and the kernel has asked for one queue.
MCInit ==
  /\ Init
  /\ rx = [i \in Ids |-> IF i <= 1 THEN "active" ELSE "none"] /\ active = 2
  /\ queues = {1} /\ defRx = 0
  /\ tx = "active" /\ defTx = TRUE /\ up = TRUE
  /\ host = IdleHost
  /\ cardRx = {0, 1} /\ cardTx = TRUE
  /\ left = [ops |-> MaxBegins, others |-> MaxOthers] /\ calm = TRUE

MCSets ==
  {DestroyTx} \cup {DestroyRx(i) : i \in Ids \cup {NoCtx}}
    \cup {SetMtu(i) : i \in Ids \cup {NoCtx}}
MCQueries == {}
MCLimits == {[cmd |-> "max_rules", id |-> 0]}
MCTransfers == {CreateTx} \cup {CreateRx(i) : i \in Ids}

\* What the driver passes over: a command sent while another is in the balance,
\* whose answer may be the other's, a create whose outcome it does not know, a
\* context that the card does not destroy, an attach that fails in a recovery,
\* a queue without interrupt, memory for a request that is not to be had, and
\* a detach under the net queues' feet.
Harm ==
  \/ late /\ At(Host, "poll")
  \/ CreateRefused("timeout") \/ TxRefused("timeout")
  \/ \E rc \in {"fail", "timeout"} :
       QueueFreed(rc) \/ DestroyEnd(rc) \/ DestroyTxEnd(rc)
  \/ host.reset /\ host.why = "attach" /\ FreeAll
  \/ host.why = "reset" /\ (CreateNoMemory \/ \E rc \in {"fail"} : CreateRefused(rc))
  \/ QueueNoIrq \/ CreateNoDma \/ TxNoDma
  \/ ResetAttach(FALSE) /\ queues # {}
  \/ Detach /\ queues # {}

MCNext ==
  /\ \/ HostBegins /\ calm /\ left.ops > 0 /\ left' = [left EXCEPT !.ops = @ - 1]
     \/ OtherIssues /\ left.others > 0 /\ left' = [left EXCEPT !.others = @ - 1]
     \/ HostGoesOn /\ UNCHANGED left
     \/ (CardSteps \/ OtherReturns) /\ UNCHANGED left
     \/ \E c \in Callers : CallerStep(c) /\ UNCHANGED left
  /\ calm' = (calm /\ ~Harm)

MCSpec == MCInit /\ [][MCNext]_mcVars /\ CtxFairness

\* While nothing has been passed over, the default contexts exist.
DefaultsLiveInCalm == calm => DefaultsLive

\* While nothing has been passed over, the card has no context whose rings have
\* been freed, whatever the driver is doing.
CardBackedInCalm == calm => CardBacked

\* While nothing has been passed over, the bit map of the net queues is that of
\* the contexts between two operations, a recovery included.
QueuesKnownInCalm == calm => QueuesKnown
=============================================================================
