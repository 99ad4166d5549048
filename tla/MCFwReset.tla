----------------------------- MODULE MCFwReset -----------------------------
(***************************************************************************)
(* Model checking of FwReset: a bounded number of events from outside, and *)
(* what recovery gives as long as nothing fails and nobody opens or closes *)
(* a port meanwhile.                                                       *)
(***************************************************************************)
EXTENDS FwReset

CONSTANT MaxEvents  \* opens, closes, hangs, transmit timeouts and PCI errors

VARIABLES
  left,  \* events that may still come
  calm   \* no failure yet, and no open or close during a recovery

mcVars == <<vars, left, calm>>

MCInit == Init /\ left = MaxEvents /\ calm = TRUE

Event ==
  \/ Hang \/ AerDetected
  \/ \E p \in Ports : Open(p) \/ Close(p) \/ TxTimeout(p)

Internal ==
  \/ Tasks \/ AerGoesOn \/ RtnlGoesOn \/ FwTimer
  \/ \E p \in Ports : LinkTimer(p) \/ TxProgress(p)

\* A thread recovers ports while another opens or closes one, or the card is
\* detached for good.
Disturbed ==
  \/ rtnl.pc # "idle" /\ (Resetting \/ Recovering)
  \/ worker.why \in {"panic", "fatal"}

Failure ==
  \/ OpenAttach(FALSE) \/ OpenEnd(FALSE)
  \/ RestartFw(FALSE) \/ AttachPort(FALSE) \/ AttachInit(FALSE)
  \/ AerSlotReset(FALSE) \/ AerAttach(FALSE) \/ AerInit(FALSE)
  \/ GivesUp(TRUE) /\ (FwTimeoutReset(TRUE) \/ FwHangReset(TRUE, FALSE))

MCNext ==
  /\ \/ Event /\ left > 0 /\ left' = left - 1
     \/ Internal /\ UNCHANGED left
  /\ calm' = (calm /\ ~Disturbed' /\ ~Failure)

MCSpec == MCInit /\ [][MCNext]_mcVars /\ Fairness

\* Neither napi_enable nor napi_disable is called twice in a row on a port
\* (unm_nic_down, unm_nic_attach), unless something failed or an open or a
\* close came in between.
NapiBalancedInCalm == calm => NapiBalanced

\* When nobody is working on them, the ports are as their users left them,
\* however often the card was recovered.
PortsRestored ==
  calm /\ ~Resetting /\ ~Recovering /\ rtnl.pc = "idle" =>
    \A p \in Ports : PortWhole(p)

\* A firmware that hangs, or that a transmit timeout complains of, is started
\* again, or the driver gives the card up; unless the PCI handler and the timeout
\* task of a port wait for each other.
Recovers ==
  /\ hung /\ calm ~> ~hung \/ ~calm \/ Stuck
  /\ dev # "ready" /\ calm ~> dev = "ready" \/ ~calm \/ Stuck
=============================================================================
