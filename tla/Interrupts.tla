----------------------------- MODULE Interrupts -----------------------------
(***************************************************************************)
(* From the card's interrupt to the poll of a status ring and back         *)
(* (nx_nic_clear_legacy_int, unm_nic_enable_int, the interrupt handlers    *)
(* and nx_nic_poll_sts of driver/unm_nic_main.c, with new NAPI), while     *)
(* interfaces are opened and closed, their address is set and the timeout  *)
(* task toggles the interrupt.  A function has one status ring here; with  *)
(* MSI-X every ring is as independent of the others as a function.         *)
(***************************************************************************)
EXTENDS Naturals, FiniteSets

CONSTANTS
  Ports,       \* the functions, which share the legacy line
  Kinds,       \* the kinds of card and interrupt to start with: records of irq ("legacy",
               \* "msi", "msix"), p2, state (the state register is read, from P3 B1 on)
               \* and v34 (firmware 3.4)
  NumCpus,     \* CPUs, each of which may be between completing a poll and enabling
  MaxOwed,     \* bound: messages in a ring
  MaxControls  \* bound: calls that take the interrupt away and give it back

VARIABLES
  kind,
  owed,      \* messages the card wrote and the poll has not read
  crb,       \* interrupt_crb: the card may interrupt for the ring
  vec,       \* the function's bit of ISR_INT_VECTOR
  sent,      \* its interrupt went out to the host
  sw,        \* the functions with their bit set in CRB_INT_VECTOR (P2)
  isr,       \* the step of the function's handler
  ourInt,    \* our_int, as the handler read it
  napi,      \* "idle", "sched", "done" (has seen the ring empty), "off"
  arming,    \* polls that have completed and not yet enabled the interrupt
  running,   \* netif_running
  ctl,       \* the step of open, close and set_mac, which exclude each other (rtnl)
  tmo,       \* the timeout task has taken the interrupt away
  controls

handler == <<vec, sent, sw, isr, ourInt>>
controlled == <<running, ctl, tmo, controls>>
intVars == <<kind, owed, crb, handler, napi, arming, controlled>>

All(v) == [p \in Ports |-> v]
Set(f, p, v) == [f EXCEPT ![p] = v]

IntInit ==
  /\ kind \in Kinds
  /\ owed = All(0) /\ crb = All(0) /\ vec = All(FALSE) /\ sent = All(FALSE)
  /\ sw = {} /\ isr = All("idle") /\ ourInt = All({})
  /\ napi = All("off") /\ arming = All(0)
  /\ running = All(FALSE) /\ ctl = All("idle") /\ tmo = All(FALSE) /\ controls = 0
-----------------------------------------------------------------------------
\* The card.  Firmware 4.0 masks the ring it interrupts for; 3.4 leaves that to the
\* driver.
CardWritesMessage(p) ==
  /\ owed[p] < MaxOwed /\ owed' = Set(owed, p, owed[p] + 1)
  /\ UNCHANGED <<kind, crb, handler, napi, arming, controlled>>

CardRaises(p) ==
  /\ owed[p] > 0 /\ crb[p] = 1 /\ ~vec[p]
  /\ vec' = Set(vec, p, TRUE)
  /\ sw' = IF kind.p2 THEN sw \cup {p} ELSE sw
  /\ crb' = IF kind.v34 THEN crb ELSE Set(crb, p, 0)
  /\ UNCHANGED <<kind, owed, sent, isr, ourInt, napi, arming, controlled>>

CardSendsInt(p) ==
  /\ vec[p] /\ ~sent[p] /\ sent' = Set(sent, p, TRUE)
  /\ UNCHANGED <<kind, owed, crb, vec, sw, isr, ourInt, napi, arming, controlled>>
-----------------------------------------------------------------------------
\* The handlers.  A legacy interrupt is level triggered and shared: all handlers of
\* the line are called while it lasts, and each looks for its own.
Line(p) == IF kind.irq = "legacy" THEN \E q \in Ports : sent[q] ELSE sent[p]
Ours(p) == kind.irq # "legacy" \/ (vec[p] /\ (kind.state => sent[p]))

IsrGo(p, s) == isr' = Set(isr, p, s)

IsrBegins(p) ==
  /\ isr[p] = "idle" /\ Line(p) /\ Ours(p)
  /\ IsrGo(p, IF kind.irq = "legacy" /\ kind.p2 THEN "vector"
              ELSE IF kind.irq = "msix" THEN "schedule" ELSE "claim")
  /\ IF kind.irq = "legacy" THEN UNCHANGED sent ELSE sent' = Set(sent, p, FALSE)
  /\ vec' = IF kind.irq = "msix" THEN Set(vec, p, FALSE) ELSE vec
  /\ UNCHANGED <<kind, owed, crb, sw, ourInt, napi, arming, controlled>>

\* Mutant of NotOurs: a vector that lost the function's bit is never the function's.
NotOursAlone(p, v) == p \notin v

\* The interrupt is another function's if only others have their bit set; a vector
\* with no bit at all does not speak against it.
NotOurs(p, v) == p \notin v /\ v # {}

\* A P2 reads CRB_INT_VECTOR, which all functions and the card write ...
IsrReads(p) ==
  /\ isr[p] = "vector"
  /\ ourInt' = Set(ourInt, p, sw)
  /\ IsrGo(p, IF NotOurs(p, sw) THEN "idle" ELSE "write")
  /\ UNCHANGED <<kind, owed, crb, vec, sent, sw, napi, arming, controlled>>

\* ... and writes it back without its own bit, and without what came meanwhile.
IsrWrites(p) ==
  /\ isr[p] = "write"
  /\ sw' = ourInt[p] \ {p}
  /\ IsrGo(p, "claim")
  /\ UNCHANGED <<kind, owed, crb, vec, sent, ourInt, napi, arming, controlled>>

IsrClaims(p) ==
  /\ isr[p] = "claim"
  /\ crb' = IF kind.v34 /\ kind.irq = "legacy" THEN Set(crb, p, 0) ELSE crb
  /\ vec' = Set(vec, p, FALSE)
  /\ sent' = IF kind.irq = "legacy" THEN Set(sent, p, FALSE) ELSE sent
  /\ IsrGo(p, "schedule")
  /\ UNCHANGED <<kind, owed, sw, ourInt, napi, arming, controlled>>

\* Of a poll that is scheduled or switched off nothing more is scheduled.
IsrSchedules(p) ==
  /\ isr[p] = "schedule"
  /\ napi' = IF running[p] /\ napi[p] = "idle" THEN Set(napi, p, "sched") ELSE napi
  /\ IsrGo(p, "idle")
  /\ UNCHANGED <<kind, owed, crb, vec, sent, sw, ourInt, arming, controlled>>
-----------------------------------------------------------------------------
\* A poll that used up its budget stays scheduled; one that did not has seen the ring
\* empty and completes, whatever the card writes meanwhile.
PollReads(p) ==
  /\ napi[p] = "sched"
  /\ \E n \in 0..owed[p] :
       /\ owed' = Set(owed, p, owed[p] - n)
       /\ \/ n > 0 /\ UNCHANGED napi
          \/ n = owed[p] /\ napi' = Set(napi, p, "done")
  /\ UNCHANGED <<kind, crb, handler, arming, controlled>>

PollCompletes(p) ==
  /\ napi[p] = "done" /\ arming[p] < NumCpus
  /\ napi' = Set(napi, p, "idle") /\ arming' = Set(arming, p, arming[p] + 1)
  /\ UNCHANGED <<kind, owed, crb, handler, controlled>>

\* unm_nic_enable_int comes after the poll gave itself up, when the handler may have
\* scheduled the next one already.
PollEnables(p) ==
  /\ arming[p] > 0
  /\ crb' = Set(crb, p, 1) /\ arming' = Set(arming, p, arming[p] - 1)
  /\ UNCHANGED <<kind, owed, handler, napi, controlled>>
-----------------------------------------------------------------------------
\* The calls of an interface.  napi_disable waits for the poll to complete.
CtlGo(p, s) == ctl' = Set(ctl, p, s)
Alone == \A q \in Ports : ctl[q] = "idle"

\* __dev_open sets the running state before unm_nic_open, dev_close takes it away
\* before unm_nic_close.
Opens(p) ==
  /\ Alone /\ ~running[p] /\ controls < MaxControls /\ controls' = controls + 1
  /\ running' = Set(running, p, TRUE) /\ CtlGo(p, "on")
  /\ UNCHANGED <<kind, owed, crb, handler, napi, arming, tmo>>

Closes(p) ==
  /\ Alone /\ running[p] /\ controls < MaxControls /\ controls' = controls + 1
  /\ running' = Set(running, p, FALSE) /\ CtlGo(p, "close")
  /\ UNCHANGED <<kind, owed, crb, handler, napi, arming, tmo>>

SetMacBegins(p) ==
  /\ Alone /\ running[p] /\ controls < MaxControls /\ controls' = controls + 1
  /\ CtlGo(p, "mac")
  /\ UNCHANGED <<kind, owed, crb, handler, napi, arming, running, tmo>>

DisableAllInt(p) ==
  /\ ctl[p] \in {"close", "mac"}
  /\ crb' = Set(crb, p, 0)
  /\ CtlGo(p, IF ctl[p] = "mac" THEN "macwait" ELSE "wait")
  /\ UNCHANGED <<kind, owed, handler, napi, arming, running, tmo, controls>>

NapiDisable(p) ==
  /\ ctl[p] \in {"wait", "macwait"} /\ napi[p] = "idle"
  /\ napi' = Set(napi, p, "off")
  /\ CtlGo(p, IF ctl[p] = "macwait" THEN "on" ELSE "idle")
  /\ UNCHANGED <<kind, owed, crb, handler, arming, running, tmo, controls>>

NapiEnable(p) ==
  /\ ctl[p] = "on" /\ napi' = Set(napi, p, "idle") /\ CtlGo(p, "arm")
  /\ UNCHANGED <<kind, owed, crb, handler, arming, running, tmo, controls>>

EnableAllInt(p) ==
  /\ ctl[p] = "arm" /\ crb' = Set(crb, p, 1) /\ CtlGo(p, "idle")
  /\ UNCHANGED <<kind, owed, handler, napi, arming, running, tmo, controls>>

\* unm_tx_timeout_task takes the interrupt away and gives it back at once, whatever
\* the poll and the other calls are doing; it was queued while the interface ran.
TimeoutDisables(p) ==
  /\ ~tmo[p] /\ controls < MaxControls /\ controls' = controls + 1
  /\ running[p] \/ ctl[p] # "idle"
  /\ tmo' = Set(tmo, p, TRUE) /\ crb' = Set(crb, p, 0)
  /\ UNCHANGED <<kind, owed, handler, napi, arming, running, ctl>>

TimeoutEnables(p) ==
  /\ tmo[p] /\ tmo' = Set(tmo, p, FALSE) /\ crb' = Set(crb, p, 1)
  /\ UNCHANGED <<kind, owed, handler, napi, arming, running, ctl, controls>>
-----------------------------------------------------------------------------
IsrStep(p) == IsrReads(p) \/ IsrWrites(p) \/ IsrClaims(p) \/ IsrSchedules(p)
CallStep(p) ==
  \/ DisableAllInt(p) \/ NapiDisable(p) \/ NapiEnable(p) \/ EnableAllInt(p)
  \/ TimeoutEnables(p)

IntNext == \E p \in Ports :
  \/ CardWritesMessage(p) \/ CardRaises(p) \/ CardSendsInt(p)
  \/ IsrBegins(p) \/ IsrStep(p)
  \/ PollReads(p) \/ PollCompletes(p) \/ PollEnables(p)
  \/ Opens(p) \/ Closes(p) \/ SetMacBegins(p) \/ TimeoutDisables(p) \/ CallStep(p)

\* The card interrupts, the kernel calls the handlers as long as the line is asserted,
\* runs the polls that are scheduled, and its threads go on.
IntFairness == \A p \in Ports :
  /\ WF_intVars(CardRaises(p)) /\ WF_intVars(CardSendsInt(p))
  /\ WF_intVars(IsrBegins(p)) /\ WF_intVars(IsrStep(p))
  /\ WF_intVars(PollReads(p)) /\ WF_intVars(PollCompletes(p)) /\ WF_intVars(PollEnables(p))
  /\ WF_intVars(CallStep(p))

\* Messages of a running interface are always read in the end, those too that arrive
\* between a poll's last look at the ring and its enabling of the interrupt: no step of
\* the handlers, of a poll that gives up and of the calls beside them leaves a ring with
\* its interrupt masked, no poll scheduled and nobody to change that (the order of
\* completing and enabling at main.c:6914, the vector at main.c:6571, the timeout
\* task at main.c:6412).  On a P2 whose other function interrupts without end, a bit
\* lost from CRB_INT_VECTOR may keep the handler from its interrupt for ever.
Polled == \A p \in Ports : []<>(owed[p] = 0 \/ ~running[p] \/ sw \ {p} # {})
=============================================================================
