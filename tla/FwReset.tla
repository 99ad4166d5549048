------------------------------ MODULE FwReset ------------------------------
(***************************************************************************)
(* Recovery of the card (driver/unm_nic_main.c): the firmware watchdog of  *)
(* function 0, which tears all ports down, restarts the firmware and       *)
(* attaches them again; the PCI error handlers, which do the same for      *)
(* their own reasons; the register UNM_FW_RESET, by which the two keep out *)
(* of each other's way; and the administrator, who opens and closes ports  *)
(* meanwhile.                                                              *)
(*                                                                         *)
(* Three threads take their steps: worker, the driver's single-threaded    *)
(* work queue, rtnl, the open or close that holds the kernel's rtnl lock,  *)
(* and aer, the PCI error recovery.  Timers and the card are the           *)
(* environment.                                                            *)
(***************************************************************************)
EXTENDS Naturals, FiniteSets

CONSTANTS
  NumPorts,          \* PCI functions of the card that the driver runs
  FailurePeriod,     \* ticks without a sign of life before a reset, 8
  TimeoutThreshold,  \* UNM_FW_RESET_THRESHOLD
  FailedThreshold,   \* UNM_FW_RESET_FAILED_THRESHOLD
  MayFail,           \* may a firmware start or an attach fail?
  PciErrors          \* do PCI errors happen?

Ports == 0 .. NumPorts - 1

ASSUME RecoveryAssumption ==
  /\ NumPorts \in Nat \ {0} /\ FailurePeriod \in Nat \ {0}
  /\ TimeoutThreshold \in Nat /\ FailedThreshold \in Nat \ {0}
  /\ MayFail \in BOOLEAN /\ PciErrors \in BOOLEAN

VARIABLES
  dev,       \* the register UNM_FW_RESET
  hung,      \* the firmware has stopped counting
  failures,  \* fw_alive_failures, counted round from 1 to FailurePeriod
  resets,    \* fwload_failed_count
  fwTimer,   \* watchdog_timer_fw_reset is armed
  pending,   \* work items that wait for the worker
  flush,     \* the work items that a thread in FLUSH_SCHEDULED_WORK waits for
  worker, rtnl, aer,  \* the threads
  port       \* the adapter and network device of each function

envVars == <<hung, pending, flush>>
fwVars == <<failures, resets, fwTimer>>
vars == <<dev, envVars, fwVars, worker, rtnl, aer, port>>

\* A port: is its device present (netif_device_present) and running
\* (netif_running), adapter->state and is_up, are its NAPI contexts enabled,
\* its rings and contexts allocated and its link watchdog armed, and
\* tx_timeout_count.
ClosedPort ==
  [present |-> TRUE, running |-> FALSE, state |-> "down", isUp |-> "no",
   napi |-> FALSE, rings |-> FALSE, timer |-> FALSE,
   count |-> 0]

Init ==
  /\ dev = "ready" /\ hung = FALSE
  /\ failures = 0 /\ resets = 0 /\ fwTimer = TRUE
  /\ pending = {} /\ flush = [t \in {"rtnl", "aer"} |-> {}]
  /\ worker = [pc |-> "idle", i |-> 0, why |-> "none"]
  /\ rtnl = [pc |-> "idle", i |-> 0]
  /\ aer = [pc |-> "idle", i |-> 0, ok |-> TRUE]
  /\ port = [p \in Ports |-> ClosedPort]

WorkerAt(l) == worker' = [worker EXCEPT !.pc = l]
RtnlAt(l) == rtnl' = [rtnl EXCEPT !.pc = l]
AerAt(l) == aer' = [aer EXCEPT !.pc = l]

-----------------------------------------------------------------------------
(* unm_nic_attach and unm_nic_down, in the steps that other threads see.   *)

\* Rings, contexts and interrupt, unless the port has kept them: what becomes
\* of the port.  What fails late frees the rings, what fails early does not.
Attached(p, ok) ==
  IF port[p].isUp = "magic" THEN {port[p]}
  ELSE IF ok THEN {[port[p] EXCEPT !.rings = TRUE, !.isUp = "magic"]}
  ELSE {port[p], [port[p] EXCEPT !.rings = FALSE]}

MayAttach(p, ok) == ok \/ (MayFail /\ port[p].isUp # "magic")

Attach(p, ok) ==
  /\ MayAttach(p, ok)
  /\ \E a \in Attached(p, ok) : port' = [port EXCEPT ![p] = a]

\* nx_napi_enable: napi_enable stops the machine when NAPI is enabled.
NapiEnable(p) ==
  /\ ~port[p].napi
  /\ port' = [port EXCEPT ![p].napi = TRUE]

\* Mutant of Disables: the state FW_RESETTING is not looked for.
DisablesMagic(p) == port[p].isUp = "magic"

\* nx_napi_disable, when the port is up: napi_disable waits while NAPI is
\* disabled by somebody else.
Disables(p) == port[p].isUp \in {"magic", "resetting"}

NapiDisable(p) ==
  /\ Disables(p) => port[p].napi
  /\ port' = IF Disables(p) THEN [port EXCEPT ![p].napi = FALSE] ELSE port

FwWork == <<"fw", 0>>

Schedule(w) == pending' = pending \cup {w}

\* FLUSH_SCHEDULED_WORK waits for what is queued or runs when it is called.
StartFlush(t) ==
  flush' = [flush EXCEPT ![t] =
              pending \cup IF worker.pc = "idle" THEN {} ELSE {FwWork}]

Done(w) == flush' = [t \in DOMAIN flush |-> flush[t] \ {w}]

-----------------------------------------------------------------------------
(* unm_nic_open and unm_nic_close, under the rtnl lock.                     *)

Open(p) ==
  /\ rtnl.pc = "idle"
  /\ port[p].present /\ ~port[p].running
  /\ port' = [port EXCEPT ![p].running = TRUE]
  /\ rtnl' = [pc |-> "open", i |-> p]
  /\ UNCHANGED <<dev, envVars, fwVars, worker, aer>>

OpenAttach(ok) ==
  /\ rtnl.pc = "open"
  /\ MayAttach(rtnl.i, ok)
  /\ \E a \in Attached(rtnl.i, ok) :
       port' = [port EXCEPT ![rtnl.i] = [a EXCEPT !.running = ok]]
  /\ RtnlAt(IF ok THEN "napi" ELSE "idle")
  /\ UNCHANGED <<dev, envVars, fwVars, worker, aer>>

OpenNapi ==
  /\ rtnl.pc = "napi"
  /\ NapiEnable(rtnl.i)
  /\ RtnlAt("opened")
  /\ UNCHANGED <<dev, envVars, fwVars, worker, aer>>

\* The port is initialised, or it is not and stays half attached.
OpenEnd(ok) ==
  /\ rtnl.pc = "opened"
  /\ ok \/ MayFail
  /\ port' = IF ok
       THEN [port EXCEPT ![rtnl.i].timer = TRUE, ![rtnl.i].state = "up"]
       ELSE [port EXCEPT ![rtnl.i].running = FALSE]
  /\ RtnlAt("idle")
  /\ UNCHANGED <<dev, envVars, fwVars, worker, aer>>

Close(p) ==
  /\ rtnl.pc = "idle"
  /\ port[p].running
  /\ port' = [port EXCEPT ![p].running = FALSE]
  /\ rtnl' = [pc |-> "close", i |-> p]
  /\ UNCHANGED <<dev, envVars, fwVars, worker, aer>>

CloseNapi ==
  /\ rtnl.pc = "close"
  /\ NapiDisable(rtnl.i)
  /\ RtnlAt("flush")
  /\ UNCHANGED <<dev, envVars, fwVars, worker, aer>>

CloseFlush ==
  /\ rtnl.pc = "flush"
  /\ IF port[rtnl.i].isUp = "magic" THEN StartFlush("rtnl") ELSE UNCHANGED flush
  /\ RtnlAt("closed")
  /\ UNCHANGED <<dev, hung, pending, fwVars, worker, aer, port>>

CloseEnd ==
  /\ rtnl.pc = "closed" /\ flush["rtnl"] = {}
  /\ port' = [port EXCEPT ![rtnl.i].timer = FALSE, ![rtnl.i].state = "down"]
  /\ RtnlAt("idle")
  /\ UNCHANGED <<dev, envVars, fwVars, worker, aer>>

-----------------------------------------------------------------------------
(* Timers and the other work items.                                        *)

\* unm_watchdog and its task: the link watchdog arms its timer again.
LinkTimer(p) ==
  /\ port[p].timer
  /\ port' = [port EXCEPT ![p].timer = FALSE]
  /\ Schedule(<<"link", p>>)
  /\ UNCHANGED <<dev, hung, flush, fwVars, worker, rtnl, aer>>

LinkTask(p) ==
  /\ worker.pc = "idle" /\ <<"link", p>> \in pending
  /\ pending' = pending \ {<<"link", p>>} /\ Done(<<"link", p>>)
  /\ port' = [port EXCEPT ![p].timer = @ \/ port[p].running]
  /\ UNCHANGED <<dev, hung, fwVars, worker, rtnl, aer>>

\* unm_tx_timeout: the kernel finds the queue of an open port stopped for too
\* long.
TxTimeout(p) ==
  /\ port[p].present /\ port[p].running /\ port[p].state = "up"
  /\ Schedule(<<"timeout", p>>)
  /\ UNCHANGED <<dev, hung, flush, fwVars, worker, rtnl, aer, port>>

\* adapter->lock of port p is held by nx_nic_detach_func.
LockHeld(p) == aer.pc \in {"down", "flush", "timer", "detach"} /\ aer.i = p

\* unm_tx_timeout_task under adapter->lock: after too many timeouts it asks
\* for a reset, which nx_dev_request_tx_timeout grants to a ready device;
\* before, it uses the first ring of the port.
TimeoutTask(p) ==
  /\ worker.pc = "idle" /\ <<"timeout", p>> \in pending
  /\ ~LockHeld(p)
  /\ pending' = pending \ {<<"timeout", p>>} /\ Done(<<"timeout", p>>)
  /\ LET n == port[p].count + 1 IN
       IF n > TimeoutThreshold
         THEN /\ dev' = IF dev = "ready" THEN "timeout" ELSE dev
              /\ port' = [port EXCEPT ![p].count = TimeoutThreshold + 1]
         ELSE /\ port' = [port EXCEPT ![p].count = n]
              /\ UNCHANGED dev
  /\ UNCHANGED <<hung, fwVars, worker, rtnl, aer>>

\* unm_process_cmd_ring freed descriptors of a stopped queue.
TxProgress(p) ==
  /\ port[p].napi /\ port[p].rings /\ port[p].count > 0
  /\ port' = [port EXCEPT ![p].count = 0]
  /\ UNCHANGED <<dev, envVars, fwVars, worker, rtnl, aer>>

FwTimer ==
  /\ fwTimer
  /\ fwTimer' = FALSE
  /\ Schedule(FwWork)
  /\ UNCHANGED <<dev, hung, flush, failures, resets, worker, rtnl, aer, port>>

Hang ==
  /\ ~hung /\ hung' = TRUE
  /\ UNCHANGED <<dev, pending, flush, fwVars, worker, rtnl, aer, port>>

-----------------------------------------------------------------------------
(* unm_watchdog_task_fw_reset, on function 0.                               *)

Stops == WorkerAt("idle") /\ Done(FwWork) /\ UNCHANGED fwTimer

\* The timer is armed for the next tick.
Rearms == WorkerAt("idle") /\ Done(FwWork) /\ fwTimer' = TRUE

FwTask ==
  /\ worker.pc = "idle" /\ FwWork \in pending
  /\ pending' = pending \ {FwWork}

\* Somebody else recovers the device, or nobody can.
FwBusy ==
  /\ FwTask /\ dev \in {"reset", "aer", "failed"}
  /\ Rearms
  /\ UNCHANGED <<dev, hung, failures, resets, rtnl, aer, port>>

StartDetach(why) == worker' = [pc |-> "detach", i |-> 0, why |-> why]

\* unm_nic_check_temp: an overheated card is detached for good.
FwTemp(panic) ==
  /\ FwTask /\ dev \in {"ready", "timeout"}
  /\ IF panic THEN StartDetach("panic") ELSE WorkerAt("requests")
  /\ UNCHANGED <<dev, hung, flush, fwVars, rtnl, aer, port>>

\* check_fw_reset_failure: too many resets, each soon after the one before.
GivesUp(soon) == soon /\ resets + 1 >= FailedThreshold

CountReset(soon) ==
  resets' = IF soon /\ ~GivesUp(soon) THEN resets + 1 ELSE 0

\* A transmit timeout asked for the reset.
FwTimeoutReset(soon) ==
  /\ worker.pc = "requests" /\ dev = "timeout"
  /\ CountReset(soon)
  /\ IF GivesUp(soon) THEN Stops
                      ELSE StartDetach("timeout") /\ UNCHANGED <<fwTimer, flush>>
  /\ UNCHANGED <<dev, hung, pending, failures, rtnl, aer, port>>

FwNoRequest ==
  /\ worker.pc = "requests" /\ dev # "timeout"
  /\ WorkerAt("alive")
  /\ UNCHANGED <<dev, envVars, fwVars, rtnl, aer, port>>

FwAlive ==
  /\ worker.pc = "alive" /\ ~hung
  /\ failures' = 0
  /\ Rearms
  /\ UNCHANGED <<dev, hung, pending, resets, rtnl, aer, port>>

NextFailure(n) == IF n = FailurePeriod THEN 1 ELSE n + 1

FwMissed ==
  /\ worker.pc = "alive" /\ hung /\ failures < FailurePeriod
  /\ failures' = NextFailure(failures)
  /\ Rearms
  /\ UNCHANGED <<dev, hung, pending, resets, rtnl, aer, port>>

\* nx_dev_request_reset is refused.
FwRefused ==
  /\ worker.pc = "alive" /\ hung /\ failures = FailurePeriod
  /\ dev \notin {"ready", "reset"}
  /\ Rearms
  /\ UNCHANGED <<dev, hung, pending, failures, resets, rtnl, aer, port>>

\* It is granted: the watchdog gives up, or tears the ports down.
FwHangReset(soon, fatal) ==
  /\ worker.pc = "alive" /\ hung /\ failures = FailurePeriod
  /\ dev \in {"ready", "reset"}
  /\ CountReset(soon)
  /\ IF GivesUp(soon)
       THEN dev' = "failed" /\ Stops
       ELSE /\ dev' = "reset"
            /\ StartDetach(IF fatal THEN "fatal" ELSE "hang")
            /\ UNCHANGED <<fwTimer, flush>>
  /\ UNCHANGED <<hung, pending, failures, rtnl, aer, port>>

\* netxen_nic_detach_all_ports.  A port that is not up is not taken down.
DetachPort ==
  LET p == worker.i IN
  /\ worker.pc = "detach" /\ p < NumPorts
  /\ port' = [port EXCEPT ![p].present = @ /\ worker.why = "fatal",
                          ![p].isUp = "resetting"]
  /\ WorkerAt(IF port[p].state = "up" THEN "down" ELSE "free")
  /\ UNCHANGED <<dev, envVars, fwVars, rtnl, aer>>

\* unm_nic_down on the work queue: there is no flush.
DetachDown ==
  /\ worker.pc = "down"
  /\ Disables(worker.i) => port[worker.i].napi
  /\ port' = [port EXCEPT ![worker.i].napi = @ /\ ~Disables(worker.i),
                          ![worker.i].timer = FALSE]
  /\ WorkerAt("free")
  /\ UNCHANGED <<dev, envVars, fwVars, rtnl, aer>>

\* Mutant of DetachFree: is_up is not cleared.
DetachFreeKeepsUp ==
  LET p == worker.i IN
  /\ worker.pc = "free"
  /\ port' = [port EXCEPT ![p].rings = FALSE, ![p].isUp = "magic"]
  /\ worker' = [worker EXCEPT !.pc = "detach", !.i = @ + 1]
  /\ UNCHANGED <<dev, envVars, fwVars, rtnl, aer>>

\* unm_nic_detach frees what the port has; is_up, set back
\* first, is cleared.
DetachFree ==
  LET p == worker.i IN
  /\ worker.pc = "free"
  /\ port' = IF worker.why = "fatal"
       THEN [port EXCEPT ![p].isUp = "dead"]
       ELSE [port EXCEPT ![p].rings = FALSE, ![p].isUp = "no"]
  /\ worker' = [worker EXCEPT !.pc = "detach", !.i = @ + 1]
  /\ UNCHANGED <<dev, envVars, fwVars, rtnl, aer>>

DetachedDead ==
  /\ worker.pc = "detach" /\ worker.i = NumPorts
  /\ worker.why \in {"panic", "fatal"}
  /\ dev' = IF worker.why = "fatal" THEN "failed" ELSE dev
  /\ Stops
  /\ UNCHANGED <<hung, pending, failures, resets, rtnl, aer, port>>

\* netxen_nic_restart_fw: the ports are attached only if it succeeds.
RestartFw(ok) ==
  /\ worker.pc = "detach" /\ worker.i = NumPorts
  /\ worker.why \in {"timeout", "hang"}
  /\ ok \/ MayFail
  /\ IF ok THEN hung' = FALSE /\ worker' = [worker EXCEPT !.pc = "attach", !.i = 0]
           ELSE UNCHANGED hung /\ WorkerAt("ready")
  /\ UNCHANGED <<dev, pending, flush, fwVars, rtnl, aer, port>>

\* netxen_nic_attach_all_ports: the result of unm_nic_attach is not looked at.
AttachPort(ok) ==
  LET p == worker.i IN
  /\ worker.pc = "attach" /\ p < NumPorts
  /\ IF port[p].state = "up"
       THEN Attach(p, ok) /\ WorkerAt(IF ok THEN "napi" ELSE "attached")
       ELSE ok /\ UNCHANGED port /\ WorkerAt("attached")
  /\ UNCHANGED <<dev, envVars, fwVars, rtnl, aer>>

AttachNapi ==
  /\ worker.pc = "napi"
  /\ NapiEnable(worker.i)
  /\ WorkerAt("init")
  /\ UNCHANGED <<dev, envVars, fwVars, rtnl, aer>>

AttachInit(ok) ==
  /\ worker.pc = "init"
  /\ ok \/ MayFail
  /\ port' = [port EXCEPT ![worker.i].timer = @ \/ ok]
  /\ WorkerAt("attached")
  /\ UNCHANGED <<dev, envVars, fwVars, rtnl, aer>>

AttachedPort ==
  /\ worker.pc = "attached"
  /\ port' = [port EXCEPT ![worker.i].present = TRUE]
  /\ worker' = [worker EXCEPT !.pc = "attach", !.i = @ + 1]
  /\ UNCHANGED <<dev, envVars, fwVars, rtnl, aer>>

\* Mutant of SetReady: the timer is not armed again.
SetReadyStops ==
  /\ \/ worker.pc = "ready"
     \/ worker.pc = "attach" /\ worker.i = NumPorts
  /\ dev' = "ready"
  /\ Stops
  /\ UNCHANGED <<hung, pending, failures, resets, rtnl, aer, port>>

\* The device is set ready, whether or not the firmware was restarted.
SetReady ==
  /\ \/ worker.pc = "ready"
     \/ worker.pc = "attach" /\ worker.i = NumPorts
  /\ dev' = "ready"
  /\ Rearms
  /\ IF worker.why = "timeout"
       THEN /\ port' = [p \in Ports |-> [port[p] EXCEPT !.count = 0]]
            /\ UNCHANGED failures
       ELSE /\ failures' = NextFailure(failures)
            /\ UNCHANGED port
  /\ UNCHANGED <<hung, pending, resets, rtnl, aer>>

-----------------------------------------------------------------------------
(* PCI error recovery: error_detected, slot_reset and resume are called for *)
(* function after function.                                                 *)

\* Mutant of AerDetected: the state of the device is not looked at.
AerDetectedUnasked ==
  /\ PciErrors
  /\ aer.pc = "idle" /\ dev # "failed"
  /\ dev' = "aer"
  /\ aer' = [pc |-> "detected", i |-> 0, ok |-> TRUE]
  /\ UNCHANGED <<envVars, fwVars, worker, rtnl, port>>

\* nx_dev_request_aer on function 0; refused, no function is detached.
AerDetected ==
  /\ PciErrors
  /\ aer.pc = "idle" /\ dev \in {"ready", "aer"}
  /\ dev' = "aer"
  /\ aer' = [pc |-> "detected", i |-> 0, ok |-> TRUE]
  /\ UNCHANGED <<envVars, fwVars, worker, rtnl, port>>

\* nx_nic_detach_func: adapter->lock is taken.
AerDetach ==
  LET p == aer.i IN
  /\ aer.pc = "detected" /\ p < NumPorts
  /\ port' = [port EXCEPT ![p].present = FALSE]
  /\ AerAt(IF port[p].running THEN "down" ELSE "detach")
  /\ UNCHANGED <<dev, envVars, fwVars, worker, rtnl>>

AerDown ==
  /\ aer.pc = "down"
  /\ NapiDisable(aer.i)
  /\ AerAt("flush")
  /\ UNCHANGED <<dev, envVars, fwVars, worker, rtnl>>

\* The flush is left out when in_atomic() sees adapter->lock, which it does in a
\* kernel that is built to be preempted, and in no other.
AerFlush ==
  /\ aer.pc = "flush"
  /\ \/ port[aer.i].isUp = "magic" /\ StartFlush("aer")
     \/ UNCHANGED flush
  /\ AerAt("timer")
  /\ UNCHANGED <<dev, hung, pending, fwVars, worker, rtnl, port>>

AerTimer ==
  /\ aer.pc = "timer" /\ flush["aer"] = {}
  /\ port' = [port EXCEPT ![aer.i].timer = FALSE]
  /\ AerAt("detach")
  /\ UNCHANGED <<dev, envVars, fwVars, worker, rtnl>>

AerFree ==
  LET p == aer.i IN
  /\ aer.pc = "detach"
  /\ port' = [port EXCEPT ![p].rings = FALSE, ![p].isUp = "no"]
  /\ aer' = [aer EXCEPT !.pc = "detected", !.i = @ + 1]
  /\ UNCHANGED <<dev, envVars, fwVars, worker, rtnl>>

\* nx_nic_attach_func: the firmware starts, on function 0, or is waited for.
AerSlotReset(ok) ==
  /\ \/ aer.pc = "detected" /\ aer.i = NumPorts
     \/ aer.pc = "slot" /\ aer.i < NumPorts
  /\ ok \/ MayFail
  /\ LET p == IF aer.pc = "slot" THEN aer.i ELSE 0 IN
       /\ hung' = (hung /\ ~(ok /\ p = 0))
       /\ aer' = IF ok
            THEN [aer EXCEPT !.i = p,
                             !.pc = IF port[p].running THEN "attach" ELSE "attached"]
            ELSE [pc |-> "slot", i |-> p + 1, ok |-> FALSE]
  /\ UNCHANGED <<dev, pending, flush, fwVars, worker, rtnl, port>>

AerFailed == aer' = [pc |-> "slot", i |-> aer.i + 1, ok |-> FALSE]

AerAttach(ok) ==
  /\ aer.pc = "attach"
  /\ Attach(aer.i, ok)
  /\ IF ok THEN AerAt("napi") ELSE AerFailed
  /\ UNCHANGED <<dev, envVars, fwVars, worker, rtnl>>

AerNapi ==
  /\ aer.pc = "napi"
  /\ NapiEnable(aer.i)
  /\ AerAt("init")
  /\ UNCHANGED <<dev, envVars, fwVars, worker, rtnl>>

AerInit(ok) ==
  /\ aer.pc = "init"
  /\ ok \/ MayFail
  /\ port' = [port EXCEPT ![aer.i].timer = @ \/ ok]
  /\ IF ok THEN AerAt("attached") ELSE AerFailed
  /\ UNCHANGED <<dev, envVars, fwVars, worker, rtnl>>

AerAttached ==
  /\ aer.pc = "attached"
  /\ port' = [port EXCEPT ![aer.i].present = TRUE]
  /\ aer' = [aer EXCEPT !.pc = "slot", !.i = @ + 1]
  /\ UNCHANGED <<dev, envVars, fwVars, worker, rtnl>>

\* nx_nic_io_resume, when every function was recovered.
AerEnd ==
  /\ aer.pc = "slot" /\ aer.i = NumPorts
  /\ dev' = IF aer.ok /\ dev = "aer" THEN "ready" ELSE dev
  /\ AerAt("idle")
  /\ UNCHANGED <<envVars, fwVars, worker, rtnl, port>>

-----------------------------------------------------------------------------
RtnlGoesOn ==
  \/ OpenNapi \/ CloseNapi \/ CloseFlush \/ CloseEnd
  \/ \E ok \in BOOLEAN : OpenAttach(ok) \/ OpenEnd(ok)

Reset ==
  \/ DetachPort \/ DetachDown \/ DetachFree \/ DetachedDead
  \/ AttachNapi \/ AttachedPort \/ SetReady
  \/ \E ok \in BOOLEAN : RestartFw(ok) \/ AttachPort(ok) \/ AttachInit(ok)

Watchdog ==
  \/ FwBusy \/ FwNoRequest \/ FwAlive \/ FwMissed \/ FwRefused
  \/ \E panic \in BOOLEAN : FwTemp(panic)
  \/ \E soon, fatal \in BOOLEAN :
       FwTimeoutReset(soon) \/ FwHangReset(soon, fatal)

AerGoesOn ==
  \/ AerDetach \/ AerDown \/ AerFlush \/ AerTimer \/ AerFree \/ AerNapi \/ AerAttached
  \/ AerEnd
  \/ \E ok \in BOOLEAN : AerSlotReset(ok) \/ AerAttach(ok) \/ AerInit(ok)

Tasks == Watchdog \/ Reset \/ \E p \in Ports : LinkTask(p) \/ TimeoutTask(p)

Next ==
  \/ Tasks \/ AerGoesOn \/ AerDetected \/ RtnlGoesOn
  \/ FwTimer \/ Hang
  \/ \E p \in Ports : \/ Open(p) \/ Close(p)
                      \/ LinkTimer(p) \/ TxTimeout(p) \/ TxProgress(p)

Spec == Init /\ [][Next]_vars

\* The threads go on as long as they can, an armed timer fires, and the work
\* queue, first in first out, passes nobody over for ever.
Fairness ==
  /\ WF_vars(Watchdog) /\ WF_vars(Reset)
  /\ \A p \in Ports : SF_vars(LinkTask(p)) /\ SF_vars(TimeoutTask(p))
  /\ WF_vars(AerGoesOn) /\ WF_vars(RtnlGoesOn)
  /\ WF_vars(FwTimer)

FairSpec == Spec /\ Fairness

-----------------------------------------------------------------------------
(* Properties.                                                             *)

\* The PCI handler holds adapter->lock of a port and waits for the work queue to end
\* the timeout task of that port, which spins on the lock: neither goes on.
Stuck == aer.pc = "timer" /\ <<"timeout", aer.i>> \in flush["aer"]

Resetting ==
  worker.pc \in {"detach", "down", "free", "attach", "napi", "init", "attached",
                "ready"}
Recovering == aer.pc # "idle"

Works == {FwWork} \cup ({"link", "timeout"} \X Ports)

PortStates ==
  [present : BOOLEAN, running : BOOLEAN, state : {"up", "down"},
   isUp : {"no", "magic", "resetting", "dead"},
   napi : BOOLEAN, rings : BOOLEAN, timer : BOOLEAN,
   count : 0 .. TimeoutThreshold + 1]

RegistersOK ==
  /\ dev \in {"ready", "timeout", "reset", "aer", "failed"}
  /\ hung \in BOOLEAN /\ fwTimer \in BOOLEAN
  /\ failures \in 0 .. FailurePeriod /\ resets \in 0 .. FailedThreshold - 1

QueueOK ==
  /\ pending \subseteq Works
  /\ flush \in [{"rtnl", "aer"} -> SUBSET Works]

ThreadsOK ==
  /\ worker \in [pc : {"idle", "requests", "alive", "detach", "down", "free",
                       "attach", "napi", "init", "attached", "ready"},
                 i : 0 .. NumPorts,
                 why : {"none", "panic", "timeout", "hang", "fatal"}]
  /\ rtnl \in [pc : {"idle", "open", "napi", "opened", "close", "flush",
                     "closed"}, i : Ports]
  /\ aer \in [pc : {"idle", "detected", "down", "flush", "timer", "detach",
                    "slot", "attach", "napi", "init", "attached"},
              i : 0 .. NumPorts, ok : BOOLEAN]

PortsOK == port \in [Ports -> PortStates]

\* The types, and the bounds of the counters: fw_alive_failures comes round
\* without a reset being missed, fwload_failed_count stays below its limit.
TypeOK == RegistersOK /\ QueueOK /\ ThreadsOK /\ PortsOK

\* The register UNM_FW_RESET says who recovers the card, so that the watchdog
\* and the PCI error handlers never work on the ports at the same time, apart
\* from the shutdown of an overheated card, which asks nobody.
RecoveryOwned ==
  /\ Recovering => dev = "aer"
  /\ Resetting =>
       \/ worker.why = "timeout" /\ dev = "timeout"
       \/ worker.why \in {"hang", "fatal"} /\ dev = "reset"
       \/ worker.why = "panic" /\ dev # "reset"
  /\ dev = "reset" => Resetting

\* Nobody touches an open or closed port whose NAPI is not as he needs it:
\* napi_enable would stop the machine, and napi_disable wait.
NapiBalanced ==
  /\ rtnl.pc = "napi" => ~port[rtnl.i].napi
  /\ worker.pc = "napi" => ~port[worker.i].napi
  /\ aer.pc = "napi" => ~port[aer.i].napi
  /\ rtnl.pc = "close" /\ Disables(rtnl.i) => port[rtnl.i].napi
  /\ worker.pc = "down" /\ Disables(worker.i) => port[worker.i].napi
  /\ aer.pc = "down" /\ Disables(aer.i) => port[aer.i].napi

\* What an open port has, and a closed one has not.
PortWhole(p) ==
  /\ port[p].present
  /\ port[p].running <=> port[p].state = "up"
  /\ port[p].running =>
       /\ port[p].isUp = "magic" /\ port[p].napi /\ port[p].rings
       /\ port[p].timer \/ <<"link", p>> \in pending
  /\ ~port[p].running => ~port[p].napi

=============================================================================
