---------------------------- MODULE NicLifecycle ----------------------------
(***************************************************************************)
(* What a function of the card holds of the kernel, from probe to remove   *)
(* (unm_nic_probe, unm_nic_attach, unm_nic_detach, cleanup_adapter and     *)
(* unm_nic_remove of driver/unm_nic_main.c), while interfaces are opened   *)
(* and closed, the system is suspended and resumed, and the function of    *)
(* port 0 watches the firmware and recovers all functions it finds on the  *)
(* bus.  Almost every acquisition may fail.                                *)
(***************************************************************************)
EXTENDS Naturals, FiniteSets

CONSTANTS
  Functions, Port0,
  Has,         \* what kernel, card and firmware provide: "aer" (PCI error reporting, on
               \* a P3), "msi", "lro", "pexq", and "fwfile", the firmware in a file
  MaxFaults    \* bound: acquisitions that fail, recoveries and suspends

ASSUME LifecycleAssumption ==
  /\ Port0 \in Functions /\ MaxFaults \in Nat
  /\ Has \subseteq {"aer", "msi", "lro", "pexq", "fwfile"}

\* What unm_nic_free_ring_context frees: the transmit buffers, the rings and areas
\* shared with the card, and rx_ctxs with all that hangs on it.
RingContext == {"txbufs", "dma", "rings"}
Attached == RingContext \cup {"irq"} \cup (Has \cap {"pexq"})
\* What cleanup_adapter gives back, by what the adapter's fields say.
Cleaned == {"pci", "regions", "aer", "bars", "doorbell", "msi", "dev", "sds", "lro"}

VARIABLES
  phase,     \* where probe and remove are
  held,      \* what the function holds, and can find
  lost,      \* what it holds no pointer to any more
  drvdata,   \* the driver data of the PCI device: "null", its net device ("own"), or that
             \* of an earlier probe ("stale")
  up,        \* is_up: "down", "up" (ADAPTER_UP_MAGIC) or "dead" (FW_DEAD)
  open,      \* the interface is running (and PORT_UP)
  present,   \* netif_device_present
  asleep,    \* suspended, or not resumed as yet
  timer,     \* watchdog_timer_fw_reset is armed
  work,      \* watchdog_task_fw_reset: "idle", "queued", or its step
  todo,      \* functions the walk over the bus has still to visit
  late,      \* history: the timer fired between remove's flush and del_timer_sync
  strays,    \* history: functions visited though their registers were not mapped
  excused,   \* history, per function: what may have been lost, and why
  faults

walk == <<timer, work, todo, late>>
iface == <<up, open, present, asleep>>
nicVars == <<phase, held, lost, drvdata, iface, walk, strays, excused, faults>>

NicInit ==
  /\ phase = [f \in Functions |-> "unbound"]
  /\ held = [f \in Functions |-> {}] /\ lost = [f \in Functions |-> {}]
  /\ drvdata = [f \in Functions |-> "null"]
  /\ up = [f \in Functions |-> "down"] /\ open = [f \in Functions |-> FALSE]
  /\ present = [f \in Functions |-> TRUE] /\ asleep = [f \in Functions |-> FALSE]
  /\ timer = FALSE /\ work = "idle" /\ todo = {} /\ late = FALSE
  /\ strays = {} /\ faults = 0
  /\ excused = [f \in Functions |-> {}]

At(f, p) == phase[f] = p
Go(f, p) == phase' = [phase EXCEPT ![f] = p]
Fault == faults < MaxFaults /\ faults' = faults + 1
Now(f, h, l) == held' = [held EXCEPT ![f] = h] /\ lost' = [lost EXCEPT ![f] = l]
Excuse(f, why) == excused' = [excused EXCEPT ![f] = @ \cup {why}]
Walking == work \notin {"idle", "queued"}

\* Storing a new pointer over one that is still needed loses what that led to.
Acquire(f, S) == Now(f, held[f] \cup S, lost[f] \cup (held[f] \cap S))
-----------------------------------------------------------------------------
\* The errors up to the allocation of the net device undo what was done - except
\* for error reporting, which is decided by revision_id before it was read.
ProbeEnable(f) ==
  /\ At(f, "unbound")
  /\ (f = Port0) => ~timer /\ work = "idle"
  /\ \E aer \in SUBSET (Has \cap {"aer"}) :
       \/ /\ Now(f, {"pci", "regions", "netdev"} \cup aer, lost[f])
          /\ Go(f, "enabled")
          /\ UNCHANGED <<drvdata, excused, faults>>
       \/ /\ Fault /\ Now(f, {}, lost[f] \cup aer)
          /\ drvdata' = [drvdata EXCEPT ![f] = "null"]
          /\ Excuse(f, "probe")
          /\ UNCHANGED phase
  /\ UNCHANGED <<iface, walk, strays>>

\* Mutant of CleanupAdapter: the rings of the polls are not freed.
CleanupKeepsSds(h) == h \ (Cleaned \ {"sds"})

\* What cleanup_adapter leaves: the net device it works on, and whatever else.
CleanupAdapter(h) == h \ Cleaned

\* err_ret of unm_nic_probe.  Nothing remembers what cleanup_adapter left; the
\* driver data stays as it is.
ProbeFails(f, h, gone) ==
  /\ Fault
  /\ Now(f, {}, lost[f] \cup gone \cup CleanupAdapter(h \ {"fwfile"}))
  /\ Go(f, "unbound")
  /\ drvdata' = [drvdata EXCEPT ![f] = IF @ = "own" THEN "stale" ELSE @]
  /\ Excuse(f, "probe")
  /\ UNCHANGED <<walk, iface, strays>>

\* Of the three mappings of a P2 some may fail; the others are then in no field.
ProbeMap(f) ==
  /\ At(f, "enabled")
  /\ \/ /\ Acquire(f, {"bars", "doorbell"})
        /\ Go(f, "mapped")
        /\ UNCHANGED <<drvdata, iface, walk, strays, excused, faults>>
     \/ \E gone \in {{}, {"bars"}} : ProbeFails(f, held[f], gone)

\* Board, serial number, versions in the flash; then port 0 starts the firmware.
\* A file loaded earlier is used again; the dummy DMA area may not be had.
FirmwareThings(f) ==
  IF f = Port0 THEN {d \cup ((Has \cap {"fwfile"}) \ held[f]) : d \in {{}, {"dummy"}}}
  ELSE {{}}

ProbeFirmware(f) ==
  /\ At(f, "mapped")
  /\ \/ ProbeFails(f, held[f], {})
     \/ \E S \in FirmwareThings(f) :
          \/ /\ Acquire(f, S) /\ Go(f, "started")
             /\ UNCHANGED <<drvdata, iface, walk, strays, excused, faults>>
          \/ ProbeFails(f, held[f] \cup S, {})

\* Interrupts, contexts, the rings of the polls, LRO, proc entries.
ProbeAlloc(f) ==
  /\ At(f, "started")
  /\ \/ /\ Acquire(f, (Has \cap {"msi", "lro"}) \cup {"dev", "sds"})
        /\ Go(f, "ready")
        /\ drvdata' = [drvdata EXCEPT ![f] = "own"]
        /\ up' = [up EXCEPT ![f] = "down"] /\ present' = [present EXCEPT ![f] = TRUE]
        /\ IF Walking THEN Excuse(f, "both") ELSE UNCHANGED excused
        /\ UNCHANGED <<open, asleep, walk, strays, faults>>
     \/ \E S \in {{}, {"dev", "sds"}} :
          ProbeFails(f, held[f] \cup S \cup (Has \cap {"msi"}), {})

\* register_netdev, and the timer of port 0.
ProbeRegister(f) ==
  /\ At(f, "ready")
  /\ \/ /\ Acquire(f, {"registered"})
        /\ Go(f, "bound")
        /\ timer' = (timer \/ f = Port0)
        /\ UNCHANGED <<drvdata, work, todo, late, iface, strays, excused, faults>>
     \/ ProbeFails(f, held[f], {})
-----------------------------------------------------------------------------
\* unm_nic_attach.  It may fail before anything is done (driver_mismatch,
\* init_firmware), after any allocation, in which case all of the ring context is
\* freed, or at the port, when everything is kept.  Memory for PexQ is allocated if
\* the firmware has it.  An interface whose firmware was declared dead is not up: new
\* pointers replace the old ones before the card refuses the context, and the error
\* path then frees the receive contexts but not their interrupts.
AttachFails(f) ==
  /\ Fault
  /\ \/ UNCHANGED <<held, lost>>
     \/ /\ up[f] = "down"
        /\ \E p \in SUBSET (Has \cap {"pexq"}) :
             Now(f, (held[f] \ RingContext) \cup p, lost[f] \cup (held[f] \cap p))
     \/ /\ up[f] = "dead"
        /\ Now(f, held[f] \ RingContext, lost[f] \cup (held[f] \cap {"txbufs", "dma"}))
  /\ UNCHANGED up

AttachWorks(f) ==
  /\ up[f] # "dead"
  /\ up' = [up EXCEPT ![f] = "up"]
  /\ IF up[f] = "up" THEN UNCHANGED <<held, lost>>
     ELSE Acquire(f, Attached)

\* unm_nic_detach: interrupts are freed by way of the receive contexts, and only if
\* is_up says so.
Detach(f) ==
  held[f] \ (RingContext \cup {"pexq", "dummy"}
             \cup IF up[f] # "down" /\ "rings" \in held[f] THEN {"irq"} ELSE {})

\* dev_open refuses a device that is not present.  After an open that failed at the
\* port, or at the MAC address of a P2, the interface is up and does not run.
Open(f) ==
  /\ At(f, "bound") /\ ~open[f] /\ present[f]
  /\ \/ AttachWorks(f) /\ open' = [open EXCEPT ![f] = TRUE] /\ UNCHANGED faults
     \/ AttachWorks(f) /\ Fault /\ UNCHANGED open
     \/ AttachFails(f) /\ UNCHANGED open
  /\ IF up[f] = "dead" THEN Excuse(f, "dead")
     ELSE IF up'[f] = "down" /\ "pexq" \in held'[f] THEN Excuse(f, "pexq")
     ELSE UNCHANGED excused
  /\ UNCHANGED <<phase, drvdata, present, asleep, walk, strays>>

\* unm_nic_close: what attach acquired is kept.
Close(f) ==
  /\ At(f, "bound") /\ open[f]
  /\ open' = [open EXCEPT ![f] = FALSE]
  /\ UNCHANGED <<phase, held, lost, drvdata, up, present, asleep, walk, strays,
                 excused, faults>>
-----------------------------------------------------------------------------
\* unm_nic_suspend, and nx_nic_io_error_detected: the firmware watchdog goes on.
Suspend(f) ==
  /\ At(f, "bound") /\ ~asleep[f] /\ Fault
  /\ asleep' = [asleep EXCEPT ![f] = TRUE]
  /\ present' = [present EXCEPT ![f] = FALSE]
  /\ up' = [up EXCEPT ![f] = "down"]
  /\ Now(f, Detach(f) \ {"lro", "pci"}, lost[f])
  /\ UNCHANGED <<phase, drvdata, open, walk, strays, excused>>

\* unm_nic_resume, or nx_nic_io_slot_reset; an error on the way leaves the rest
\* undone.
Resume(f) ==
  /\ At(f, "bound") /\ asleep[f]
  /\ \/ /\ Fault /\ UNCHANGED <<held, lost, up, asleep, present>>
     \/ /\ Fault
        /\ \E S \in FirmwareThings(f) : Acquire(f, S \cup {"pci"})
        /\ asleep' = [asleep EXCEPT ![f] = FALSE]
        /\ UNCHANGED <<up, present>>
     \/ /\ \E S \in FirmwareThings(f), l \in SUBSET (Has \cap {"lro"}) :
             Acquire(f, S \cup l \cup {"pci"}
                        \cup IF open[f] /\ up[f] = "down" THEN Attached ELSE {})
        /\ up' = [up EXCEPT ![f] = IF open[f] THEN "up" ELSE @]
        /\ asleep' = [asleep EXCEPT ![f] = FALSE]
        /\ present' = [present EXCEPT ![f] = TRUE]
        /\ UNCHANGED faults
  /\ IF Walking \/ present[f] THEN Excuse(f, "both") ELSE UNCHANGED excused
  /\ UNCHANGED <<phase, drvdata, open, walk, strays>>
-----------------------------------------------------------------------------
\* unm_watchdog_fw_reset queues the work; a timer that outlives its adapter is not
\* followed further.
WatchdogFires ==
  /\ timer /\ phase[Port0] # "unbound"
  /\ timer' = FALSE
  /\ work' = IF work = "idle" THEN "queued" ELSE work
  /\ late' = (late \/ phase[Port0] = "flushed")
  /\ UNCHANGED <<phase, held, lost, drvdata, iface, todo, strays, excused, faults>>

\* unm_watchdog_task_fw_reset: nothing wrong, a reset, an overheated card, firmware
\* that says it is dead, or one reset too many (nothing is looked at again).
WatchdogRuns ==
  /\ work = "queued" /\ phase[Port0] # "unbound"
  /\ \/ work' = "idle" /\ timer' = TRUE /\ UNCHANGED <<todo, faults>>
     \/ Fault /\ work' = "idle" /\ UNCHANGED <<timer, todo>>
     \/ /\ Fault /\ work' \in {"detach", "heated", "dead"} /\ todo' = Functions
        /\ UNCHANGED timer
  /\ UNCHANGED <<phase, held, lost, drvdata, iface, late, strays, excused>>

\* The driver data is that of a function whose registers are mapped; otherwise nothing
\* more is followed.
Visible(g) == drvdata[g] = "own" /\ "bars" \in held[g]

\* One device of the list of the bus, while probes and removals go on.
Visit(g) ==
  /\ g \in todo /\ phase[Port0] # "unbound"
  /\ todo' = todo \ {g}
  /\ strays' = IF drvdata[g] # "null" /\ ~Visible(g)
               THEN strays \cup {<<g, drvdata[g], phase[g]>>} ELSE strays
  /\ UNCHANGED <<phase, drvdata, open, asleep, timer, work, late>>

Skip(g) ==
  /\ Visit(g) /\ ~Visible(g)
  /\ UNCHANGED <<held, lost, up, present, excused, faults>>

VisitDetach(g) ==
  /\ Visit(g) /\ Visible(g) /\ work \in {"detach", "heated"}
  /\ present' = [present EXCEPT ![g] = FALSE]
  /\ Now(g, Detach(g) \ {"lro"}, lost[g])
  /\ up' = [up EXCEPT ![g] = "down"]
  /\ UNCHANGED <<excused, faults>>

VisitDead(g) ==
  /\ Visit(g) /\ Visible(g) /\ work = "dead"
  /\ up' = [up EXCEPT ![g] = "dead"]
  /\ UNCHANGED <<held, lost, present, excused, faults>>

\* The outcome of the attachment is ignored.
VisitAttach(g) ==
  /\ Visit(g) /\ Visible(g) /\ work = "attach"
  /\ \E l \in SUBSET (Has \cap {"lro"}),
        a \in {{}, Attached} :
       /\ a # {} => open[g] /\ up[g] = "down"
       /\ IF open[g] /\ up[g] = "down" /\ a = {} THEN Fault ELSE UNCHANGED faults
       /\ Acquire(g, l \cup a)
       /\ up' = [up EXCEPT ![g] = IF a # {} THEN "up" ELSE @]
  /\ present' = [present EXCEPT ![g] = TRUE]
  /\ IF asleep[g] THEN Excuse(g, "both") ELSE UNCHANGED excused

\* netxen_nic_restart_fw finds port 0 by its driver data; it may fail.
RestartFirmware ==
  /\ work = "detach" /\ todo = {} /\ phase[Port0] # "unbound"
  /\ \/ /\ Visible(Port0)
        /\ \E S \in FirmwareThings(Port0) : Acquire(Port0, S)
        /\ work' = "attach" /\ todo' = Functions /\ UNCHANGED <<timer, faults>>
     \/ /\ Visible(Port0) => Fault
        /\ (~Visible(Port0)) => UNCHANGED faults
        /\ work' = "idle" /\ timer' = TRUE
        /\ UNCHANGED <<held, lost, todo>>
  /\ UNCHANGED <<phase, drvdata, iface, late, strays, excused>>

\* After a reset the timer is armed again, whatever has become of the adapter.
WalkEnds ==
  /\ work \in {"attach", "heated", "dead"} /\ todo = {} /\ phase[Port0] # "unbound"
  /\ timer' = (timer \/ work = "attach") /\ work' = "idle"
  /\ UNCHANGED <<phase, held, lost, drvdata, iface, todo, late, strays, excused, faults>>
-----------------------------------------------------------------------------
\* unm_nic_remove.  For port 0 the work is waited for, and then the timer deleted.
\* Mutant of RemoveFlushes: only the timer is deleted.
RemoveWithoutFlush(f) ==
  /\ At(f, "bound")
  /\ Go(f, "flushed")
  /\ UNCHANGED <<held, lost, drvdata, iface, walk, strays, excused, faults>>

RemoveFlushes(f) ==
  /\ At(f, "bound")
  /\ (f = Port0) => work = "idle"
  /\ Go(f, "flushed")
  /\ UNCHANGED <<held, lost, drvdata, iface, walk, strays, excused, faults>>

RemoveTimer(f) ==
  /\ At(f, "flushed")
  /\ Go(f, "untimed")
  /\ timer' = (timer /\ f # Port0)
  /\ UNCHANGED <<held, lost, drvdata, iface, work, todo, late, strays, excused, faults>>

\* unregister_netdev closes the interface; unm_nic_detach.
RemoveDetaches(f) ==
  /\ At(f, "untimed")
  /\ Go(f, "detached")
  /\ Now(f, Detach(f) \ {"registered"}, lost[f])
  /\ up' = [up EXCEPT ![f] = "down"] /\ open' = [open EXCEPT ![f] = FALSE]
  /\ UNCHANGED <<drvdata, present, asleep, walk, strays, excused, faults>>

RemoveCleans(f) ==
  /\ At(f, "detached")
  /\ Go(f, "cleaned")
  /\ Now(f, CleanupAdapter(held[f] \ {"fwfile"}), lost[f])
  /\ UNCHANGED <<drvdata, iface, walk, strays, excused, faults>>

\* Mutant of RemoveEnds: the driver data stays.
RemoveKeepsDrvdata(f) ==
  /\ At(f, "cleaned")
  /\ Go(f, "unbound")
  /\ Now(f, {}, lost[f] \cup (held[f] \ {"netdev"}))
  /\ asleep' = [asleep EXCEPT ![f] = FALSE]
  /\ UNCHANGED <<drvdata, up, open, present, walk, strays, excused, faults>>

\* What is still held when the net device is freed is lost.
RemoveEnds(f) ==
  /\ At(f, "cleaned")
  /\ Go(f, "unbound")
  /\ Now(f, {}, lost[f] \cup (held[f] \ {"netdev"}))
  /\ drvdata' = [drvdata EXCEPT ![f] = "null"]
  /\ asleep' = [asleep EXCEPT ![f] = FALSE]
  /\ UNCHANGED <<up, open, present, walk, strays, excused, faults>>

NicNext ==
  \/ WatchdogFires \/ WatchdogRuns \/ RestartFirmware \/ WalkEnds
  \/ \E f \in Functions :
       \/ ProbeEnable(f) \/ ProbeMap(f) \/ ProbeFirmware(f) \/ ProbeAlloc(f)
       \/ ProbeRegister(f) \/ Open(f) \/ Close(f) \/ Suspend(f) \/ Resume(f)
       \/ Skip(f) \/ VisitDetach(f) \/ VisitDead(f) \/ VisitAttach(f)
       \/ RemoveFlushes(f) \/ RemoveTimer(f) \/ RemoveDetaches(f) \/ RemoveCleans(f)
       \/ RemoveEnds(f)
-----------------------------------------------------------------------------
\* What a failed probe, an interface opened though its firmware is dead, one opened
\* again after it failed behind the allocation of PexQ, and a recovery that crosses a
\* probe or a resume may lose.
Explained(f) ==
  (IF "probe" \in excused[f] THEN {"netdev", "dummy", "aer", "bars"} ELSE {})
  \cup (IF "dead" \in excused[f] THEN {"txbufs", "dma", "irq"} ELSE {})
  \cup (IF "pexq" \in excused[f] THEN {"pexq"} ELSE {})
  \cup (IF "both" \in excused[f] THEN {"lro", "dummy"} ELSE {})

\* A function gives back all it acquired - memory, interrupts, mappings, firmware
\* file, LRO tables - whatever failed and in whatever order it was opened,
\* suspended, recovered and removed, but for the explained exceptions and a recovery
\* that runs while port 0 is removed
\* (cleanup_adapter, unm_nic_detach, unm_nic_remove).
GivenBack ==
  \A f \in Functions : lost[f] \subseteq Explained(f) \/ (f = Port0 /\ late)

\* Once the function of port 0 is removed, its timer and its work are neither armed
\* nor queued, as long as the timer did not fire between the flush of the work and
\* del_timer_sync (unm_nic_remove).
WatchdogOfTheBound ==
  (phase[Port0] \in {"untimed", "detached", "cleaned", "unbound"} /\ ~late) =>
     ~timer /\ work = "idle"

\* The recovery of all functions of the card, which takes any driver data it finds
\* on the bus for a net device, visits none whose registers are unmapped, unless its
\* registration failed or it is just being removed (netxen_nic_detach_all_ports,
\* netxen_nic_attach_all_ports).
RecoveryOnMapped ==
  \A s \in strays : s[2] = "stale" \/ s[3] = "cleaned"
=============================================================================
