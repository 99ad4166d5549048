---------------------------- MODULE PortControl ----------------------------
(***************************************************************************)
(* The 10G ports of a P2 card, whose receivers the driver programs itself  *)
(* (driver/niu.c, unm_nic_hw.c from 1836 on, nx_nic_p2_set_multi and       *)
(* unm_nic_handle_phy_intr of unm_nic_main.c): the stack changes what a    *)
(* port is to receive while it is opened, closed and reset, and the        *)
(* watchdog of the port follows its link.  The two ports share the counter *)
(* of frames not drained and the control register of the address filter.   *)
(***************************************************************************)
EXTENDS Naturals

CONSTANTS
  XgPorts,                \* the ports
  Addrs, XgMtus,
  MaxXgCalls, MaxResets   \* bounds: calls from outside, resets

ASSUME PortAssumption == XgMtus # {} /\ XgMtus \subseteq Nat

VARIABLES
  want,        \* "none": no group address; "some": a few; "all": promiscuous, or too many
  addr, mtuOf,
  started,     \* netif_running
  listed,      \* IFF_UP: the stack passes changes of its list on
  xctl,        \* the step of open, close, set_mac and of the reset, of which there is one
  multi,       \* the step of nx_nic_p2_set_multi, in the stack and in attach
  promisc, mcEnabled,                \* of the adapter
  rxOn, promBit, regs,               \* the registers of a port
  frameSel, cntl, fifo,              \* those of all ports, and what is left to drain
  cable, linkup, carrier,            \* the link: the card's, the driver's, the stack's
  timer, work,                       \* watchdog_timer and watchdog_task
  late,        \* history: the link was noticed while the port was going up or down
  crossed,     \* history: the stack's set_multi met an open, a close or a reset
  missed,      \* history: the list changed while the stack took the port for absent
  undrained,   \* history: the last switch of the mode was given up
  xgCalls, resets

receiver == <<promisc, mcEnabled, rxOn, promBit, regs, frameSel, cntl, fifo>>
link == <<cable, linkup, carrier, timer, work, late>>
asked == <<want, addr, mtuOf, started, listed>>
hist == <<crossed, missed, undrained>>
xgCount == <<xgCalls, resets>>
portVars == <<asked, xctl, multi, receiver, link, hist, xgCount>>

XgThreads == {"stack", "attach"}
MultiIdle == [pc |-> "idle", for |-> "none", ok |-> TRUE]
Every(v) == [p \in XgPorts |-> v]
MTU_FUDGE_FACTOR == 100

PortInit ==
  /\ want = Every("none") /\ addr \in [XgPorts -> Addrs] /\ mtuOf = Every(CHOOSE m \in XgMtus : TRUE)
  /\ started = Every(FALSE) /\ listed = Every(FALSE) /\ xctl = Every("idle")
  /\ multi = [t \in XgThreads |-> Every(MultiIdle)]
  /\ promisc = Every(FALSE) /\ mcEnabled = Every(FALSE)
  /\ rxOn = Every(FALSE) /\ promBit = Every(FALSE)
  /\ regs = Every([mac |-> CHOOSE a \in Addrs : TRUE, frame |-> 0])
  /\ frameSel \in XgPorts /\ cntl = FALSE /\ fifo = Every(0)
  /\ cable = Every(FALSE) /\ linkup = Every(FALSE) /\ carrier = Every(FALSE)
  /\ timer = Every(FALSE) /\ work = Every("idle")
  /\ late = Every(FALSE) /\ crossed = Every(FALSE) /\ missed = Every(FALSE)
  /\ undrained = Every(FALSE) /\ xgCalls = 0 /\ resets = 0

XgGo(p, s) == xctl' = [xctl EXCEPT ![p] = s]
XgCall == xgCalls < MaxXgCalls /\ xgCalls' = xgCalls + 1 /\ UNCHANGED resets
XgAlone == \A q \in XgPorts : xctl[q] = "idle"
Busy(t, p) == multi[t][p].pc # "idle"
-----------------------------------------------------------------------------
\* nx_nic_p2_set_multi.  A port that is to see any group address is made promiscuous.
Promiscuous(w) == w # "none"

\* The switch of the mode begins with the receiver off and its frames counted; a mode the
\* adapter is in already is not switched.
MultiBegins(t, p) ==
  /\ multi[t][p].pc = "begin"
  /\ LET switch == promisc[p] # Promiscuous(want[p]) IN
       /\ multi' = [multi EXCEPT ![t][p] = [pc |-> IF switch THEN "drain" ELSE "filter",
                                            for |-> want[p], ok |-> TRUE]]
       /\ rxOn' = IF switch THEN [rxOn EXCEPT ![p] = FALSE] ELSE rxOn
       /\ frameSel' = IF switch THEN p ELSE frameSel
       /\ undrained' = [undrained EXCEPT ![p] = FALSE]
  /\ missed' = [missed EXCEPT ![p] = FALSE]
  /\ crossed' = [crossed EXCEPT ![p] =
                   @ \/ (t = "stack" /\ ~(listed[p] /\ xctl[p] \in {"idle", "mac"}))]
  /\ UNCHANGED <<asked, xctl, promisc, mcEnabled, promBit, regs, cntl, fifo, link, xgCount>>

\* The frames of the port that was selected last are waited for, at most 20 times.
MultiDrains(t, p) ==
  /\ multi[t][p].pc = "drain"
  /\ LET drained == fifo[frameSel] = 0 IN
       /\ multi' = [multi EXCEPT ![t][p] = [@ EXCEPT !.pc = IF drained THEN "switch" ELSE "on",
                                                     !.ok = drained]]
       /\ undrained' = [undrained EXCEPT ![p] = ~drained]
  /\ UNCHANGED <<asked, xctl, receiver, link, crossed, missed, xgCount>>

MultiSwitches(t, p) ==
  /\ multi[t][p].pc = "switch"
  /\ promBit' = [promBit EXCEPT ![p] = Promiscuous(multi[t][p].for)]
  /\ multi' = [multi EXCEPT ![t][p].pc = "on"]
  /\ UNCHANGED <<asked, xctl, promisc, mcEnabled, rxOn, regs, frameSel, cntl, fifo, link, hist,
                 xgCount>>

\* Mutant of RxAgain: a mode that could not be switched leaves the receiver off.
RxAgainIf(ok) == ok

\* "trun the mac on back", whether it drained or not.
RxAgain(ok) == TRUE

MultiEnables(t, p) ==
  /\ multi[t][p].pc = "on"
  /\ rxOn' = [rxOn EXCEPT ![p] = RxAgain(multi[t][p].ok)]
  /\ promisc' = IF multi[t][p].ok
                THEN [promisc EXCEPT ![p] = Promiscuous(multi[t][p].for)] ELSE promisc
  /\ multi' = [multi EXCEPT ![t][p].pc = "filter"]
  /\ UNCHANGED <<asked, xctl, mcEnabled, promBit, regs, frameSel, cntl, fifo, link, hist, xgCount>>

\* unm_nic_enable_mcast_filter and its counterpart write the control register of all ports.
MultiFilters(t, p) ==
  /\ multi[t][p].pc = "filter"
  /\ LET on == multi[t][p].for = "some" IN
       /\ mcEnabled' = [mcEnabled EXCEPT ![p] = on]
       /\ cntl' = IF mcEnabled[p] = on THEN cntl ELSE on
  /\ multi' = [multi EXCEPT ![t][p] = MultiIdle]
  /\ UNCHANGED <<asked, xctl, promisc, rxOn, promBit, regs, frameSel, fifo, link, hist, xgCount>>

Multi(t, p) ==
  \/ MultiBegins(t, p) \/ MultiDrains(t, p) \/ MultiSwitches(t, p)
  \/ MultiEnables(t, p) \/ MultiFilters(t, p)

FrameComes(p) ==
  /\ rxOn[p] /\ fifo[p] = 0 /\ fifo' = [fifo EXCEPT ![p] = 1]
  /\ UNCHANGED <<asked, xctl, multi, promisc, mcEnabled, rxOn, promBit, regs, frameSel, cntl,
                 link, hist, xgCount>>

FramesDrain(p) ==
  /\ fifo[p] > 0 /\ fifo' = [fifo EXCEPT ![p] = 0]
  /\ UNCHANGED <<asked, xctl, multi, promisc, mcEnabled, rxOn, promBit, regs, frameSel, cntl,
                 link, hist, xgCount>>
-----------------------------------------------------------------------------
\* The stack.  It passes a change on if the interface is up and not detached; a close
\* takes IFF_UP away when it is done, set_mac and the reset detach the device.
Absent(p) == started[p] /\ xctl[p] # "idle"

ListChanges(p) ==
  /\ XgCall /\ ~Busy("stack", p)
  /\ \E v \in {"none", "some", "all"} \ {want[p]} : want' = [want EXCEPT ![p] = v]
  /\ IF listed[p] /\ ~Absent(p)
     THEN multi' = [multi EXCEPT !["stack"][p].pc = "begin"] /\ UNCHANGED missed
     ELSE missed' = [missed EXCEPT ![p] = listed[p]] /\ UNCHANGED multi
  /\ UNCHANGED <<addr, mtuOf, started, listed, xctl, receiver, link, crossed, undrained>>

\* unm_nic_set_mac and nx_nic_fw34_change_mtu; attach does for a closed port.
MacChanges(p) ==
  /\ XgCall /\ XgAlone
  /\ \E a \in Addrs \ {addr[p]} : addr' = [addr EXCEPT ![p] = a]
  /\ IF listed[p] THEN XgGo(p, "mac") ELSE UNCHANGED xctl
  /\ UNCHANGED <<want, mtuOf, started, listed, multi, receiver, link, hist>>

MacSet(p) ==
  /\ xctl[p] = "mac" /\ regs' = [regs EXCEPT ![p].mac = addr[p]] /\ XgGo(p, "idle")
  /\ UNCHANGED <<asked, multi, promisc, mcEnabled, rxOn, promBit, frameSel, cntl, fifo, link,
                 hist, xgCount>>

MtuChanges(p) ==
  /\ XgCall /\ XgAlone
  /\ \E m \in XgMtus \ {mtuOf[p]} :
       /\ mtuOf' = [mtuOf EXCEPT ![p] = m]
       /\ regs' = [regs EXCEPT ![p].frame = m + MTU_FUDGE_FACTOR]
  /\ UNCHANGED <<want, addr, started, listed, xctl, multi, promisc, mcEnabled, rxOn, promBit,
                 frameSel, cntl, fifo, link, hist>>
-----------------------------------------------------------------------------
\* unm_nic_attach: of an open, and of a reset.
PortOpens(p) ==
  /\ XgCall /\ XgAlone /\ ~started[p]
  /\ started' = [started EXCEPT ![p] = TRUE] /\ XgGo(p, "init")
  /\ UNCHANGED <<want, addr, mtuOf, listed, multi, receiver, link, hist>>

\* The address, then unm_nic_init_port, whose value for the first register turns the
\* receiver on.
InitPort(p) ==
  /\ xctl[p] = "init"
  /\ regs' = [regs EXCEPT ![p].mac = addr[p]]
  /\ rxOn' = [rxOn EXCEPT ![p] = TRUE] /\ promBit' = [promBit EXCEPT ![p] = FALSE]
  /\ multi' = [multi EXCEPT !["attach"][p].pc = "begin"] /\ XgGo(p, "multi")
  /\ crossed' = [crossed EXCEPT ![p] = @ \/ Busy("stack", p)]
  /\ UNCHANGED <<asked, promisc, mcEnabled, frameSel, cntl, fifo, link, missed, undrained, xgCount>>

\* The MTU, and the driver forgets the link; dev_open then passes the list on once more.
AttachEnds(p) ==
  /\ xctl[p] = "multi" /\ ~Busy("attach", p) /\ XgGo(p, "idle")
  /\ listed[p] \/ ~Busy("stack", p)
  /\ regs' = [regs EXCEPT ![p].frame = mtuOf[p] + MTU_FUDGE_FACTOR]
  /\ linkup' = [linkup EXCEPT ![p] = FALSE] /\ timer' = [timer EXCEPT ![p] = TRUE]
  /\ listed' = [listed EXCEPT ![p] = TRUE]
  /\ multi' = IF listed[p] THEN multi ELSE [multi EXCEPT !["stack"][p].pc = "begin"]
  /\ UNCHANGED <<want, addr, mtuOf, started, promisc, mcEnabled, rxOn, promBit, frameSel, cntl,
                 fifo, cable, carrier, work, late, hist, xgCount>>

\* unm_nic_down: of a close, and of a reset, which leaves the interface running.
PortCloses(p) ==
  /\ XgCall /\ XgAlone /\ started[p]
  /\ started' = [started EXCEPT ![p] = FALSE]
  /\ carrier' = [carrier EXCEPT ![p] = FALSE] /\ XgGo(p, "stop")
  /\ UNCHANGED <<want, addr, mtuOf, listed, multi, receiver, cable, linkup, timer, work, late, hist>>

PortResets(p) ==
  /\ resets < MaxResets /\ resets' = resets + 1 /\ UNCHANGED xgCalls
  /\ XgAlone /\ listed[p]
  /\ carrier' = [carrier EXCEPT ![p] = FALSE] /\ XgGo(p, "stop")
  /\ UNCHANGED <<asked, multi, receiver, cable, linkup, timer, work, late, hist>>

\* nx_nic_p2_stop_port.
StopPort(p) ==
  /\ xctl[p] = "stop" /\ XgGo(p, IF started[p] THEN "timer" ELSE "flush")
  /\ rxOn' = [rxOn EXCEPT ![p] = FALSE] /\ promisc' = [promisc EXCEPT ![p] = FALSE]
  /\ crossed' = [crossed EXCEPT ![p] = @ \/ Busy("stack", p)]
  /\ UNCHANGED <<asked, multi, mcEnabled, promBit, regs, frameSel, cntl, fifo, link, missed,
                 undrained, xgCount>>

\* Only a close flushes the work: is_up is FW_RESETTING in a reset.
FlushWork(p) ==
  /\ xctl[p] = "flush" /\ work[p] = "idle" /\ XgGo(p, "timer")
  /\ UNCHANGED <<asked, multi, receiver, link, hist, xgCount>>

DelTimer(p) ==
  /\ xctl[p] = "timer" /\ timer' = [timer EXCEPT ![p] = FALSE]
  /\ XgGo(p, IF started[p] THEN "init" ELSE "idle")
  /\ listed' = [listed EXCEPT ![p] = started[p]]
  /\ UNCHANGED <<want, addr, mtuOf, started, multi, receiver, cable, linkup, carrier, work, late,
                 hist, xgCount>>
-----------------------------------------------------------------------------
CableChanges(p) ==
  /\ XgCall /\ cable' = [cable EXCEPT ![p] = ~@]
  /\ UNCHANGED <<asked, xctl, multi, receiver, linkup, carrier, timer, work, late, hist>>

TimerFires(p) ==
  /\ timer[p] /\ work[p] = "idle"
  /\ timer' = [timer EXCEPT ![p] = FALSE] /\ work' = [work EXCEPT ![p] = "queued"]
  /\ UNCHANGED <<asked, xctl, multi, receiver, cable, linkup, carrier, late, hist, xgCount>>

\* unm_watchdog_task of an interface that is not running is not repeated.
TaskBegins(p) ==
  /\ work[p] = "queued"
  /\ work' = [work EXCEPT ![p] = IF started[p] THEN "phy" ELSE "idle"]
  /\ UNCHANGED <<asked, xctl, multi, receiver, cable, linkup, carrier, timer, late, hist, xgCount>>

HandlePhyIntr(p) ==
  /\ work[p] = "phy" /\ work' = [work EXCEPT ![p] = "arm"]
  /\ IF linkup[p] = cable[p] THEN UNCHANGED <<linkup, carrier, late>>
     ELSE /\ linkup' = [linkup EXCEPT ![p] = cable[p]]
          /\ carrier' = [carrier EXCEPT ![p] = cable[p]]
          /\ late' = [late EXCEPT ![p] = xctl[p] \notin {"idle", "mac"}]
  /\ UNCHANGED <<asked, xctl, multi, receiver, cable, timer, hist, xgCount>>

TaskArms(p) ==
  /\ work[p] = "arm" /\ work' = [work EXCEPT ![p] = "idle"] /\ timer' = [timer EXCEPT ![p] = TRUE]
  /\ UNCHANGED <<asked, xctl, multi, receiver, cable, linkup, carrier, late, hist, xgCount>>
-----------------------------------------------------------------------------
PortNext == \E p \in XgPorts :
  \/ \E t \in XgThreads : Multi(t, p)
  \/ FrameComes(p) \/ FramesDrain(p)
  \/ ListChanges(p) \/ MacChanges(p) \/ MacSet(p) \/ MtuChanges(p)
  \/ PortOpens(p) \/ InitPort(p) \/ AttachEnds(p)
  \/ PortCloses(p) \/ PortResets(p) \/ StopPort(p) \/ FlushWork(p) \/ DelTimer(p)
  \/ CableChanges(p) \/ TimerFires(p) \/ TaskBegins(p) \/ HandlePhyIntr(p) \/ TaskArms(p)

PortSpec == PortInit /\ [][PortNext]_portVars

AtRest(p) == listed[p] /\ xctl[p] = "idle" /\ \A t \in XgThreads : ~Busy(t, p)

\* An open port at rest receives, in the mode the stack wants and the adapter remembers
\* unless the last switch was given up (niu.c:643), and the stack's carrier is the
\* driver's link, which the watchdog still follows: over closes, resets and the two ports'
\* switches at once.  Not so where the stack's set_multi crossed an open, a close or a
\* reset of the port, or the link was noticed in the middle of one.
PortRight == \A p \in XgPorts : AtRest(p) =>
  /\ regs[p] = [mac |-> addr[p], frame |-> mtuOf[p] + MTU_FUDGE_FACTOR]
  /\ ~crossed[p] => /\ rxOn[p] /\ promisc[p] = promBit[p]
                    /\ undrained[p] \/ missed[p] \/ promBit[p] = Promiscuous(want[p])
  /\ timer[p] \/ work[p] # "idle"
  /\ carrier[p] = linkup[p] \/ late[p]
=============================================================================
