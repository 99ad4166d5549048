--------------------------- MODULE FirmwareProofs ---------------------------
(***************************************************************************)
(* Proofs about the firmware.  About FwReset, for every number of ports    *)
(* and every threshold: the types and counters, the exclusion of the       *)
(* watchdog's reset and the PCI error recovery by UNM_FW_RESET, and, in    *)
(* MCFwReset's calm executions, for every number of events, that NAPI is   *)
(* enabled and disabled in turn and that a recovery leaves the ports as    *)
(* they were.  About FlashRom and FirmwareLoad: why a read of the flash is *)
(* right - a reader between its lock and its unlock holds semaphore 2, or  *)
(* every read under way is disturbed, and so is one that begins while      *)
(* another is, until the last of them is over - and why the pegs run the   *)
(* firmware they were to run.                                              *)
(***************************************************************************)
EXTENDS MCFwReset, FirmwareLoad, TLAPS

\* A thread that works on a port works on one that exists, and a reset that
\* attaches ports has a reason to attach them.
Places ==
  /\ worker.pc \in {"down", "free", "napi", "init", "attached"} => worker.i \in Ports
  /\ worker.pc \in {"attach", "napi", "init", "attached", "ready"} =>
       worker.why \in {"timeout", "hang"}
  /\ aer.pc \in {"down", "flush", "timer", "detach", "attach", "napi", "init",
                 "attached"} => aer.i \in Ports

IInv == TypeOK /\ Places /\ RecoveryOwned

-----------------------------------------------------------------------------
LEMMA WorksFacts ==
  /\ FwWork \in Works
  /\ \A p \in Ports : <<"link", p>> \in Works /\ <<"timeout", p>> \in Works
  BY DEF Works

LEMMA InitInv == Init => IInv
  <1> SUFFICES ASSUME Init PROVE IInv OBVIOUS
  <1> USE RecoveryAssumption
  <1>1. TypeOK
    <2>1. RegistersOK
      <3>1. 0 \in 0 .. FailurePeriod /\ 0 \in 0 .. FailedThreshold - 1 OBVIOUS
      <3> QED BY <3>1 DEF Init, RegistersOK
    <2>2. QueueOK BY DEF Init, QueueOK
    <2>3. ThreadsOK BY DEF Init, ThreadsOK, Ports
    <2>4. PortsOK
      <3>1. ClosedPort \in PortStates BY DEF ClosedPort, PortStates
      <3> QED BY <3>1 DEF Init, PortsOK
    <2> QED BY <2>1, <2>2, <2>3, <2>4 DEF TypeOK
  <1>2. Places BY DEF Init, Places
  <1>3. RecoveryOwned BY DEF Init, RecoveryOwned, Recovering, Resetting
  <1> QED BY <1>1, <1>2, <1>3 DEF IInv

LEMMA PortNumbers ==
  /\ 0 \in Ports /\ Ports \subseteq 0 .. NumPorts
  /\ \A i \in Ports : i + 1 \in 0 .. NumPorts
  BY RecoveryAssumption DEF Ports

\* A port changes to another typed one.
LEMMA PortChange ==
  ASSUME PortsOK, NEW p \in Ports, NEW r \in PortStates,
         port' = [port EXCEPT ![p] = r]
  PROVE  PortsOK'
  BY DEF PortsOK

\* One of a port's flags is set or cleared.
LEMMA PortFlag ==
  ASSUME PortsOK, NEW p \in Ports, NEW b \in BOOLEAN
  PROVE  /\ [port[p] EXCEPT !.present = b] \in PortStates
         /\ [port[p] EXCEPT !.running = b] \in PortStates
         /\ [port[p] EXCEPT !.napi = b] \in PortStates
         /\ [port[p] EXCEPT !.timer = b] \in PortStates
  <1>1. port[p] \in PortStates BY DEF PortsOK
  <1>2. [port[p] EXCEPT !.present = b] \in PortStates BY <1>1 DEF PortStates
  <1>3. [port[p] EXCEPT !.running = b] \in PortStates BY <1>1 DEF PortStates
  <1>4. [port[p] EXCEPT !.napi = b] \in PortStates BY <1>1 DEF PortStates
  <1>5. [port[p] EXCEPT !.timer = b] \in PortStates BY <1>1 DEF PortStates
  <1> QED BY <1>2, <1>3, <1>4, <1>5

LEMMA AttachedTyped ==
  ASSUME PortsOK, NEW p \in Ports, NEW ok \in BOOLEAN, NEW a \in Attached(p, ok)
  PROVE  a \in PortStates
  <1>1. port[p] \in PortStates BY DEF PortsOK
  <1>2. [port[p] EXCEPT !.rings = FALSE] \in PortStates BY <1>1 DEF PortStates
  <1>3. [port[p] EXCEPT !.rings = TRUE, !.isUp = "magic"] \in PortStates
    BY <1>1 DEF PortStates
  <1> QED BY <1>1, <1>2, <1>3 DEF Attached

\* Every step keeps the types: what an action changes, part by part.
LEMMA TypeNext == IInv /\ [Next]_vars => TypeOK'
<1> SUFFICES ASSUME IInv, [Next]_vars PROVE TypeOK' OBVIOUS
<1> USE RecoveryAssumption DEF IInv
<1>1. ASSUME OpenNapi PROVE TypeOK'
  <2>1. ThreadsOK' BY <1>1 DEF TypeOK, ThreadsOK, Places, OpenNapi, RtnlAt,
    envVars, fwVars
  <2>2. PortsOK'
    <3>1. rtnl.i \in Ports /\ PortsOK BY <1>1 DEF TypeOK, ThreadsOK, Places, OpenNapi
    <3>2. port' = [port EXCEPT ![rtnl.i] = [port[rtnl.i] EXCEPT !.napi = TRUE]]
      BY <1>1 DEF OpenNapi, NapiEnable
    <3> QED BY <3>1, <3>2, PortFlag, PortChange
  <2> QED BY <1>1, <2>1, <2>2 DEF TypeOK, RegistersOK, QueueOK, OpenNapi,
    envVars, fwVars
<1>2. ASSUME CloseNapi PROVE TypeOK'
  <2>1. ThreadsOK' BY <1>2 DEF TypeOK, ThreadsOK, Places, CloseNapi, RtnlAt,
    envVars, fwVars
  <2>2. PortsOK'
    <3> DEFINE r == [port[rtnl.i] EXCEPT !.napi = FALSE]
    <3>1. rtnl.i \in Ports /\ PortsOK BY <1>2 DEF TypeOK, ThreadsOK, Places, CloseNapi
    <3>2. port[rtnl.i] \in PortStates BY <3>1 DEF PortsOK
    <3>3. r \in PortStates BY <3>2 DEF PortStates
    <3>4. CASE port' = port BY <3>1, <3>4 DEF PortsOK
    <3>5. CASE port' = [port EXCEPT ![rtnl.i] = r] BY <3>1, <3>3, <3>5, PortChange
    <3> QED BY <1>2, <3>4, <3>5 DEF CloseNapi, NapiDisable
  <2> QED BY <1>2, <2>1, <2>2 DEF TypeOK, RegistersOK, QueueOK, CloseNapi,
    envVars, fwVars
<1>3. ASSUME CloseFlush PROVE TypeOK'
  <2>1. QueueOK' BY <1>3, WorksFacts DEF TypeOK, QueueOK, CloseFlush,
    StartFlush, envVars, fwVars
  <2>2. ThreadsOK' BY <1>3 DEF TypeOK, ThreadsOK, Places, CloseFlush, RtnlAt,
    envVars, fwVars
  <2> QED BY <1>3, <2>1, <2>2 DEF TypeOK, RegistersOK, PortsOK, CloseFlush,
    envVars, fwVars
<1>4. ASSUME CloseEnd PROVE TypeOK'
  <2>1. ThreadsOK' BY <1>4 DEF TypeOK, ThreadsOK, Places, CloseEnd, RtnlAt,
    envVars, fwVars
  <2>2. PortsOK'
    <3> DEFINE r == [port[rtnl.i] EXCEPT !.timer = FALSE, !.state = "down"]
    <3>1. rtnl.i \in Ports /\ PortsOK BY <1>4 DEF TypeOK, ThreadsOK, Places, CloseEnd
    <3>2. port[rtnl.i] \in PortStates BY <3>1 DEF PortsOK
    <3>3. r \in PortStates BY <3>2 DEF PortStates
    <3>4. port' = [port EXCEPT ![rtnl.i] = r] BY <1>4, <3>1 DEF PortsOK, PortStates, CloseEnd
    <3> QED BY <3>1, <3>3, <3>4, PortChange
  <2> QED BY <1>4, <2>1, <2>2 DEF TypeOK, RegistersOK, QueueOK, CloseEnd,
    envVars, fwVars
<1>5. ASSUME NEW ok \in BOOLEAN, OpenAttach(ok) PROVE TypeOK'
  <2>1. ThreadsOK' BY <1>5 DEF TypeOK, ThreadsOK, Places, OpenAttach, RtnlAt,
    envVars, fwVars
  <2>2. PortsOK'
    <3>1. rtnl.i \in Ports /\ PortsOK BY DEF TypeOK, ThreadsOK
    <3>2. PICK a \in Attached(rtnl.i, ok) :
            port' = [port EXCEPT ![rtnl.i] = [a EXCEPT !.running = ok]]
      BY <1>5 DEF OpenAttach
    <3>3. a \in PortStates BY <3>1, AttachedTyped
    <3>4. [a EXCEPT !.running = ok] \in PortStates BY <3>3 DEF PortStates
    <3> QED BY <3>1, <3>2, <3>4, PortChange
  <2> QED BY <1>5, <2>1, <2>2 DEF TypeOK, RegistersOK, QueueOK, OpenAttach,
    envVars, fwVars
<1>6. ASSUME NEW ok \in BOOLEAN, OpenEnd(ok) PROVE TypeOK'
  <2>1. ThreadsOK' BY <1>6 DEF TypeOK, ThreadsOK, Places, OpenEnd, RtnlAt,
    envVars, fwVars
  <2>2. PortsOK'
    <3> DEFINE up == [port[rtnl.i] EXCEPT !.timer = TRUE, !.state = "up"]
               failed == [port[rtnl.i] EXCEPT !.running = FALSE]
    <3>1. rtnl.i \in Ports /\ PortsOK BY DEF TypeOK, ThreadsOK
    <3>2. port[rtnl.i] \in PortStates BY <3>1 DEF PortsOK
    <3>3. up \in PortStates /\ failed \in PortStates BY <3>2 DEF PortStates
    <3>4. CASE ok
      <4>1. port' = [port EXCEPT ![rtnl.i] = up]
        BY <1>6, <3>1, <3>4 DEF OpenEnd, PortsOK, PortStates
      <4> QED BY <4>1, <3>1, <3>3, PortChange
    <3>5. CASE ~ok
      <4>1. port' = [port EXCEPT ![rtnl.i] = failed]
        BY <1>6, <3>1, <3>5 DEF OpenEnd, PortsOK, PortStates
      <4> QED BY <4>1, <3>1, <3>3, PortChange
    <3> QED BY <3>4, <3>5
  <2> QED BY <1>6, <2>1, <2>2 DEF TypeOK, RegistersOK, QueueOK, OpenEnd,
    envVars, fwVars
<1>7. ASSUME DetachPort PROVE TypeOK'
  <2>1. ThreadsOK' BY <1>7 DEF TypeOK, ThreadsOK, Places, DetachPort,
    WorkerAt, envVars, fwVars
  <2>2. PortsOK'
    <3> DEFINE r == [port[worker.i] EXCEPT
                       !.present = @ /\ worker.why = "fatal", !.isUp = "resetting"]
    <3>1. worker.i \in Ports /\ PortsOK
      BY <1>7, PortNumbers DEF TypeOK, ThreadsOK, DetachPort, Ports
    <3>2. port[worker.i] \in PortStates BY <3>1 DEF PortsOK
    <3>3. r \in PortStates BY <3>2 DEF PortStates
    <3>4. port' = [port EXCEPT ![worker.i] = r]
      BY <1>7, <3>1 DEF PortsOK, PortStates, DetachPort
    <3> QED BY <3>1, <3>3, <3>4, PortChange
  <2> QED BY <1>7, <2>1, <2>2 DEF TypeOK, RegistersOK, QueueOK, DetachPort,
    envVars, fwVars
<1>8. ASSUME DetachDown PROVE TypeOK'
  <2>1. ThreadsOK' BY <1>8 DEF TypeOK, ThreadsOK, Places, DetachDown,
    WorkerAt, envVars, fwVars
  <2>2. PortsOK'
    <3> DEFINE r == [port[worker.i] EXCEPT !.napi = @ /\ ~Disables(worker.i), !.timer = FALSE]
    <3>1. worker.i \in Ports /\ PortsOK BY <1>8 DEF TypeOK, ThreadsOK, Places, DetachDown
    <3>2. port[worker.i] \in PortStates BY <3>1 DEF PortsOK
    <3>3. r \in PortStates BY <3>2 DEF PortStates
    <3>4. port' = [port EXCEPT ![worker.i] = r] BY <1>8, <3>1 DEF PortsOK, PortStates, DetachDown
    <3> QED BY <3>1, <3>3, <3>4, PortChange
  <2> QED BY <1>8, <2>1, <2>2 DEF TypeOK, RegistersOK, QueueOK, DetachDown,
    envVars, fwVars
<1>9. ASSUME DetachFree PROVE TypeOK'
  <2>1. ThreadsOK'
    <3>1. worker.i + 1 \in 0 .. NumPorts BY <1>9, PortNumbers DEF Places, DetachFree
    <3> QED BY <1>9, <3>1 DEF TypeOK, ThreadsOK, DetachFree, envVars, fwVars
  <2>2. PortsOK'
    <3> DEFINE dead == [port[worker.i] EXCEPT !.isUp = "dead"]
               freed == [port[worker.i] EXCEPT !.rings = FALSE, !.isUp = "no"]
    <3>1. worker.i \in Ports /\ PortsOK BY <1>9 DEF TypeOK, Places, DetachFree
    <3>2. port[worker.i] \in PortStates BY <3>1 DEF PortsOK
    <3>3. dead \in PortStates /\ freed \in PortStates BY <3>2 DEF PortStates
    <3>4. CASE worker.why = "fatal"
      <4>1. port' = [port EXCEPT ![worker.i] = dead]
        BY <1>9, <3>1, <3>4 DEF DetachFree, PortsOK, PortStates
      <4> QED BY <4>1, <3>1, <3>3, PortChange
    <3>5. CASE worker.why # "fatal"
      <4>1. port' = [port EXCEPT ![worker.i] = freed]
        BY <1>9, <3>1, <3>5 DEF DetachFree, PortsOK, PortStates
      <4> QED BY <4>1, <3>1, <3>3, PortChange
    <3> QED BY <3>4, <3>5
  <2> QED BY <1>9, <2>1, <2>2 DEF TypeOK, RegistersOK, QueueOK, DetachFree,
    envVars, fwVars
<1>10. ASSUME DetachedDead PROVE TypeOK'
  <2>1. RegistersOK' BY <1>10 DEF TypeOK, RegistersOK, DetachedDead, Stops,
    envVars, fwVars
  <2>2. QueueOK' BY <1>10, WorksFacts DEF TypeOK, QueueOK, DetachedDead,
    Stops, Done, envVars, fwVars
  <2>3. ThreadsOK' BY <1>10 DEF TypeOK, ThreadsOK, Places, DetachedDead,
    Stops, WorkerAt, envVars, fwVars
  <2> QED BY <1>10, <2>1, <2>2, <2>3 DEF TypeOK, PortsOK, DetachedDead,
    envVars, fwVars
<1>11. ASSUME AttachNapi PROVE TypeOK'
  <2>1. ThreadsOK' BY <1>11 DEF TypeOK, ThreadsOK, Places, AttachNapi,
    WorkerAt, envVars, fwVars
  <2>2. PortsOK'
    <3>1. worker.i \in Ports /\ PortsOK BY <1>11 DEF TypeOK, ThreadsOK, Places, AttachNapi
    <3>2. port' = [port EXCEPT ![worker.i] = [port[worker.i] EXCEPT !.napi = TRUE]]
      BY <1>11 DEF AttachNapi, NapiEnable
    <3> QED BY <3>1, <3>2, PortFlag, PortChange
  <2> QED BY <1>11, <2>1, <2>2 DEF TypeOK, RegistersOK, QueueOK, AttachNapi,
    envVars, fwVars
<1>12. ASSUME AttachedPort PROVE TypeOK'
  <2>1. ThreadsOK'
    <3>1. worker.i + 1 \in 0 .. NumPorts BY <1>12, PortNumbers DEF Places, AttachedPort
    <3> QED BY <1>12, <3>1 DEF TypeOK, ThreadsOK, AttachedPort, envVars, fwVars
  <2>2. PortsOK'
    <3>1. worker.i \in Ports /\ PortsOK BY <1>12 DEF TypeOK, ThreadsOK, Places, AttachedPort
    <3>2. port' = [port EXCEPT ![worker.i] = [port[worker.i] EXCEPT !.present = TRUE]]
      BY <1>12 DEF AttachedPort
    <3> QED BY <3>1, <3>2, PortFlag, PortChange
  <2> QED BY <1>12, <2>1, <2>2 DEF TypeOK, RegistersOK, QueueOK, AttachedPort,
    envVars, fwVars
<1>13. ASSUME SetReady PROVE TypeOK'
  <2>1. RegistersOK' BY <1>13 DEF TypeOK, RegistersOK, SetReady, Rearms,
    NextFailure, envVars, fwVars
  <2>2. QueueOK' BY <1>13, WorksFacts DEF TypeOK, QueueOK, SetReady, Rearms,
    Done, envVars, fwVars
  <2>3. ThreadsOK' BY <1>13 DEF TypeOK, ThreadsOK, Places, SetReady, Rearms,
    WorkerAt, envVars, fwVars
  <2>4. PortsOK' BY <1>13 DEF TypeOK, PortsOK, PortStates, Places, SetReady,
    envVars, fwVars
  <2> QED BY <1>13, <2>1, <2>2, <2>3, <2>4 DEF TypeOK, SetReady, envVars,
    fwVars
<1>14. ASSUME NEW ok \in BOOLEAN, RestartFw(ok) PROVE TypeOK'
  <2>1. RegistersOK' BY <1>14 DEF TypeOK, RegistersOK, RestartFw, envVars,
    fwVars
  <2>2. ThreadsOK'
    <3>1. 0 \in 0 .. NumPorts BY PortNumbers
    <3>4. UNCHANGED <<rtnl, aer>> BY <1>14 DEF RestartFw
    <3>2. CASE worker' = [worker EXCEPT !.pc = "attach", !.i = 0]
      <4>1. worker' \in [pc : {"idle", "requests", "alive", "detach", "down", "free",
                               "attach", "napi", "init", "attached", "ready"},
                         i : 0 .. NumPorts,
                         why : {"none", "panic", "timeout", "hang", "fatal"}]
        BY <3>1, <3>2 DEF TypeOK, ThreadsOK
      <4> QED BY <3>4, <4>1 DEF TypeOK, ThreadsOK
    <3>3. CASE worker' = [worker EXCEPT !.pc = "ready"]
      BY <3>3, <3>4 DEF TypeOK, ThreadsOK
    <3> QED BY <1>14, <3>2, <3>3 DEF RestartFw, WorkerAt
  <2> QED BY <1>14, <2>1, <2>2 DEF TypeOK, QueueOK, PortsOK, RestartFw,
    envVars, fwVars
<1>15. ASSUME NEW ok \in BOOLEAN, AttachPort(ok) PROVE TypeOK'
  <2>1. ThreadsOK' BY <1>15 DEF TypeOK, ThreadsOK, Places, AttachPort,
    WorkerAt, envVars, fwVars
  <2>2. PortsOK'
    <3>1. worker.i \in Ports /\ PortsOK
      BY <1>15, PortNumbers DEF TypeOK, ThreadsOK, AttachPort, Ports
    <3>2. CASE UNCHANGED port BY <3>1, <3>2 DEF PortsOK
    <3>3. CASE Attach(worker.i, ok)
      <4>1. PICK a \in Attached(worker.i, ok) :
              port' = [port EXCEPT ![worker.i] = a]
        BY <3>3 DEF Attach
      <4>2. a \in PortStates BY <3>1, AttachedTyped
      <4> QED BY <3>1, <4>1, <4>2, PortChange
    <3> QED BY <1>15, <3>2, <3>3 DEF AttachPort
  <2> QED BY <1>15, <2>1, <2>2 DEF TypeOK, RegistersOK, QueueOK, AttachPort,
    envVars, fwVars
<1>16. ASSUME NEW ok \in BOOLEAN, AttachInit(ok) PROVE TypeOK'
  <2>1. ThreadsOK' BY <1>16 DEF TypeOK, ThreadsOK, Places, AttachInit,
    WorkerAt, envVars, fwVars
  <2>2. PortsOK' BY <1>16 DEF TypeOK, PortsOK, PortStates, Places, AttachInit,
    envVars, fwVars
  <2> QED BY <1>16, <2>1, <2>2 DEF TypeOK, RegistersOK, QueueOK, AttachInit,
    envVars, fwVars
<1>17. ASSUME FwBusy PROVE TypeOK'
  <2>1. RegistersOK' BY <1>17 DEF TypeOK, RegistersOK, FwBusy, Rearms,
    envVars, fwVars
  <2>2. QueueOK' BY <1>17, WorksFacts DEF TypeOK, QueueOK, FwBusy, FwTask,
    Rearms, Done, envVars, fwVars
  <2>3. ThreadsOK' BY <1>17 DEF TypeOK, ThreadsOK, Places, FwBusy, Rearms,
    WorkerAt, envVars, fwVars
  <2> QED BY <1>17, <2>1, <2>2, <2>3 DEF TypeOK, PortsOK, FwBusy, envVars,
    fwVars
<1>18. ASSUME FwNoRequest PROVE TypeOK'
  <2>1. ThreadsOK' BY <1>18 DEF TypeOK, ThreadsOK, Places, FwNoRequest,
    WorkerAt, envVars, fwVars
  <2> QED BY <1>18, <2>1 DEF TypeOK, RegistersOK, QueueOK, PortsOK,
    FwNoRequest, envVars, fwVars
<1>19. ASSUME FwAlive PROVE TypeOK'
  <2>1. RegistersOK' BY <1>19 DEF TypeOK, RegistersOK, FwAlive, Rearms,
    envVars, fwVars
  <2>2. QueueOK' BY <1>19, WorksFacts DEF TypeOK, QueueOK, FwAlive, Rearms,
    Done, envVars, fwVars
  <2>3. ThreadsOK' BY <1>19 DEF TypeOK, ThreadsOK, Places, FwAlive, Rearms,
    WorkerAt, envVars, fwVars
  <2> QED BY <1>19, <2>1, <2>2, <2>3 DEF TypeOK, PortsOK, FwAlive, envVars,
    fwVars
<1>20. ASSUME FwMissed PROVE TypeOK'
  <2>1. RegistersOK' BY <1>20 DEF TypeOK, RegistersOK, FwMissed, Rearms,
    NextFailure, envVars, fwVars
  <2>2. QueueOK' BY <1>20, WorksFacts DEF TypeOK, QueueOK, FwMissed, Rearms,
    Done, envVars, fwVars
  <2>3. ThreadsOK' BY <1>20 DEF TypeOK, ThreadsOK, Places, FwMissed, Rearms,
    WorkerAt, envVars, fwVars
  <2> QED BY <1>20, <2>1, <2>2, <2>3 DEF TypeOK, PortsOK, FwMissed, envVars,
    fwVars
<1>21. ASSUME FwRefused PROVE TypeOK'
  <2>1. RegistersOK' BY <1>21 DEF TypeOK, RegistersOK, FwRefused, Rearms,
    envVars, fwVars
  <2>2. QueueOK' BY <1>21, WorksFacts DEF TypeOK, QueueOK, FwRefused, Rearms,
    Done, envVars, fwVars
  <2>3. ThreadsOK' BY <1>21 DEF TypeOK, ThreadsOK, Places, FwRefused, Rearms,
    WorkerAt, envVars, fwVars
  <2> QED BY <1>21, <2>1, <2>2, <2>3 DEF TypeOK, PortsOK, FwRefused, envVars,
    fwVars
<1>22. ASSUME NEW panic \in BOOLEAN, FwTemp(panic) PROVE TypeOK'
  <2>1. QueueOK' BY <1>22, WorksFacts DEF TypeOK, QueueOK, FwTemp, FwTask,
    envVars, fwVars
  <2>2. ThreadsOK' BY <1>22 DEF TypeOK, ThreadsOK, Places, FwTemp,
    StartDetach, WorkerAt, envVars, fwVars
  <2> QED BY <1>22, <2>1, <2>2 DEF TypeOK, RegistersOK, PortsOK, FwTemp,
    envVars, fwVars
<1>23. ASSUME NEW soon \in BOOLEAN, FwTimeoutReset(soon) PROVE TypeOK'
  <2>1. RegistersOK' BY <1>23 DEF TypeOK, RegistersOK, FwTimeoutReset,
    CountReset, GivesUp, Stops, envVars, fwVars
  <2>2. QueueOK' BY <1>23, WorksFacts DEF TypeOK, QueueOK, FwTimeoutReset,
    Stops, Done, envVars, fwVars
  <2>3. ThreadsOK' BY <1>23 DEF TypeOK, ThreadsOK, Places, FwTimeoutReset,
    Stops, StartDetach, WorkerAt, envVars, fwVars
  <2> QED BY <1>23, <2>1, <2>2, <2>3 DEF TypeOK, PortsOK, FwTimeoutReset,
    envVars, fwVars
<1>24. ASSUME NEW soon \in BOOLEAN, NEW fatal \in BOOLEAN, FwHangReset(soon, fatal) PROVE TypeOK'
  <2>1. RegistersOK' BY <1>24 DEF TypeOK, RegistersOK, FwHangReset,
    CountReset, GivesUp, Stops, envVars, fwVars
  <2>2. QueueOK' BY <1>24, WorksFacts DEF TypeOK, QueueOK, FwHangReset, Stops,
    Done, envVars, fwVars
  <2>3. ThreadsOK' BY <1>24 DEF TypeOK, ThreadsOK, Places, FwHangReset, Stops,
    StartDetach, WorkerAt, envVars, fwVars
  <2> QED BY <1>24, <2>1, <2>2, <2>3 DEF TypeOK, PortsOK, FwHangReset,
    envVars, fwVars
<1>25. ASSUME AerDetach PROVE TypeOK'
  <2>1. ThreadsOK' BY <1>25 DEF TypeOK, ThreadsOK, Places, AerDetach, AerAt,
    envVars, fwVars
  <2>2. PortsOK'
    <3>1. aer.i \in Ports /\ PortsOK BY <1>25 DEF TypeOK, ThreadsOK, Places, AerDetach, Ports
    <3>2. port' = [port EXCEPT ![aer.i] = [port[aer.i] EXCEPT !.present = FALSE]]
      BY <1>25 DEF AerDetach
    <3> QED BY <3>1, <3>2, PortFlag, PortChange
  <2> QED BY <1>25, <2>1, <2>2 DEF TypeOK, RegistersOK, QueueOK, AerDetach,
    envVars, fwVars
<1>26. ASSUME AerDown PROVE TypeOK'
  <2>1. ThreadsOK' BY <1>26 DEF TypeOK, ThreadsOK, Places, AerDown, AerAt,
    envVars, fwVars
  <2>2. PortsOK'
    <3> DEFINE r == [port[aer.i] EXCEPT !.napi = FALSE]
    <3>1. aer.i \in Ports /\ PortsOK BY <1>26 DEF TypeOK, ThreadsOK, Places, AerDown
    <3>2. port[aer.i] \in PortStates BY <3>1 DEF PortsOK
    <3>3. r \in PortStates BY <3>2 DEF PortStates
    <3>4. CASE port' = port BY <3>1, <3>4 DEF PortsOK
    <3>5. CASE port' = [port EXCEPT ![aer.i] = r] BY <3>1, <3>3, <3>5, PortChange
    <3> QED BY <1>26, <3>4, <3>5 DEF AerDown, NapiDisable
  <2> QED BY <1>26, <2>1, <2>2 DEF TypeOK, RegistersOK, QueueOK, AerDown,
    envVars, fwVars
<1>27. ASSUME AerFlush PROVE TypeOK'
  <2>1. QueueOK' BY <1>27, WorksFacts DEF TypeOK, QueueOK, AerFlush,
    StartFlush, envVars, fwVars
  <2>2. ThreadsOK' BY <1>27 DEF TypeOK, ThreadsOK, Places, AerFlush, AerAt,
    envVars, fwVars
  <2> QED BY <1>27, <2>1, <2>2 DEF TypeOK, RegistersOK, PortsOK, AerFlush,
    envVars, fwVars
<1>28. ASSUME AerTimer PROVE TypeOK'
  <2>1. ThreadsOK' BY <1>28 DEF TypeOK, ThreadsOK, Places, AerTimer, AerAt,
    envVars, fwVars
  <2>2. PortsOK'
    <3>1. aer.i \in Ports /\ PortsOK BY <1>28 DEF TypeOK, ThreadsOK, Places, AerTimer
    <3>2. port' = [port EXCEPT ![aer.i] = [port[aer.i] EXCEPT !.timer = FALSE]]
      BY <1>28 DEF AerTimer
    <3> QED BY <3>1, <3>2, PortFlag, PortChange
  <2> QED BY <1>28, <2>1, <2>2 DEF TypeOK, RegistersOK, QueueOK, AerTimer,
    envVars, fwVars
<1>29. ASSUME AerFree PROVE TypeOK'
  <2>1. ThreadsOK'
    <3>1. aer.i + 1 \in 0 .. NumPorts BY <1>29, PortNumbers DEF Places, AerFree
    <3> QED BY <1>29, <3>1 DEF TypeOK, ThreadsOK, AerFree, envVars, fwVars
  <2>2. PortsOK'
    <3> DEFINE r == [port[aer.i] EXCEPT !.rings = FALSE, !.isUp = "no"]
    <3>1. aer.i \in Ports /\ PortsOK BY <1>29 DEF TypeOK, ThreadsOK, Places, AerFree
    <3>2. port[aer.i] \in PortStates BY <3>1 DEF PortsOK
    <3>3. r \in PortStates BY <3>2 DEF PortStates
    <3>4. port' = [port EXCEPT ![aer.i] = r] BY <1>29, <3>1 DEF PortsOK, PortStates, AerFree
    <3> QED BY <3>1, <3>3, <3>4, PortChange
  <2> QED BY <1>29, <2>1, <2>2 DEF TypeOK, RegistersOK, QueueOK, AerFree,
    envVars, fwVars
<1>30. ASSUME AerNapi PROVE TypeOK'
  <2>1. ThreadsOK' BY <1>30 DEF TypeOK, ThreadsOK, Places, AerNapi, AerAt,
    envVars, fwVars
  <2>2. PortsOK'
    <3>1. aer.i \in Ports /\ PortsOK BY <1>30 DEF TypeOK, ThreadsOK, Places, AerNapi
    <3>2. port' = [port EXCEPT ![aer.i] = [port[aer.i] EXCEPT !.napi = TRUE]]
      BY <1>30 DEF AerNapi, NapiEnable
    <3> QED BY <3>1, <3>2, PortFlag, PortChange
  <2> QED BY <1>30, <2>1, <2>2 DEF TypeOK, RegistersOK, QueueOK, AerNapi,
    envVars, fwVars
<1>31. ASSUME AerAttached PROVE TypeOK'
  <2>1. ThreadsOK'
    <3>1. aer.i + 1 \in 0 .. NumPorts BY <1>31, PortNumbers DEF Places, AerAttached
    <3> QED BY <1>31, <3>1 DEF TypeOK, ThreadsOK, AerAttached, envVars, fwVars
  <2>2. PortsOK'
    <3>1. aer.i \in Ports /\ PortsOK BY <1>31 DEF TypeOK, ThreadsOK, Places, AerAttached
    <3>2. port' = [port EXCEPT ![aer.i] = [port[aer.i] EXCEPT !.present = TRUE]]
      BY <1>31 DEF AerAttached
    <3> QED BY <3>1, <3>2, PortFlag, PortChange
  <2> QED BY <1>31, <2>1, <2>2 DEF TypeOK, RegistersOK, QueueOK, AerAttached,
    envVars, fwVars
<1>32. ASSUME AerEnd PROVE TypeOK'
  <2>1. RegistersOK' BY <1>32 DEF TypeOK, RegistersOK, AerEnd, envVars, fwVars
  <2>2. ThreadsOK' BY <1>32 DEF TypeOK, ThreadsOK, Places, AerEnd, AerAt,
    envVars, fwVars
  <2> QED BY <1>32, <2>1, <2>2 DEF TypeOK, QueueOK, PortsOK, AerEnd, envVars,
    fwVars
<1>33. ASSUME NEW ok \in BOOLEAN, AerSlotReset(ok) PROVE TypeOK'
  <2>1. RegistersOK' BY <1>33 DEF TypeOK, RegistersOK, AerSlotReset, envVars,
    fwVars
  <2>2. ThreadsOK'
    <3> DEFINE p == IF aer.pc = "slot" THEN aer.i ELSE 0
    <3>1. p \in Ports
      BY <1>33, PortNumbers DEF TypeOK, ThreadsOK, AerSlotReset, Ports
    <3>2. p \in 0 .. NumPorts /\ p + 1 \in 0 .. NumPorts BY <3>1, PortNumbers
    <3>3. aer' = IF ok
            THEN [aer EXCEPT !.i = p,
                             !.pc = IF port[p].running THEN "attach" ELSE "attached"]
            ELSE [pc |-> "slot", i |-> p + 1, ok |-> FALSE]
      BY <1>33 DEF AerSlotReset
    <3> HIDE DEF p
    <3>4. worker' = worker /\ rtnl' = rtnl BY <1>33 DEF AerSlotReset
    <3>5. CASE ok /\ port[p].running
      <4>1. aer' = [aer EXCEPT !.i = p, !.pc = "attach"] BY <3>3, <3>5
      <4> QED BY <3>2, <3>4, <4>1 DEF TypeOK, ThreadsOK
    <3>6. CASE ok /\ ~port[p].running
      <4>1. aer' = [aer EXCEPT !.i = p, !.pc = "attached"] BY <3>3, <3>6
      <4> QED BY <3>2, <3>4, <4>1 DEF TypeOK, ThreadsOK
    <3>7. CASE ~ok
      <4>1. aer' = [pc |-> "slot", i |-> p + 1, ok |-> FALSE] BY <3>3, <3>7
      <4> QED BY <3>2, <3>4, <4>1 DEF TypeOK, ThreadsOK
    <3> QED BY <3>5, <3>6, <3>7
  <2> QED BY <1>33, <2>1, <2>2 DEF TypeOK, QueueOK, PortsOK, AerSlotReset,
    envVars, fwVars
<1>34. ASSUME NEW ok \in BOOLEAN, AerAttach(ok) PROVE TypeOK'
  <2>1. ThreadsOK'
    <3>1. aer.i + 1 \in 0 .. NumPorts BY <1>34, PortNumbers DEF Places, AerAttach
    <3>2. CASE ok BY <1>34, <3>2 DEF TypeOK, ThreadsOK, AerAttach, AerAt
    <3>3. CASE ~ok
      <4>1. /\ aer' = [pc |-> "slot", i |-> aer.i + 1, ok |-> FALSE]
            /\ UNCHANGED <<worker, rtnl>>
        BY <1>34, <3>3 DEF AerAttach, AerFailed
      <4>2. aer.i + 1 \in 0 .. NumPorts /\ worker' = worker /\ rtnl' = rtnl
        BY <3>1, <4>1
      <4> QED BY <4>1, <4>2 DEF TypeOK, ThreadsOK
    <3> QED BY <3>2, <3>3
  <2>2. PortsOK'
    <3>1. aer.i \in Ports /\ PortsOK BY <1>34 DEF TypeOK, Places, AerAttach
    <3>2. PICK a \in Attached(aer.i, ok) : port' = [port EXCEPT ![aer.i] = a]
      BY <1>34 DEF AerAttach, Attach
    <3>3. a \in PortStates BY <3>1, AttachedTyped
    <3> QED BY <3>1, <3>2, <3>3, PortChange
  <2> QED BY <1>34, <2>1, <2>2 DEF TypeOK, RegistersOK, QueueOK, AerAttach,
    envVars, fwVars
<1>35. ASSUME NEW ok \in BOOLEAN, AerInit(ok) PROVE TypeOK'
  <2>1. ThreadsOK'
    <3>1. aer.i + 1 \in 0 .. NumPorts BY <1>35, PortNumbers DEF Places, AerInit
    <3>2. CASE ok BY <1>35, <3>2 DEF TypeOK, ThreadsOK, AerInit, AerAt
    <3>3. CASE ~ok
      <4>1. /\ aer' = [pc |-> "slot", i |-> aer.i + 1, ok |-> FALSE]
            /\ UNCHANGED <<worker, rtnl>>
        BY <1>35, <3>3 DEF AerInit, AerFailed
      <4>2. aer.i + 1 \in 0 .. NumPorts /\ worker' = worker /\ rtnl' = rtnl
        BY <3>1, <4>1
      <4> QED BY <4>1, <4>2 DEF TypeOK, ThreadsOK
    <3> QED BY <3>2, <3>3
  <2>2. PortsOK' BY <1>35 DEF TypeOK, PortsOK, PortStates, Places, AerInit,
    envVars, fwVars
  <2> QED BY <1>35, <2>1, <2>2 DEF TypeOK, RegistersOK, QueueOK, AerInit,
    envVars, fwVars
<1>36. ASSUME NEW p \in Ports, LinkTask(p) PROVE TypeOK'
  <2>1. QueueOK' BY <1>36, WorksFacts DEF TypeOK, QueueOK, LinkTask, Done,
    envVars, fwVars
  <2>2. PortsOK' BY <1>36 DEF TypeOK, PortsOK, PortStates, Places, LinkTask,
    envVars, fwVars
  <2> QED BY <1>36, <2>1, <2>2 DEF TypeOK, RegistersOK, ThreadsOK, LinkTask,
    envVars, fwVars
<1>37. ASSUME NEW p \in Ports, TimeoutTask(p) PROVE TypeOK'
  <2>1. RegistersOK' BY <1>37 DEF TypeOK, RegistersOK, TimeoutTask, envVars,
    fwVars
  <2>2. QueueOK' BY <1>37, WorksFacts DEF TypeOK, QueueOK, TimeoutTask, Done,
    envVars, fwVars
  <2>3. PortsOK' BY <1>37 DEF TypeOK, PortsOK, PortStates, Places,
    TimeoutTask, envVars, fwVars
  <2> QED BY <1>37, <2>1, <2>2, <2>3 DEF TypeOK, ThreadsOK, TimeoutTask,
    envVars, fwVars
<1>38. ASSUME AerDetected PROVE TypeOK'
  <2>1. RegistersOK' BY <1>38 DEF TypeOK, RegistersOK, AerDetected, envVars,
    fwVars
  <2>2. ThreadsOK' BY <1>38 DEF TypeOK, ThreadsOK, Places, AerDetected,
    envVars, fwVars
  <2> QED BY <1>38, <2>1, <2>2 DEF TypeOK, QueueOK, PortsOK, AerDetected,
    envVars, fwVars
<1>39. ASSUME FwTimer PROVE TypeOK'
  <2>1. RegistersOK' BY <1>39 DEF TypeOK, RegistersOK, FwTimer, envVars,
    fwVars
  <2>2. QueueOK' BY <1>39, WorksFacts DEF TypeOK, QueueOK, FwTimer, Schedule,
    envVars, fwVars
  <2> QED BY <1>39, <2>1, <2>2 DEF TypeOK, ThreadsOK, PortsOK, FwTimer,
    envVars, fwVars
<1>40. ASSUME Hang PROVE TypeOK'
  <2>1. RegistersOK' BY <1>40 DEF TypeOK, RegistersOK, Hang, envVars, fwVars
  <2> QED BY <1>40, <2>1 DEF TypeOK, QueueOK, ThreadsOK, PortsOK, Hang,
    envVars, fwVars
<1>41. ASSUME NEW p \in Ports, Open(p) PROVE TypeOK'
  <2>1. ThreadsOK' BY <1>41 DEF TypeOK, ThreadsOK, Places, Open, envVars,
    fwVars
  <2>2. PortsOK'
    <3>1. PortsOK BY DEF TypeOK
    <3>2. port' = [port EXCEPT ![p] = [port[p] EXCEPT !.running = TRUE]]
      BY <1>41 DEF Open
    <3> QED BY <3>1, <3>2, PortFlag, PortChange
  <2> QED BY <1>41, <2>1, <2>2 DEF TypeOK, RegistersOK, QueueOK, Open,
    envVars, fwVars
<1>42. ASSUME NEW p \in Ports, Close(p) PROVE TypeOK'
  <2>1. ThreadsOK' BY <1>42 DEF TypeOK, ThreadsOK, Places, Close, envVars,
    fwVars
  <2>2. PortsOK'
    <3>1. PortsOK BY DEF TypeOK
    <3>2. port' = [port EXCEPT ![p] = [port[p] EXCEPT !.running = FALSE]]
      BY <1>42 DEF Close
    <3> QED BY <3>1, <3>2, PortFlag, PortChange
  <2> QED BY <1>42, <2>1, <2>2 DEF TypeOK, RegistersOK, QueueOK, Close,
    envVars, fwVars
<1>43. ASSUME NEW p \in Ports, LinkTimer(p) PROVE TypeOK'
  <2>1. QueueOK' BY <1>43, WorksFacts DEF TypeOK, QueueOK, LinkTimer,
    Schedule, envVars, fwVars
  <2>2. PortsOK'
    <3>1. PortsOK BY DEF TypeOK
    <3>2. port' = [port EXCEPT ![p] = [port[p] EXCEPT !.timer = FALSE]]
      BY <1>43 DEF LinkTimer
    <3> QED BY <3>1, <3>2, PortFlag, PortChange
  <2> QED BY <1>43, <2>1, <2>2 DEF TypeOK, RegistersOK, ThreadsOK, LinkTimer,
    envVars, fwVars
<1>44. ASSUME NEW p \in Ports, TxTimeout(p) PROVE TypeOK'
  <2>1. QueueOK' BY <1>44, WorksFacts DEF TypeOK, QueueOK, TxTimeout,
    Schedule, envVars, fwVars
  <2> QED BY <1>44, <2>1 DEF TypeOK, RegistersOK, ThreadsOK, PortsOK,
    TxTimeout, envVars, fwVars
<1>45. ASSUME NEW p \in Ports, TxProgress(p) PROVE TypeOK'
  <2>1. PortsOK' BY <1>45 DEF TypeOK, PortsOK, PortStates, Places, TxProgress,
    envVars, fwVars
  <2> QED BY <1>45, <2>1 DEF TypeOK, RegistersOK, QueueOK, ThreadsOK,
    TxProgress, envVars, fwVars
<1>46. ASSUME UNCHANGED vars PROVE TypeOK'
  BY <1>46 DEF TypeOK, RegistersOK, QueueOK, ThreadsOK, PortsOK, vars,
    envVars, fwVars
<1> QED
  BY <1>1, <1>2, <1>3, <1>4, <1>5, <1>6, <1>7, <1>8, <1>9, <1>10, <1>11,
    <1>12, <1>13, <1>14, <1>15, <1>16, <1>17, <1>18, <1>19, <1>20, <1>21,
    <1>22, <1>23, <1>24, <1>25, <1>26, <1>27, <1>28, <1>29, <1>30, <1>31,
    <1>32, <1>33, <1>34, <1>35, <1>36, <1>37, <1>38, <1>39, <1>40, <1>41,
    <1>42, <1>43, <1>44, <1>45, <1>46 DEF Next, Tasks, Watchdog, Reset,
    AerGoesOn, RtnlGoesOn

\* Every step leaves the threads at ports that exist, and a reset its reason.
LEMMA PlacesNext == IInv /\ [Next]_vars => Places'
<1> SUFFICES ASSUME IInv, [Next]_vars PROVE Places' OBVIOUS
<1> USE RecoveryAssumption DEF IInv
<1>1. ASSUME OpenNapi PROVE Places'
  BY <1>1 DEF TypeOK, ThreadsOK, Places, RecoveryOwned, Resetting, Ports,
    OpenNapi, RtnlAt
<1>2. ASSUME CloseNapi PROVE Places'
  BY <1>2 DEF TypeOK, ThreadsOK, Places, RecoveryOwned, Resetting, Ports,
    CloseNapi, RtnlAt
<1>3. ASSUME CloseFlush PROVE Places'
  BY <1>3 DEF TypeOK, ThreadsOK, Places, RecoveryOwned, Resetting, Ports,
    CloseFlush, RtnlAt
<1>4. ASSUME CloseEnd PROVE Places'
  BY <1>4 DEF TypeOK, ThreadsOK, Places, RecoveryOwned, Resetting, Ports,
    CloseEnd, RtnlAt
<1>5. ASSUME NEW ok \in BOOLEAN, OpenAttach(ok) PROVE Places'
  BY <1>5 DEF TypeOK, ThreadsOK, Places, RecoveryOwned, Resetting, Ports,
    OpenAttach, RtnlAt
<1>6. ASSUME NEW ok \in BOOLEAN, OpenEnd(ok) PROVE Places'
  BY <1>6 DEF TypeOK, ThreadsOK, Places, RecoveryOwned, Resetting, Ports,
    OpenEnd, RtnlAt
<1>7. ASSUME DetachPort PROVE Places'
  BY <1>7 DEF TypeOK, ThreadsOK, Places, RecoveryOwned, Resetting, Ports,
    DetachPort, WorkerAt
<1>8. ASSUME DetachDown PROVE Places'
  BY <1>8 DEF TypeOK, ThreadsOK, Places, RecoveryOwned, Resetting, Ports,
    DetachDown, WorkerAt
<1>9. ASSUME DetachFree PROVE Places'
  BY <1>9 DEF TypeOK, ThreadsOK, Places, RecoveryOwned, Resetting, Ports,
    DetachFree
<1>10. ASSUME DetachedDead PROVE Places'
  BY <1>10 DEF TypeOK, ThreadsOK, Places, RecoveryOwned, Resetting, Ports,
    DetachedDead, Stops, WorkerAt
<1>11. ASSUME AttachNapi PROVE Places'
  BY <1>11 DEF TypeOK, ThreadsOK, Places, RecoveryOwned, Resetting, Ports,
    AttachNapi, WorkerAt
<1>12. ASSUME AttachedPort PROVE Places'
  BY <1>12 DEF TypeOK, ThreadsOK, Places, RecoveryOwned, Resetting, Ports,
    AttachedPort
<1>13. ASSUME SetReady PROVE Places'
  BY <1>13 DEF TypeOK, ThreadsOK, Places, RecoveryOwned, Resetting, Ports,
    SetReady, Rearms, WorkerAt
<1>14. ASSUME NEW ok \in BOOLEAN, RestartFw(ok) PROVE Places'
  <2>1. worker.why \in {"timeout", "hang"} /\ aer' = aer BY <1>14 DEF RestartFw
  <2>2. CASE worker' = [worker EXCEPT !.pc = "attach", !.i = 0]
    BY <2>1, <2>2 DEF TypeOK, ThreadsOK, Places
  <2>3. CASE worker' = [worker EXCEPT !.pc = "ready"]
    BY <2>1, <2>3 DEF TypeOK, ThreadsOK, Places
  <2> QED BY <1>14, <2>2, <2>3 DEF RestartFw, WorkerAt
<1>15. ASSUME NEW ok \in BOOLEAN, AttachPort(ok) PROVE Places'
  BY <1>15 DEF TypeOK, ThreadsOK, Places, RecoveryOwned, Resetting, Ports,
    AttachPort, WorkerAt
<1>16. ASSUME NEW ok \in BOOLEAN, AttachInit(ok) PROVE Places'
  BY <1>16 DEF TypeOK, ThreadsOK, Places, RecoveryOwned, Resetting, Ports,
    AttachInit, WorkerAt
<1>17. ASSUME FwBusy PROVE Places'
  BY <1>17 DEF TypeOK, ThreadsOK, Places, RecoveryOwned, Resetting, Ports,
    FwBusy, Rearms, WorkerAt, FwTask
<1>18. ASSUME FwNoRequest PROVE Places'
  BY <1>18 DEF TypeOK, ThreadsOK, Places, RecoveryOwned, Resetting, Ports,
    FwNoRequest, WorkerAt
<1>19. ASSUME FwAlive PROVE Places'
  BY <1>19 DEF TypeOK, ThreadsOK, Places, RecoveryOwned, Resetting, Ports,
    FwAlive, Rearms, WorkerAt
<1>20. ASSUME FwMissed PROVE Places'
  BY <1>20 DEF TypeOK, ThreadsOK, Places, RecoveryOwned, Resetting, Ports,
    FwMissed, Rearms, WorkerAt
<1>21. ASSUME FwRefused PROVE Places'
  BY <1>21 DEF TypeOK, ThreadsOK, Places, RecoveryOwned, Resetting, Ports,
    FwRefused, Rearms, WorkerAt
<1>22. ASSUME NEW panic \in BOOLEAN, FwTemp(panic) PROVE Places'
  BY <1>22 DEF TypeOK, ThreadsOK, Places, RecoveryOwned, Resetting, Ports,
    FwTemp, StartDetach, WorkerAt, FwTask
<1>23. ASSUME NEW soon \in BOOLEAN, FwTimeoutReset(soon) PROVE Places'
  BY <1>23 DEF TypeOK, ThreadsOK, Places, RecoveryOwned, Resetting, Ports,
    FwTimeoutReset, Stops, StartDetach, WorkerAt
<1>24. ASSUME NEW soon \in BOOLEAN, NEW fatal \in BOOLEAN, FwHangReset(soon, fatal) PROVE Places'
  BY <1>24 DEF TypeOK, ThreadsOK, Places, RecoveryOwned, Resetting, Ports,
    FwHangReset, Stops, StartDetach, WorkerAt
<1>25. ASSUME AerDetach PROVE Places'
  BY <1>25 DEF TypeOK, ThreadsOK, Places, RecoveryOwned, Resetting, Ports,
    AerDetach, AerAt
<1>26. ASSUME AerDown PROVE Places'
  BY <1>26 DEF TypeOK, ThreadsOK, Places, RecoveryOwned, Resetting, Ports,
    AerDown, AerAt
<1>27. ASSUME AerFlush PROVE Places'
  BY <1>27 DEF TypeOK, ThreadsOK, Places, RecoveryOwned, Resetting, Ports,
    AerFlush, AerAt
<1>28. ASSUME AerTimer PROVE Places'
  BY <1>28 DEF TypeOK, ThreadsOK, Places, RecoveryOwned, Resetting, Ports,
    AerTimer, AerAt
<1>29. ASSUME AerFree PROVE Places'
  BY <1>29 DEF TypeOK, ThreadsOK, Places, RecoveryOwned, Resetting, Ports,
    AerFree
<1>30. ASSUME AerNapi PROVE Places'
  BY <1>30 DEF TypeOK, ThreadsOK, Places, RecoveryOwned, Resetting, Ports,
    AerNapi, AerAt
<1>31. ASSUME AerAttached PROVE Places'
  BY <1>31 DEF TypeOK, ThreadsOK, Places, RecoveryOwned, Resetting, Ports,
    AerAttached
<1>32. ASSUME AerEnd PROVE Places'
  BY <1>32 DEF TypeOK, ThreadsOK, Places, RecoveryOwned, Resetting, Ports,
    AerEnd, AerAt
<1>33. ASSUME NEW ok \in BOOLEAN, AerSlotReset(ok) PROVE Places'
  BY <1>33 DEF TypeOK, ThreadsOK, Places, RecoveryOwned, Resetting, Ports,
    AerSlotReset
<1>34. ASSUME NEW ok \in BOOLEAN, AerAttach(ok) PROVE Places'
  BY <1>34 DEF TypeOK, ThreadsOK, Places, RecoveryOwned, Resetting, Ports,
    AerAttach, AerAt, AerFailed, Ports
<1>35. ASSUME NEW ok \in BOOLEAN, AerInit(ok) PROVE Places'
  BY <1>35 DEF TypeOK, ThreadsOK, Places, RecoveryOwned, Resetting, Ports,
    AerInit, AerAt, AerFailed, Ports
<1>36. ASSUME NEW p \in Ports, LinkTask(p) PROVE Places'
  BY <1>36 DEF TypeOK, ThreadsOK, Places, RecoveryOwned, Resetting, Ports,
    LinkTask
<1>37. ASSUME NEW p \in Ports, TimeoutTask(p) PROVE Places'
  BY <1>37 DEF TypeOK, ThreadsOK, Places, RecoveryOwned, Resetting, Ports,
    TimeoutTask
<1>38. ASSUME AerDetected PROVE Places'
  BY <1>38 DEF TypeOK, ThreadsOK, Places, RecoveryOwned, Resetting, Ports,
    AerDetected
<1>39. ASSUME FwTimer PROVE Places'
  BY <1>39 DEF TypeOK, ThreadsOK, Places, RecoveryOwned, Resetting, Ports,
    FwTimer
<1>40. ASSUME Hang PROVE Places'
  BY <1>40 DEF TypeOK, ThreadsOK, Places, RecoveryOwned, Resetting, Ports,
    Hang
<1>41. ASSUME NEW p \in Ports, Open(p) PROVE Places'
  BY <1>41 DEF TypeOK, ThreadsOK, Places, RecoveryOwned, Resetting, Ports,
    Open
<1>42. ASSUME NEW p \in Ports, Close(p) PROVE Places'
  BY <1>42 DEF TypeOK, ThreadsOK, Places, RecoveryOwned, Resetting, Ports,
    Close
<1>43. ASSUME NEW p \in Ports, LinkTimer(p) PROVE Places'
  BY <1>43 DEF TypeOK, ThreadsOK, Places, RecoveryOwned, Resetting, Ports,
    LinkTimer
<1>44. ASSUME NEW p \in Ports, TxTimeout(p) PROVE Places'
  BY <1>44 DEF TypeOK, ThreadsOK, Places, RecoveryOwned, Resetting, Ports,
    TxTimeout
<1>45. ASSUME NEW p \in Ports, TxProgress(p) PROVE Places'
  BY <1>45 DEF TypeOK, ThreadsOK, Places, RecoveryOwned, Resetting, Ports,
    TxProgress
<1>46. ASSUME UNCHANGED vars PROVE Places'
  BY <1>46 DEF Places, vars, envVars, fwVars
<1> QED
  BY <1>1, <1>2, <1>3, <1>4, <1>5, <1>6, <1>7, <1>8, <1>9, <1>10, <1>11,
    <1>12, <1>13, <1>14, <1>15, <1>16, <1>17, <1>18, <1>19, <1>20, <1>21,
    <1>22, <1>23, <1>24, <1>25, <1>26, <1>27, <1>28, <1>29, <1>30, <1>31,
    <1>32, <1>33, <1>34, <1>35, <1>36, <1>37, <1>38, <1>39, <1>40, <1>41,
    <1>42, <1>43, <1>44, <1>45, <1>46 DEF Next, Tasks, Watchdog, Reset,
    AerGoesOn, RtnlGoesOn

\* Every step leaves the recovery to the one that the register names.
LEMMA OwnedNext == IInv /\ [Next]_vars => RecoveryOwned'
<1> SUFFICES ASSUME IInv, [Next]_vars PROVE RecoveryOwned' OBVIOUS
<1> USE RecoveryAssumption DEF IInv
<1>1. ASSUME OpenNapi PROVE RecoveryOwned'
  BY <1>1 DEF TypeOK, ThreadsOK, RegistersOK, Places, RecoveryOwned,
    Recovering, Resetting, OpenNapi, RtnlAt
<1>2. ASSUME CloseNapi PROVE RecoveryOwned'
  BY <1>2 DEF TypeOK, ThreadsOK, RegistersOK, Places, RecoveryOwned,
    Recovering, Resetting, CloseNapi, RtnlAt
<1>3. ASSUME CloseFlush PROVE RecoveryOwned'
  BY <1>3 DEF TypeOK, ThreadsOK, RegistersOK, Places, RecoveryOwned,
    Recovering, Resetting, CloseFlush, RtnlAt
<1>4. ASSUME CloseEnd PROVE RecoveryOwned'
  BY <1>4 DEF TypeOK, ThreadsOK, RegistersOK, Places, RecoveryOwned,
    Recovering, Resetting, CloseEnd, RtnlAt
<1>5. ASSUME NEW ok \in BOOLEAN, OpenAttach(ok) PROVE RecoveryOwned'
  BY <1>5 DEF TypeOK, ThreadsOK, RegistersOK, Places, RecoveryOwned,
    Recovering, Resetting, OpenAttach, RtnlAt
<1>6. ASSUME NEW ok \in BOOLEAN, OpenEnd(ok) PROVE RecoveryOwned'
  BY <1>6 DEF TypeOK, ThreadsOK, RegistersOK, Places, RecoveryOwned,
    Recovering, Resetting, OpenEnd, RtnlAt
<1>7. ASSUME DetachPort PROVE RecoveryOwned'
  BY <1>7 DEF TypeOK, ThreadsOK, RegistersOK, Places, RecoveryOwned,
    Recovering, Resetting, DetachPort, WorkerAt
<1>8. ASSUME DetachDown PROVE RecoveryOwned'
  BY <1>8 DEF TypeOK, ThreadsOK, RegistersOK, Places, RecoveryOwned,
    Recovering, Resetting, DetachDown, WorkerAt
<1>9. ASSUME DetachFree PROVE RecoveryOwned'
  BY <1>9 DEF TypeOK, ThreadsOK, RegistersOK, Places, RecoveryOwned,
    Recovering, Resetting, DetachFree, Ports
<1>10. ASSUME DetachedDead PROVE RecoveryOwned'
  BY <1>10 DEF TypeOK, ThreadsOK, RegistersOK, Places, RecoveryOwned,
    Recovering, Resetting, DetachedDead, Stops, WorkerAt
<1>11. ASSUME AttachNapi PROVE RecoveryOwned'
  BY <1>11 DEF TypeOK, ThreadsOK, RegistersOK, Places, RecoveryOwned,
    Recovering, Resetting, AttachNapi, WorkerAt
<1>12. ASSUME AttachedPort PROVE RecoveryOwned'
  BY <1>12 DEF TypeOK, ThreadsOK, RegistersOK, Places, RecoveryOwned,
    Recovering, Resetting, AttachedPort, Ports
<1>13. ASSUME SetReady PROVE RecoveryOwned'
  BY <1>13 DEF TypeOK, ThreadsOK, RegistersOK, Places, RecoveryOwned,
    Recovering, Resetting, SetReady, Rearms, WorkerAt
<1>14. ASSUME NEW ok \in BOOLEAN, RestartFw(ok) PROVE RecoveryOwned'
  <2>1. Resetting /\ dev' = dev /\ aer' = aer BY <1>14 DEF RestartFw, Resetting
  <2>2. CASE worker' = [worker EXCEPT !.pc = "attach", !.i = 0]
    BY <2>1, <2>2
    DEF TypeOK, ThreadsOK, RecoveryOwned, Recovering, Resetting
  <2>3. CASE worker' = [worker EXCEPT !.pc = "ready"]
    BY <2>1, <2>3
    DEF TypeOK, ThreadsOK, RecoveryOwned, Recovering, Resetting
  <2> QED BY <1>14, <2>2, <2>3 DEF RestartFw, WorkerAt
<1>15. ASSUME NEW ok \in BOOLEAN, AttachPort(ok) PROVE RecoveryOwned'
  BY <1>15 DEF TypeOK, ThreadsOK, RegistersOK, Places, RecoveryOwned,
    Recovering, Resetting, AttachPort, WorkerAt
<1>16. ASSUME NEW ok \in BOOLEAN, AttachInit(ok) PROVE RecoveryOwned'
  BY <1>16 DEF TypeOK, ThreadsOK, RegistersOK, Places, RecoveryOwned,
    Recovering, Resetting, AttachInit, WorkerAt
<1>17. ASSUME FwBusy PROVE RecoveryOwned'
  BY <1>17 DEF TypeOK, ThreadsOK, RegistersOK, Places, RecoveryOwned,
    Recovering, Resetting, FwBusy, Rearms, WorkerAt, FwTask
<1>18. ASSUME FwNoRequest PROVE RecoveryOwned'
  BY <1>18 DEF TypeOK, ThreadsOK, RegistersOK, Places, RecoveryOwned,
    Recovering, Resetting, FwNoRequest, WorkerAt
<1>19. ASSUME FwAlive PROVE RecoveryOwned'
  BY <1>19 DEF TypeOK, ThreadsOK, RegistersOK, Places, RecoveryOwned,
    Recovering, Resetting, FwAlive, Rearms, WorkerAt
<1>20. ASSUME FwMissed PROVE RecoveryOwned'
  BY <1>20 DEF TypeOK, ThreadsOK, RegistersOK, Places, RecoveryOwned,
    Recovering, Resetting, FwMissed, Rearms, WorkerAt
<1>21. ASSUME FwRefused PROVE RecoveryOwned'
  BY <1>21 DEF TypeOK, ThreadsOK, RegistersOK, Places, RecoveryOwned,
    Recovering, Resetting, FwRefused, Rearms, WorkerAt
<1>22. ASSUME NEW panic \in BOOLEAN, FwTemp(panic) PROVE RecoveryOwned'
  BY <1>22 DEF TypeOK, ThreadsOK, RegistersOK, Places, RecoveryOwned,
    Recovering, Resetting, FwTemp, StartDetach, WorkerAt, FwTask
<1>23. ASSUME NEW soon \in BOOLEAN, FwTimeoutReset(soon) PROVE RecoveryOwned'
  BY <1>23 DEF TypeOK, ThreadsOK, RegistersOK, Places, RecoveryOwned,
    Recovering, Resetting, FwTimeoutReset, Stops, StartDetach, WorkerAt
<1>24. ASSUME NEW soon \in BOOLEAN, NEW fatal \in BOOLEAN, FwHangReset(soon, fatal) PROVE RecoveryOwned'
  BY <1>24 DEF TypeOK, ThreadsOK, RegistersOK, Places, RecoveryOwned,
    Recovering, Resetting, FwHangReset, Stops, StartDetach, WorkerAt
<1>25. ASSUME AerDetach PROVE RecoveryOwned'
  BY <1>25 DEF TypeOK, ThreadsOK, RegistersOK, Places, RecoveryOwned,
    Recovering, Resetting, AerDetach, AerAt
<1>26. ASSUME AerDown PROVE RecoveryOwned'
  BY <1>26 DEF TypeOK, ThreadsOK, RegistersOK, Places, RecoveryOwned,
    Recovering, Resetting, AerDown, AerAt
<1>27. ASSUME AerFlush PROVE RecoveryOwned'
  BY <1>27 DEF TypeOK, ThreadsOK, RegistersOK, Places, RecoveryOwned,
    Recovering, Resetting, AerFlush, AerAt
<1>28. ASSUME AerTimer PROVE RecoveryOwned'
  BY <1>28 DEF TypeOK, ThreadsOK, RegistersOK, Places, RecoveryOwned,
    Recovering, Resetting, AerTimer, AerAt
<1>29. ASSUME AerFree PROVE RecoveryOwned'
  BY <1>29 DEF TypeOK, ThreadsOK, RegistersOK, Places, RecoveryOwned,
    Recovering, Resetting, AerFree, Ports
<1>30. ASSUME AerNapi PROVE RecoveryOwned'
  BY <1>30 DEF TypeOK, ThreadsOK, RegistersOK, Places, RecoveryOwned,
    Recovering, Resetting, AerNapi, AerAt
<1>31. ASSUME AerAttached PROVE RecoveryOwned'
  BY <1>31 DEF TypeOK, ThreadsOK, RegistersOK, Places, RecoveryOwned,
    Recovering, Resetting, AerAttached, Ports
<1>32. ASSUME AerEnd PROVE RecoveryOwned'
  BY <1>32 DEF TypeOK, ThreadsOK, RegistersOK, Places, RecoveryOwned,
    Recovering, Resetting, AerEnd, AerAt
<1>33. ASSUME NEW ok \in BOOLEAN, AerSlotReset(ok) PROVE RecoveryOwned'
  BY <1>33 DEF TypeOK, ThreadsOK, RegistersOK, Places, RecoveryOwned,
    Recovering, Resetting, AerSlotReset
<1>34. ASSUME NEW ok \in BOOLEAN, AerAttach(ok) PROVE RecoveryOwned'
  BY <1>34 DEF TypeOK, ThreadsOK, RegistersOK, Places, RecoveryOwned,
    Recovering, Resetting, AerAttach, AerAt, AerFailed, Ports
<1>35. ASSUME NEW ok \in BOOLEAN, AerInit(ok) PROVE RecoveryOwned'
  BY <1>35 DEF TypeOK, ThreadsOK, RegistersOK, Places, RecoveryOwned,
    Recovering, Resetting, AerInit, AerAt, AerFailed, Ports
<1>36. ASSUME NEW p \in Ports, LinkTask(p) PROVE RecoveryOwned'
  BY <1>36 DEF TypeOK, ThreadsOK, RegistersOK, Places, RecoveryOwned,
    Recovering, Resetting, LinkTask
<1>37. ASSUME NEW p \in Ports, TimeoutTask(p) PROVE RecoveryOwned'
  BY <1>37 DEF TypeOK, ThreadsOK, RegistersOK, Places, RecoveryOwned,
    Recovering, Resetting, TimeoutTask
<1>38. ASSUME AerDetected PROVE RecoveryOwned'
  BY <1>38 DEF TypeOK, ThreadsOK, RegistersOK, Places, RecoveryOwned,
    Recovering, Resetting, AerDetected
<1>39. ASSUME FwTimer PROVE RecoveryOwned'
  BY <1>39 DEF TypeOK, ThreadsOK, RegistersOK, Places, RecoveryOwned,
    Recovering, Resetting, FwTimer
<1>40. ASSUME Hang PROVE RecoveryOwned'
  BY <1>40 DEF TypeOK, ThreadsOK, RegistersOK, Places, RecoveryOwned,
    Recovering, Resetting, Hang
<1>41. ASSUME NEW p \in Ports, Open(p) PROVE RecoveryOwned'
  BY <1>41 DEF TypeOK, ThreadsOK, RegistersOK, Places, RecoveryOwned,
    Recovering, Resetting, Open
<1>42. ASSUME NEW p \in Ports, Close(p) PROVE RecoveryOwned'
  BY <1>42 DEF TypeOK, ThreadsOK, RegistersOK, Places, RecoveryOwned,
    Recovering, Resetting, Close
<1>43. ASSUME NEW p \in Ports, LinkTimer(p) PROVE RecoveryOwned'
  BY <1>43 DEF TypeOK, ThreadsOK, RegistersOK, Places, RecoveryOwned,
    Recovering, Resetting, LinkTimer
<1>44. ASSUME NEW p \in Ports, TxTimeout(p) PROVE RecoveryOwned'
  BY <1>44 DEF TypeOK, ThreadsOK, RegistersOK, Places, RecoveryOwned,
    Recovering, Resetting, TxTimeout
<1>45. ASSUME NEW p \in Ports, TxProgress(p) PROVE RecoveryOwned'
  BY <1>45 DEF TypeOK, ThreadsOK, RegistersOK, Places, RecoveryOwned,
    Recovering, Resetting, TxProgress
<1>46. ASSUME UNCHANGED vars PROVE RecoveryOwned'
  BY <1>46 DEF RecoveryOwned, Recovering, Resetting, vars, envVars, fwVars
<1> QED
  BY <1>1, <1>2, <1>3, <1>4, <1>5, <1>6, <1>7, <1>8, <1>9, <1>10, <1>11,
    <1>12, <1>13, <1>14, <1>15, <1>16, <1>17, <1>18, <1>19, <1>20, <1>21,
    <1>22, <1>23, <1>24, <1>25, <1>26, <1>27, <1>28, <1>29, <1>30, <1>31,
    <1>32, <1>33, <1>34, <1>35, <1>36, <1>37, <1>38, <1>39, <1>40, <1>41,
    <1>42, <1>43, <1>44, <1>45, <1>46 DEF Next, Tasks, Watchdog, Reset,
    AerGoesOn, RtnlGoesOn

\* The inductive invariant of the recovery.
THEOREM Invariance == Spec => []IInv
  <1>1. IInv /\ [Next]_vars => IInv'
    BY TypeNext, PlacesNext, OwnedNext DEF IInv
  <1> QED BY InitInv, <1>1, PTL DEF Spec

\* The variables keep their types, and fw_alive_failures, fwload_failed_count
\* and tx_timeout_count stay within their bounds.
THEOREM TypeCorrect == Spec => []TypeOK
  <1>1. IInv => TypeOK BY DEF IInv
  <1> QED BY Invariance, <1>1, PTL

\* The reset task of the watchdog and the PCI error handlers never tear down
\* and attach the ports at the same time (nx_dev_request_reset,
\* nx_dev_request_aer, nx_dev_request_tx_timeout), but for an overheated card.
THEOREM RecoveryExclusive == Spec => []RecoveryOwned
  <1>1. IInv => RecoveryOwned BY DEF IInv
  <1> QED BY Invariance, <1>1, PTL

-----------------------------------------------------------------------------
(* Calm recoveries.                                                        *)

\* What a port looks like to whoever works on it.  A port is the record r, and l says
\* whether its link task is queued.
Kept(r) == r.isUp = "magic" => r.rings

\* Open or closed, and left alone but for the device's presence.
Whole(r, l) ==
  /\ r.isUp \in {"no", "magic"} /\ Kept(r)
  /\ r.running <=> r.state = "up"
  /\ r.running => r.isUp = "magic" /\ r.napi /\ (r.timer \/ l)
  /\ ~r.running => ~r.napi

Live(r, l) == Whole(r, l) /\ r.present

\* Detached, and to be attached again when it is running.
Gone(r) == /\ ~r.napi /\ r.isUp = "no"
           /\ r.running <=> r.state = "up"

\* Attached, without NAPI and with it, before its timer is armed.
Rising(r) == r.running /\ r.state = "up" /\ r.isUp = "magic" /\ r.rings /\ ~r.napi
Risen(r) == r.running /\ r.state = "up" /\ r.isUp = "magic" /\ r.rings /\ r.napi

\* Being taken down by the worker: is_up says so.
Falling(r) == r.running /\ r.state = "up" /\ r.isUp = "resetting" /\ r.napi
Fallen(r) == r.isUp = "resetting" /\ ~r.napi /\ (r.running <=> r.state = "up")

\* Taken down by the PCI error recovery.
Stopped(r) == ~r.napi /\ (r.running <=> r.state = "up")

Linked(p) == <<"link", p>> \in pending

WorkerPort(p, r, l) ==
  /\ worker.pc \in {"detach", "down", "free"} =>
       /\ p < worker.i => Gone(r)
       /\ p > worker.i => Live(r, l)
  /\ worker.pc \in {"attach", "napi", "init", "attached"} =>
       /\ p < worker.i => Live(r, l)
       /\ p > worker.i => Gone(r)
  /\ p = worker.i =>
       /\ worker.pc = "detach" => Live(r, l)
       /\ worker.pc = "down" => Falling(r)
       /\ worker.pc = "free" => Fallen(r)
       /\ worker.pc = "attach" => Gone(r)
       /\ worker.pc = "napi" => Rising(r)
       /\ worker.pc = "init" => Risen(r)
       /\ worker.pc = "attached" => Whole(r, l)

AerPort(p, r, l) ==
  /\ aer.pc \in {"detected", "down", "flush", "timer", "detach"} =>
       /\ p < aer.i => Gone(r)
       /\ p > aer.i => Live(r, l)
  /\ aer.pc \in {"slot", "attach", "napi", "init", "attached"} =>
       /\ p < aer.i => Live(r, l)
       /\ p > aer.i => Gone(r)
  /\ p = aer.i =>
       /\ aer.pc = "detected" => Live(r, l)
       /\ aer.pc = "down" => Risen(r)
       /\ aer.pc \in {"flush", "timer", "detach"} => Stopped(r)
       /\ aer.pc = "slot" => Gone(r)
       /\ aer.pc = "attach" => Gone(r) /\ r.running
       /\ aer.pc = "napi" => Rising(r)
       /\ aer.pc = "init" => Risen(r)
       /\ aer.pc = "attached" => Whole(r, l)

UserPort(p, r, l) ==
  /\ p # rtnl.i => Live(r, l)
  /\ p = rtnl.i =>
       /\ r.present
       /\ rtnl.pc \in {"open", "napi", "opened"} => r.running /\ r.state = "down"
       /\ rtnl.pc \in {"close", "flush", "closed"} =>
            ~r.running /\ r.state = "up" /\ r.isUp = "magic" /\ r.rings
       /\ rtnl.pc = "open" => r.isUp \in {"no", "magic"} /\ Kept(r) /\ ~r.napi
       /\ rtnl.pc \in {"napi", "opened"} => r.isUp = "magic" /\ r.rings
       /\ rtnl.pc \in {"napi", "flush", "closed"} => ~r.napi
       /\ rtnl.pc \in {"opened", "close"} => r.napi

\* A thread at work has the ports to itself.
Alone ==
  /\ worker.why \notin {"panic", "fatal"} /\ worker.pc # "ready"
  /\ rtnl.pc # "idle" => ~Resetting /\ ~Recovering

\* Port p, with the record r, is as far as the thread that works on the ports has come.
PortAt(p, r, l) ==
  /\ Resetting => WorkerPort(p, r, l)
  /\ Recovering => AerPort(p, r, l)
  /\ rtnl.pc # "idle" => UserPort(p, r, l)
  /\ ~Resetting /\ ~Recovering /\ rtnl.pc = "idle" => Live(r, l)

AllAt == \A p \in Ports : PortAt(p, port[p], Linked(p))

CalmInv == calm => Alone /\ AllAt

LEMMA CalmInit == MCInit => CalmInv
<1> SUFFICES ASSUME MCInit PROVE CalmInv
  OBVIOUS
<1>1. /\ worker = [pc |-> "idle", i |-> 0, why |-> "none"] /\ rtnl.pc = "idle" /\ aer.pc = "idle"
      /\ \A p \in Ports : port[p] = ClosedPort
  BY DEF MCInit, Init
<1>2. Alone
  BY <1>1 DEF Alone
<1>3. ASSUME NEW l PROVE Live(ClosedPort, l)
  BY DEF Live, Whole, Kept, ClosedPort
<1>4. \A p \in Ports : PortAt(p, port[p], Linked(p))
  BY <1>1, <1>3 DEF PortAt, Resetting, Recovering
<1> QED BY <1>2, <1>4 DEF CalmInv, AllAt

\* The same port to every thread: only the timer may have become the queued task or the
\* task the timer.
Alike(r, l, q, m) ==
  /\ q.present = r.present /\ q.running = r.running /\ q.state = r.state /\ q.isUp = r.isUp
  /\ q.napi = r.napi /\ q.rings = r.rings
  /\ r.running /\ (r.timer \/ l) => q.timer \/ m

LEMMA AlikeStays ==
  ASSUME NEW r, NEW l, NEW q, NEW m, Alike(r, l, q, m)
  PROVE  /\ Whole(r, l) => Whole(q, m)
         /\ Live(r, l) => Live(q, m)
         /\ Gone(r) => Gone(q)
         /\ Rising(r) => Rising(q)
         /\ Risen(r) => Risen(q)
         /\ Falling(r) => Falling(q)
         /\ Fallen(r) => Fallen(q)
         /\ Stopped(r) => Stopped(q)
BY DEF Alike, Whole, Live, Kept, Gone, Rising, Risen, Falling, Fallen, Stopped

\* A step of nobody at work on the ports.
LEMMA QuietStep ==
  ASSUME AllAt,
         \A p \in Ports : Alike(port[p], Linked(p), port'[p], Linked(p)'),
         Resetting' <=> Resetting, Resetting => worker' = worker, aer' = aer, rtnl' = rtnl
  PROVE  AllAt'
<1> SUFFICES ASSUME NEW p \in Ports PROVE PortAt(p, port[p], Linked(p))'
  BY DEF AllAt
<1> DEFINE r == port[p]
           l == Linked(p)
           q == port'[p]
           m == Linked(p)'
<1>1. Alike(r, l, q, m) /\ PortAt(p, r, l)
  BY DEF AllAt
<1> HIDE DEF r, l, q, m
<1>2. /\ Whole(r, l) => Whole(q, m)
      /\ Live(r, l) => Live(q, m)
      /\ Gone(r) => Gone(q)
      /\ Rising(r) => Rising(q)
      /\ Risen(r) => Risen(q)
      /\ Falling(r) => Falling(q)
      /\ Fallen(r) => Fallen(q)
      /\ Stopped(r) => Stopped(q)
      /\ Kept(r) => Kept(q)
  BY <1>1, AlikeStays DEF Alike, Kept
<1>3. Resetting => worker' = worker /\ WorkerPort(p, q, m)
  BY <1>1, <1>2 DEF PortAt, WorkerPort
<1>4. Recovering => AerPort(p, q, m)
  <2>1. q.running = r.running
    BY <1>1 DEF Alike
  <2> QED BY <1>1, <1>2, <2>1 DEF PortAt, AerPort
<1>5. rtnl.pc # "idle" => UserPort(p, q, m)
  <2>1. /\ q.present = r.present /\ q.running = r.running /\ q.state = r.state /\ q.isUp = r.isUp
        /\ q.napi = r.napi /\ q.rings = r.rings
    BY <1>1 DEF Alike
  <2> QED BY <1>1, <1>2, <2>1 DEF PortAt, UserPort
<1>6. ~Resetting /\ ~Recovering /\ rtnl.pc = "idle" => Live(q, m)
  BY <1>1, <1>2 DEF PortAt
<1>7. /\ Recovering' <=> Recovering
      /\ Resetting' => WorkerPort(p, port[p], Linked(p))'
      /\ Recovering' => AerPort(p, port[p], Linked(p))'
      /\ rtnl.pc # "idle" => UserPort(p, port[p], Linked(p))'
  BY <1>3, <1>4, <1>5 DEF WorkerPort, AerPort, UserPort, Recovering, q, m
<1> QED BY <1>6, <1>7 DEF PortAt, q, m

\* Whoever works on the ports works alone.
LEMMA OneAtWork ==
  /\ IInv /\ Alone =>
       /\ Resetting => ~Recovering /\ rtnl.pc = "idle"
       /\ Recovering => rtnl.pc = "idle"
  /\ IInv' /\ Alone' =>
       /\ Resetting' => ~Recovering' /\ rtnl'.pc = "idle"
       /\ Recovering' => rtnl'.pc = "idle"
<1>1. ASSUME IInv, Alone
      PROVE  /\ Resetting => ~Recovering /\ rtnl.pc = "idle"
             /\ Recovering => rtnl.pc = "idle"
  BY <1>1 DEF IInv, RecoveryOwned, Alone
<1>2. ASSUME IInv', Alone'
      PROVE  /\ Resetting' => ~Recovering' /\ rtnl'.pc = "idle"
             /\ Recovering' => rtnl'.pc = "idle"
  BY <1>2 DEF IInv, RecoveryOwned, Alone
<1> QED BY <1>1, <1>2

LEMMA AllByWorker ==
  /\ IInv /\ Alone /\ Resetting => (AllAt <=> \A p \in Ports : WorkerPort(p, port[p], Linked(p)))
  /\ IInv' /\ Alone' /\ Resetting' =>
       (AllAt' <=> \A p \in Ports : WorkerPort(p, port[p], Linked(p))')
BY OneAtWork DEF AllAt, PortAt

LEMMA AllByAer ==
  /\ IInv /\ Alone /\ Recovering => (AllAt <=> \A p \in Ports : AerPort(p, port[p], Linked(p)))
  /\ IInv' /\ Alone' /\ Recovering' =>
       (AllAt' <=> \A p \in Ports : AerPort(p, port[p], Linked(p))')
BY OneAtWork DEF AllAt, PortAt

LEMMA AllByUser ==
  /\ Alone /\ rtnl.pc # "idle" => (AllAt <=> \A p \in Ports : UserPort(p, port[p], Linked(p)))
  /\ Alone' /\ rtnl'.pc # "idle" =>
       (AllAt' <=> \A p \in Ports : UserPort(p, port[p], Linked(p))')
BY DEF AllAt, PortAt, Alone

LEMMA AllLive ==
  /\ ~Resetting /\ ~Recovering /\ rtnl.pc = "idle" =>
       (AllAt <=> \A p \in Ports : Live(port[p], Linked(p)))
  /\ ~Resetting' /\ ~Recovering' /\ rtnl'.pc = "idle" =>
       (AllAt' <=> \A p \in Ports : Live(port[p], Linked(p))')
BY DEF AllAt, PortAt

LEMMA SameAlike ==
  ASSUME NEW r, NEW l, NEW m, l => m
  PROVE  Alike(r, l, r, m)
BY DEF Alike

\* The watchdog looks, a timer fires, a count changes.
LEMMA WatchdogCalm ==
  ASSUME IInv, IInv', Alone, Alone', AllAt,
         \/ FwBusy \/ FwNoRequest \/ FwAlive \/ FwMissed \/ FwRefused
         \/ \E panic \in BOOLEAN : FwTemp(panic)
         \/ \E soon, fatal \in BOOLEAN : FwTimeoutReset(soon) \/ FwHangReset(soon, fatal)
  PROVE  AllAt'
<1>1. worker.pc \in {"idle", "requests", "alive"} /\ UNCHANGED <<port, rtnl, aer>>
  BY DEF FwBusy, FwNoRequest, FwAlive, FwMissed, FwRefused, FwTemp, FwTimeoutReset, FwHangReset,
     FwTask
<1>2. \A p \in Ports : Linked(p)' = Linked(p)
  <2>1. pending' = pending \/ pending' = pending \ {FwWork}
    BY DEF FwBusy, FwNoRequest, FwAlive, FwMissed, FwRefused, FwTemp, FwTimeoutReset, FwHangReset,
       FwTask, envVars
  <2>2. \A p \in Ports : <<"link", p>> # FwWork
    BY DEF FwWork
  <2> QED BY <2>1, <2>2 DEF Linked
<1>3. ~Resetting
  BY <1>1 DEF Resetting
<1>4. CASE ~Resetting'
  BY <1>1, <1>2, <1>3, <1>4, QuietStep, SameAlike
<1>5. CASE Resetting'
  <2>1. worker' = [pc |-> "detach", i |-> 0, why |-> worker'.why]
    <3>1. ASSUME WorkerAt("idle") \/ WorkerAt("requests") \/ WorkerAt("alive") PROVE FALSE
      BY <1>5, <3>1 DEF WorkerAt, Resetting, IInv, TypeOK, ThreadsOK
    <3>2. ASSUME NEW why, StartDetach(why)
          PROVE  worker' = [pc |-> "detach", i |-> 0, why |-> worker'.why]
      BY <3>2 DEF StartDetach
    <3> QED BY <3>1, <3>2 DEF FwBusy, FwNoRequest, FwAlive, FwMissed, FwRefused, FwTemp,
          FwTimeoutReset, FwHangReset, Stops, Rearms
  <2>2. ~Recovering /\ rtnl.pc = "idle"
    BY <1>1, <1>5, OneAtWork DEF Recovering
  <2>3. ASSUME NEW p \in Ports PROVE WorkerPort(p, port[p], Linked(p))'
    <3>1. Live(port'[p], Linked(p)')
      BY <1>1, <1>2, <1>3, <2>2, AllLive
    <3>2. p \in Nat
      BY RecoveryAssumption DEF Ports
    <3> QED BY <2>1, <3>1, <3>2 DEF WorkerPort
  <2> QED BY <1>5, <2>3, AllByWorker
<1> QED BY <1>4, <1>5

LEMMA EventsCalm ==
  ASSUME IInv, IInv', Alone, Alone', AllAt,
         \/ FwTimer \/ Hang
         \/ \E p \in Ports : LinkTimer(p) \/ TxTimeout(p) \/ TxProgress(p) \/ LinkTask(p)
                             \/ TimeoutTask(p)
         \/ UNCHANGED vars
  PROVE  AllAt'
<1>0. PortsOK /\ UNCHANGED <<worker, rtnl, aer>>
  BY DEF IInv, TypeOK, FwTimer, Hang, LinkTimer, TxTimeout, TxProgress, LinkTask, TimeoutTask, vars
<1>1. ASSUME UNCHANGED port, \A p \in Ports : Linked(p) => Linked(p)' PROVE AllAt'
  <2>1. \A p \in Ports : Alike(port[p], Linked(p), port'[p], Linked(p)')
    BY <1>1, SameAlike
  <2>2. Resetting' <=> Resetting
    BY <1>0 DEF Resetting
  <2> QED BY <1>0, <2>1, <2>2, QuietStep
<1>2. ASSUME NEW p \in Ports, NEW q, port' = [port EXCEPT ![p] = q],
             Alike(port[p], Linked(p), q, Linked(p)'),
             \A u \in Ports \ {p} : Linked(u) => Linked(u)'
      PROVE  AllAt'
  <2>1. \A u \in Ports : port'[u] = IF u = p THEN q ELSE port[u]
    BY <1>0, <1>2 DEF PortsOK
  <2>2. \A u \in Ports : Alike(port[u], Linked(u), port'[u], Linked(u)')
    BY <1>2, <2>1, SameAlike
  <2>3. Resetting' <=> Resetting
    BY <1>0 DEF Resetting
  <2> QED BY <1>0, <2>2, <2>3, QuietStep
<1>3. CASE FwTimer \/ Hang \/ UNCHANGED vars
  <2>1. UNCHANGED port /\ \A p \in Ports : Linked(p) => Linked(p)'
    BY <1>3 DEF FwTimer, Hang, vars, envVars, Schedule, Linked
  <2> QED BY <1>1, <2>1
<1>4. ASSUME NEW p \in Ports, TxTimeout(p) PROVE AllAt'
  <2>1. UNCHANGED port /\ \A u \in Ports : Linked(u) => Linked(u)'
    BY <1>4 DEF TxTimeout, Schedule, Linked
  <2> QED BY <1>1, <2>1
<1>5. ASSUME NEW p \in Ports, LinkTimer(p) PROVE AllAt'
  <2> DEFINE q == [port[p] EXCEPT !.timer = FALSE]
  <2>1. port' = [port EXCEPT ![p] = q] /\ Linked(p)'
        /\ \A u \in Ports \ {p} : Linked(u) => Linked(u)'
    BY <1>5 DEF LinkTimer, Schedule, Linked
  <2>2. Alike(port[p], Linked(p), q, Linked(p)')
    BY <1>0, <2>1 DEF Alike, PortsOK, PortStates
  <2> HIDE DEF q
  <2> QED BY <1>2, <2>1, <2>2
<1>6. ASSUME NEW p \in Ports, LinkTask(p) PROVE AllAt'
  <2> DEFINE q == [port[p] EXCEPT !.timer = @ \/ port[p].running]
  <2>1. port' = [port EXCEPT ![p] = q]
    BY <1>6 DEF LinkTask
  <2>2. \A u \in Ports \ {p} : Linked(u) => Linked(u)'
    <3>1. pending' = pending \ {<<"link", p>>}
      BY <1>6 DEF LinkTask
    <3> QED BY <3>1 DEF Linked
  <2>3. Alike(port[p], Linked(p), q, Linked(p)')
    <3>1. port[p] \in PortStates
      BY <1>0 DEF PortsOK
    <3>2. /\ q.present = port[p].present /\ q.running = port[p].running
          /\ q.state = port[p].state /\ q.isUp = port[p].isUp /\ q.napi = port[p].napi
          /\ q.rings = port[p].rings /\ q.timer = (port[p].timer \/ port[p].running)
      BY <3>1 DEF PortStates
    <3> HIDE DEF q
    <3> QED BY <3>2 DEF Alike
  <2> HIDE DEF q
  <2> QED BY <1>2, <2>1, <2>2, <2>3
<1>7. ASSUME NEW p \in Ports, TxProgress(p) \/ TimeoutTask(p) PROVE AllAt'
  <2>1. PICK n \in 0 .. TimeoutThreshold + 1 : port' = [port EXCEPT ![p].count = n]
    <3>1. TimeoutThreshold \in Nat /\ port[p].count \in 0 .. TimeoutThreshold + 1
      BY <1>0, RecoveryAssumption DEF PortsOK, PortStates
    <3>2. TimeoutThreshold + 1 \in 0 .. TimeoutThreshold + 1 /\ 0 \in 0 .. TimeoutThreshold + 1
      BY <3>1
    <3>3. ~(port[p].count + 1 > TimeoutThreshold) =>
            port[p].count + 1 \in 0 .. TimeoutThreshold + 1
      BY <3>1
    <3> QED BY <1>7, <3>2, <3>3 DEF TxProgress, TimeoutTask
  <2> DEFINE q == [port[p] EXCEPT !.count = n]
  <2>2. port' = [port EXCEPT ![p] = q]
    BY <2>1
  <2>3. \A u \in Ports : Linked(u) => Linked(u)'
    BY <1>7 DEF TxProgress, TimeoutTask, Linked, envVars
  <2>4. Alike(port[p], Linked(p), q, Linked(p)')
    BY <1>0, <2>3 DEF Alike, PortsOK, PortStates
  <2> HIDE DEF q
  <2> QED BY <1>2, <2>2, <2>3, <2>4
<1> QED BY <1>3, <1>4, <1>5, <1>6, <1>7

\* A port of the worker's that stays as it is: the worker is further, or not.
LEMMA WorkerOther ==
  ASSUME NEW p \in Ports, NEW r, NEW l, WorkerPort(p, r, l), p # worker.i, worker.i \in Nat,
         worker'.i = worker.i,
         \/ /\ worker.pc \in {"detach", "down", "free"}
            /\ worker'.pc \in {"detach", "down", "free"}
         \/ /\ worker.pc \in {"attach", "napi", "init", "attached"}
            /\ worker'.pc \in {"attach", "napi", "init", "attached"}
  PROVE  /\ worker'.pc \in {"detach", "down", "free"} =>
              (p < worker'.i => Gone(r)) /\ (p > worker'.i => Live(r, l))
         /\ worker'.pc \in {"attach", "napi", "init", "attached"} =>
              (p < worker'.i => Live(r, l)) /\ (p > worker'.i => Gone(r))
BY DEF WorkerPort

\* The reset works on one port at a time.
LEMMA WorkerOne ==
  ASSUME IInv, IInv', Alone, Alone', AllAt, Resetting, Resetting', UNCHANGED pending,
         NEW i \in Ports, i = worker.i, NEW q, port' = [port EXCEPT ![i] = q],
         worker'.i = i,
         \/ /\ worker.pc \in {"detach", "down", "free"}
            /\ worker'.pc \in {"detach", "down", "free"}
         \/ /\ worker.pc \in {"attach", "napi", "init", "attached"}
            /\ worker'.pc \in {"attach", "napi", "init", "attached"},
         /\ worker'.pc = "detach" => Live(q, Linked(i))
         /\ worker'.pc = "down" => Falling(q)
         /\ worker'.pc = "free" => Fallen(q)
         /\ worker'.pc = "attach" => Gone(q)
         /\ worker'.pc = "napi" => Rising(q)
         /\ worker'.pc = "init" => Risen(q)
         /\ worker'.pc = "attached" => Whole(q, Linked(i))
  PROVE  AllAt'
<1> SUFFICES ASSUME NEW p \in Ports PROVE WorkerPort(p, port[p], Linked(p))'
  BY AllByWorker
<1>0. p \in Nat /\ i \in Nat /\ port' = [port EXCEPT ![i] = q] /\ PortsOK
  BY RecoveryAssumption DEF Ports, IInv, TypeOK
<1>1. Linked(p)' = Linked(p) /\ port'[p] = IF p = i THEN q ELSE port[p]
  BY <1>0 DEF Linked, PortsOK
<1>2. CASE p = i
  BY <1>0, <1>1, <1>2 DEF WorkerPort
<1>3. CASE p # i
  <2>1. WorkerPort(p, port[p], Linked(p))
    BY AllByWorker
  <2>2. /\ worker'.pc \in {"detach", "down", "free"} =>
             (p < worker'.i => Gone(port[p])) /\ (p > worker'.i => Live(port[p], Linked(p)))
        /\ worker'.pc \in {"attach", "napi", "init", "attached"} =>
             (p < worker'.i => Live(port[p], Linked(p))) /\ (p > worker'.i => Gone(port[p]))
    BY <1>0, <1>3, <2>1, WorkerOther
  <2> QED BY <1>1, <1>3, <2>2 DEF WorkerPort
<1> QED BY <1>2, <1>3

\* It has done with a port and goes on to the next.
LEMMA WorkerNextPort ==
  ASSUME IInv, IInv', Alone, Alone', AllAt, Resetting, Resetting', UNCHANGED pending,
         NEW i \in Ports, i = worker.i, NEW q, port' = [port EXCEPT ![i] = q],
         worker'.i = i + 1,
         \/ worker.pc = "free" /\ worker'.pc = "detach" /\ Gone(q)
         \/ worker.pc = "attached" /\ worker'.pc = "attach" /\ Live(q, Linked(i))
  PROVE  AllAt'
<1> SUFFICES ASSUME NEW p \in Ports PROVE WorkerPort(p, port[p], Linked(p))'
  BY AllByWorker
<1>0. p \in Nat /\ i \in Nat /\ port' = [port EXCEPT ![i] = q] /\ PortsOK
  BY RecoveryAssumption DEF Ports, IInv, TypeOK
<1>1. Linked(p)' = Linked(p) /\ port'[p] = IF p = i THEN q ELSE port[p]
  BY <1>0 DEF Linked, PortsOK
<1>2. WorkerPort(p, port[p], Linked(p))
  BY AllByWorker
<1>3. CASE worker.pc = "free"
  BY <1>0, <1>1, <1>2, <1>3 DEF WorkerPort
<1>4. CASE worker.pc = "attached"
  BY <1>0, <1>1, <1>2, <1>4 DEF WorkerPort
<1> QED BY <1>3, <1>4

LEMMA ResetCalm ==
  ASSUME IInv, IInv', Alone, Alone', AllAt, ~Failure, Reset
  PROVE  AllAt'
<1>0. /\ PortsOK /\ ThreadsOK /\ Places /\ NumPorts \in Nat \ {0}
      /\ worker.why \notin {"panic", "fatal"} /\ worker.pc # "ready"
      /\ \A p \in Ports : port[p] \in PortStates
  BY RecoveryAssumption DEF IInv, TypeOK, Alone, PortsOK
<1>1. /\ worker.i \in 0 .. NumPorts
      /\ \A l : WorkerAt(l) => worker'.pc = l /\ worker'.i = worker.i /\ worker'.why = worker.why
  BY <1>0 DEF ThreadsOK, WorkerAt
<1>2. \A i \in 0 .. NumPorts : i < NumPorts => i \in Ports
  BY <1>0 DEF Ports
<1>3. ASSUME DetachPort PROVE AllAt'
  <2> DEFINE i == worker.i
             q == [port[i] EXCEPT !.present = @ /\ worker.why = "fatal", !.isUp = "resetting"]
  <2>1. i \in Ports /\ worker.pc = "detach" /\ UNCHANGED pending
    BY <1>1, <1>2, <1>3 DEF DetachPort, envVars
  <2>2. port' = [port EXCEPT ![i] = q]
    BY <1>3 DEF DetachPort
  <2>3. /\ worker'.pc = IF port[i].state = "up" THEN "down" ELSE "free"
        /\ worker'.i = i /\ Resetting /\ Resetting'
    BY <1>1, <1>3, <2>1 DEF DetachPort, Resetting
  <2>4. WorkerPort(i, port[i], Linked(i))
    BY <2>1, <2>3, AllByWorker
  <2>5. Live(port[i], Linked(i))
    BY <2>1, <2>4 DEF WorkerPort
  <2>6. /\ q.running = port[i].running /\ q.state = port[i].state /\ q.napi = port[i].napi
        /\ q.isUp = "resetting"
    BY <1>0, <2>1 DEF PortStates
  <2> HIDE DEF q
  <2>7. IF port[i].state = "up" THEN Falling(q) ELSE Fallen(q)
    BY <2>5, <2>6 DEF Live, Whole, Falling, Fallen
  <2> HIDE DEF i
  <2> QED BY <2>1, <2>2, <2>3, <2>7, WorkerOne DEF i
<1>4. ASSUME DetachDown PROVE AllAt'
  <2> DEFINE i == worker.i
             q == [port[i] EXCEPT !.napi = @ /\ ~Disables(i), !.timer = FALSE]
  <2>1. i \in Ports /\ worker.pc = "down" /\ UNCHANGED pending
    BY <1>0, <1>4 DEF DetachDown, Places, envVars
  <2>2. port' = [port EXCEPT ![i] = q]
    BY <1>4 DEF DetachDown
  <2>3. worker'.pc = "free" /\ worker'.i = i /\ Resetting /\ Resetting'
    BY <1>1, <1>4, <2>1 DEF DetachDown, Resetting
  <2>4. WorkerPort(i, port[i], Linked(i))
    BY <2>1, <2>3, AllByWorker
  <2>5. Falling(port[i])
    BY <2>1, <2>4 DEF WorkerPort
  <2>6. /\ q.running = port[i].running /\ q.state = port[i].state /\ q.isUp = port[i].isUp
        /\ q.napi = (port[i].napi /\ ~Disables(i))
    BY <1>0, <2>1 DEF PortStates
  <2> HIDE DEF q
  <2>7. Fallen(q)
    BY <2>5, <2>6 DEF Falling, Fallen, Disables
  <2> HIDE DEF i
  <2> QED BY <2>1, <2>2, <2>3, <2>7, WorkerOne DEF i
<1>5. ASSUME DetachFree PROVE AllAt'
  <2> DEFINE i == worker.i
             q == [port[i] EXCEPT !.rings = FALSE, !.isUp = "no"]
  <2>1. i \in Ports /\ worker.pc = "free" /\ UNCHANGED pending
    BY <1>0, <1>5 DEF DetachFree, Places, envVars
  <2>2. port' = [port EXCEPT ![i] = q]
    BY <1>0, <1>5 DEF DetachFree
  <2>3. worker'.pc = "detach" /\ worker'.i = i + 1 /\ Resetting /\ Resetting'
    BY <1>0, <1>5, <2>1 DEF DetachFree, Resetting, ThreadsOK
  <2>4. WorkerPort(i, port[i], Linked(i))
    BY <2>1, <2>3, AllByWorker
  <2>5. Fallen(port[i])
    BY <2>1, <2>4 DEF WorkerPort
  <2>6. /\ q.running = port[i].running /\ q.state = port[i].state /\ q.isUp = "no"
        /\ q.napi = port[i].napi
    BY <1>0, <2>1 DEF PortStates
  <2> HIDE DEF q
  <2>7. Gone(q)
    BY <2>5, <2>6 DEF Fallen, Gone
  <2> HIDE DEF i
  <2> QED BY <2>1, <2>2, <2>3, <2>7, WorkerNextPort DEF i
<1>6. ASSUME NEW ok \in BOOLEAN, RestartFw(ok) PROVE AllAt'
  <2>1. ok = TRUE
    BY <1>6 DEF Failure
  <2>2. /\ worker.pc = "detach" /\ worker.i = NumPorts /\ UNCHANGED <<port, pending>>
        /\ worker' = [worker EXCEPT !.pc = "attach", !.i = 0]
    BY <1>6, <2>1 DEF RestartFw
  <2>3. worker'.pc = "attach" /\ worker'.i = 0 /\ Resetting /\ Resetting'
    BY <1>0, <2>2 DEF Resetting, ThreadsOK
  <2> SUFFICES ASSUME NEW p \in Ports PROVE WorkerPort(p, port[p], Linked(p))'
    BY <2>3, AllByWorker
  <2>4. WorkerPort(p, port[p], Linked(p))
    BY <2>3, AllByWorker
  <2>5. p \in Nat /\ p < NumPorts
    BY <1>0 DEF Ports
  <2>6. Gone(port'[p])
    BY <2>2, <2>4, <2>5 DEF WorkerPort
  <2> QED BY <2>3, <2>5, <2>6 DEF WorkerPort
<1>7. ASSUME NEW ok \in BOOLEAN, AttachPort(ok) PROVE AllAt'
  <2> DEFINE i == worker.i
  <2>1. i \in Ports /\ worker.pc = "attach" /\ UNCHANGED pending
    BY <1>1, <1>2, <1>7 DEF AttachPort, envVars
  <2>2. ok = TRUE
    BY <1>7 DEF Failure
  <2>3. /\ worker'.pc = IF port[i].state = "up" THEN "napi" ELSE "attached"
        /\ worker'.i = i /\ Resetting /\ Resetting'
    BY <1>1, <1>7, <2>1, <2>2 DEF AttachPort, Resetting
  <2>4. WorkerPort(i, port[i], Linked(i))
    BY <2>1, <2>3, AllByWorker
  <2>5. Gone(port[i])
    BY <2>1, <2>4 DEF WorkerPort
  <2>6. CASE port[i].state = "up"
    <3> DEFINE q == [port[i] EXCEPT !.rings = TRUE, !.isUp = "magic"]
    <3>1. port' = [port EXCEPT ![i] = q]
      BY <1>7, <2>2, <2>5, <2>6 DEF AttachPort, Attach, Attached, Gone
    <3>2. /\ q.running = port[i].running /\ q.state = port[i].state /\ q.isUp = "magic"
          /\ q.napi = port[i].napi /\ q.rings
      BY <1>0, <2>1 DEF PortStates
    <3> HIDE DEF q
    <3>3. Rising(q)
      BY <2>5, <2>6, <3>2 DEF Gone, Rising
    <3> HIDE DEF i
    <3> QED BY <2>1, <2>3, <2>6, <3>1, <3>3, WorkerOne DEF i
  <2>7. CASE port[i].state # "up"
    <3>1. port' = [port EXCEPT ![i] = port[i]]
      BY <1>0, <1>7, <2>1, <2>7 DEF AttachPort, PortsOK
    <3>2. Whole(port[i], Linked(i))
      BY <2>5, <2>7 DEF Gone, Whole, Kept
    <3> HIDE DEF i
    <3> QED BY <2>1, <2>3, <2>7, <3>1, <3>2, WorkerOne DEF i
  <2> QED BY <2>6, <2>7
<1>8. ASSUME AttachNapi PROVE AllAt'
  <2> DEFINE i == worker.i
             q == [port[i] EXCEPT !.napi = TRUE]
  <2>1. i \in Ports /\ worker.pc = "napi" /\ UNCHANGED pending
    BY <1>0, <1>8 DEF AttachNapi, Places, envVars
  <2>2. port' = [port EXCEPT ![i] = q]
    BY <1>8 DEF AttachNapi, NapiEnable
  <2>3. worker'.pc = "init" /\ worker'.i = i /\ Resetting /\ Resetting'
    BY <1>1, <1>8, <2>1 DEF AttachNapi, Resetting
  <2>4. WorkerPort(i, port[i], Linked(i))
    BY <2>1, <2>3, AllByWorker
  <2>5. Rising(port[i])
    BY <2>1, <2>4 DEF WorkerPort
  <2>6. /\ q.running = port[i].running /\ q.state = port[i].state /\ q.isUp = port[i].isUp
        /\ q.rings = port[i].rings /\ q.napi
    BY <1>0, <2>1 DEF PortStates
  <2> HIDE DEF q
  <2>7. Risen(q)
    BY <2>5, <2>6 DEF Rising, Risen
  <2> HIDE DEF i
  <2> QED BY <2>1, <2>2, <2>3, <2>7, WorkerOne DEF i
<1>9. ASSUME NEW ok \in BOOLEAN, AttachInit(ok) PROVE AllAt'
  <2> DEFINE i == worker.i
             q == [port[i] EXCEPT !.timer = TRUE]
  <2>1. i \in Ports /\ worker.pc = "init" /\ UNCHANGED pending
    BY <1>0, <1>9 DEF AttachInit, Places, envVars
  <2>2. port' = [port EXCEPT ![i] = q]
    <3>1. ok = TRUE
      BY <1>9 DEF Failure
    <3> QED BY <1>9, <3>1 DEF AttachInit
  <2>3. worker'.pc = "attached" /\ worker'.i = i /\ Resetting /\ Resetting'
    BY <1>1, <1>9, <2>1 DEF AttachInit, Resetting
  <2>4. WorkerPort(i, port[i], Linked(i))
    BY <2>1, <2>3, AllByWorker
  <2>5. Risen(port[i])
    BY <2>1, <2>4 DEF WorkerPort
  <2>6. /\ q.running = port[i].running /\ q.state = port[i].state /\ q.isUp = port[i].isUp
        /\ q.rings = port[i].rings /\ q.napi = port[i].napi /\ q.timer
    BY <1>0, <2>1 DEF PortStates
  <2> HIDE DEF q
  <2>7. Whole(q, Linked(i))
    BY <2>5, <2>6 DEF Risen, Whole, Kept
  <2> HIDE DEF i
  <2> QED BY <2>1, <2>2, <2>3, <2>7, WorkerOne DEF i
<1>10. ASSUME AttachedPort PROVE AllAt'
  <2> DEFINE i == worker.i
             q == [port[i] EXCEPT !.present = TRUE]
  <2>1. i \in Ports /\ worker.pc = "attached" /\ UNCHANGED pending
    BY <1>0, <1>10 DEF AttachedPort, Places, envVars
  <2>2. port' = [port EXCEPT ![i] = q]
    BY <1>10 DEF AttachedPort
  <2>3. worker'.pc = "attach" /\ worker'.i = i + 1 /\ Resetting /\ Resetting'
    BY <1>0, <1>10, <2>1 DEF AttachedPort, Resetting, ThreadsOK
  <2>4. WorkerPort(i, port[i], Linked(i))
    BY <2>1, <2>3, AllByWorker
  <2>5. Whole(port[i], Linked(i))
    BY <2>1, <2>4 DEF WorkerPort
  <2>6. /\ q.running = port[i].running /\ q.state = port[i].state /\ q.isUp = port[i].isUp
        /\ q.rings = port[i].rings /\ q.napi = port[i].napi /\ q.timer = port[i].timer
        /\ q.present
    BY <1>0, <2>1 DEF PortStates
  <2> HIDE DEF q
  <2>7. Live(q, Linked(i))
    BY <2>5, <2>6 DEF Live, Whole, Kept
  <2> HIDE DEF i
  <2> QED BY <2>1, <2>2, <2>3, <2>7, WorkerNextPort DEF i
<1>11. ASSUME SetReady PROVE AllAt'
  <2>1. /\ worker.pc = "attach" /\ worker.i = NumPorts /\ UNCHANGED <<pending, rtnl, aer>>
        /\ worker'.pc = "idle"
    BY <1>0, <1>1, <1>11 DEF SetReady, Rearms
  <2>2. Resetting /\ ~Resetting' /\ ~Recovering' /\ rtnl'.pc = "idle"
    <3>1. Resetting /\ ~Resetting'
      BY <2>1 DEF Resetting
    <3> QED BY <2>1, <3>1, OneAtWork DEF Recovering
  <2> SUFFICES ASSUME NEW p \in Ports PROVE Live(port[p], Linked(p))'
    BY <2>2, AllLive
  <2>3. p \in Nat /\ p < NumPorts
    BY <1>0 DEF Ports
  <2>4. WorkerPort(p, port[p], Linked(p))
    BY <2>2, AllByWorker
  <2>5. Live(port[p], Linked(p)) /\ Linked(p)' = Linked(p)
    BY <2>1, <2>3, <2>4 DEF WorkerPort, Linked
  <2>6. Alike(port[p], Linked(p), port'[p], Linked(p)')
    <3>1. CASE worker.why = "timeout"
      <4>1. port'[p] = [port[p] EXCEPT !.count = 0]
        BY <1>11, <3>1 DEF SetReady
      <4> QED BY <1>0, <2>5, <4>1 DEF Alike, PortStates
    <3>2. CASE worker.why # "timeout"
      <4>1. port' = port
        BY <1>11, <3>2 DEF SetReady
      <4> QED BY <2>5, <4>1, SameAlike
    <3> QED BY <3>1, <3>2
  <2> QED BY <2>5, <2>6, AlikeStays
<1>12. ~DetachedDead
  BY <1>0 DEF DetachedDead
<1> QED BY <1>3, <1>4, <1>5, <1>6, <1>7, <1>8, <1>9, <1>10, <1>11, <1>12 DEF Reset

\* The PCI error recovery works on one port at a time.
LEMMA AerOne ==
  ASSUME IInv, IInv', Alone, Alone', AllAt, Recovering, Recovering', UNCHANGED pending,
         NEW i \in Ports, i = aer.i, NEW q, port' = [port EXCEPT ![i] = q],
         aer'.i = i,
         \/ /\ aer.pc \in {"detected", "down", "flush", "timer", "detach"}
            /\ aer'.pc \in {"detected", "down", "flush", "timer", "detach"}
         \/ /\ aer.pc \in {"slot", "attach", "napi", "init", "attached"}
            /\ aer'.pc \in {"slot", "attach", "napi", "init", "attached"},
         /\ aer'.pc = "detected" => Live(q, Linked(i))
         /\ aer'.pc = "down" => Risen(q)
         /\ aer'.pc \in {"flush", "timer", "detach"} => Stopped(q)
         /\ aer'.pc = "slot" => Gone(q)
         /\ aer'.pc = "attach" => Gone(q) /\ q.running
         /\ aer'.pc = "napi" => Rising(q)
         /\ aer'.pc = "init" => Risen(q)
         /\ aer'.pc = "attached" => Whole(q, Linked(i))
  PROVE  AllAt'
<1> SUFFICES ASSUME NEW p \in Ports PROVE AerPort(p, port[p], Linked(p))'
  BY AllByAer
<1>0. p \in Nat /\ i \in Nat /\ port' = [port EXCEPT ![i] = q] /\ PortsOK
  BY RecoveryAssumption DEF Ports, IInv, TypeOK
<1>1. Linked(p)' = Linked(p) /\ port'[p] = IF p = i THEN q ELSE port[p]
  BY <1>0 DEF Linked, PortsOK
<1>2. CASE p = i
  BY <1>0, <1>1, <1>2 DEF AerPort
<1>3. CASE p # i
  <2>1. AerPort(p, port[p], Linked(p))
    BY AllByAer
  <2>2. /\ aer'.pc \in {"detected", "down", "flush", "timer", "detach"} =>
             (p < i => Gone(port[p])) /\ (p > i => Live(port[p], Linked(p)))
        /\ aer'.pc \in {"slot", "attach", "napi", "init", "attached"} =>
             (p < i => Live(port[p], Linked(p))) /\ (p > i => Gone(port[p]))
    BY <1>0, <2>1 DEF AerPort
  <2> QED BY <1>1, <1>3, <2>2 DEF AerPort
<1> QED BY <1>2, <1>3

\* It has done with a port and goes on to the next.
LEMMA AerNextPort ==
  ASSUME IInv, IInv', Alone, Alone', AllAt, Recovering, Recovering', UNCHANGED pending,
         NEW i \in Ports, i = aer.i, NEW q, port' = [port EXCEPT ![i] = q],
         aer'.i = i + 1,
         \/ aer.pc = "detach" /\ aer'.pc = "detected" /\ Gone(q)
         \/ aer.pc = "attached" /\ aer'.pc = "slot" /\ Live(q, Linked(i))
  PROVE  AllAt'
<1> SUFFICES ASSUME NEW p \in Ports PROVE AerPort(p, port[p], Linked(p))'
  BY AllByAer
<1>0. p \in Nat /\ i \in Nat /\ port' = [port EXCEPT ![i] = q] /\ PortsOK
  BY RecoveryAssumption DEF Ports, IInv, TypeOK
<1>1. Linked(p)' = Linked(p) /\ port'[p] = IF p = i THEN q ELSE port[p]
  BY <1>0 DEF Linked, PortsOK
<1>2. AerPort(p, port[p], Linked(p))
  BY AllByAer
<1>3. CASE aer.pc = "detach"
  BY <1>0, <1>1, <1>2, <1>3 DEF AerPort
<1>4. CASE aer.pc = "attached"
  BY <1>0, <1>1, <1>2, <1>4 DEF AerPort
<1> QED BY <1>3, <1>4

\* The PCI error recovery begins on ports that nobody works on.
LEMMA AerBegins ==
  ASSUME IInv, IInv', Alone, Alone', AllAt, AerDetected
  PROVE  AllAt'
<1>1. /\ aer.pc = "idle" /\ aer'.pc = "detected" /\ aer'.i = 0
      /\ UNCHANGED <<port, pending, worker, rtnl>>
  BY DEF AerDetected, envVars
<1>2. Recovering' /\ ~Recovering
  BY <1>1 DEF Recovering
<1>3. ~Resetting' /\ rtnl'.pc = "idle"
  BY <1>2, OneAtWork
<1>4. ~Resetting /\ rtnl.pc = "idle"
  BY <1>1, <1>3 DEF Resetting
<1> SUFFICES ASSUME NEW p \in Ports PROVE AerPort(p, port[p], Linked(p))'
  BY <1>2, AllByAer
<1>5. Live(port[p], Linked(p)) /\ Linked(p)' = Linked(p) /\ port'[p] = port[p]
  BY <1>1, <1>2, <1>4, AllLive DEF Linked
<1>6. p \in Nat
  BY RecoveryAssumption DEF Ports
<1> QED BY <1>1, <1>5, <1>6 DEF AerPort

LEMMA AerCalm ==
  ASSUME IInv, IInv', Alone, Alone', AllAt, ~Failure, AerGoesOn
  PROVE  AllAt'
<1>0. /\ PortsOK /\ ThreadsOK /\ Places /\ NumPorts \in Nat \ {0}
      /\ \A p \in Ports : port[p] \in PortStates
  BY RecoveryAssumption DEF IInv, TypeOK, PortsOK
<1>1. /\ aer.i \in 0 .. NumPorts
      /\ \A l : AerAt(l) => aer'.pc = l /\ aer'.i = aer.i
  BY <1>0 DEF ThreadsOK, AerAt
<1>2. \A i \in 0 .. NumPorts : i < NumPorts => i \in Ports
  BY <1>0 DEF Ports
<1>3. ASSUME AerDetach PROVE AllAt'
  <2> DEFINE i == aer.i
             q == [port[i] EXCEPT !.present = FALSE]
  <2>1. i \in Ports /\ aer.pc = "detected" /\ UNCHANGED pending
    BY <1>1, <1>2, <1>3 DEF AerDetach, envVars
  <2>2. port' = [port EXCEPT ![i] = q]
    BY <1>3 DEF AerDetach
  <2>3. /\ aer'.pc = IF port[i].running THEN "down" ELSE "detach"
        /\ aer'.i = i /\ Recovering /\ Recovering'
    BY <1>1, <1>3, <2>1 DEF AerDetach, Recovering
  <2>4. AerPort(i, port[i], Linked(i))
    BY <2>1, <2>3, AllByAer
  <2>5. Live(port[i], Linked(i))
    BY <2>1, <2>4 DEF AerPort
  <2>6. /\ q.running = port[i].running /\ q.state = port[i].state /\ q.napi = port[i].napi
        /\ q.isUp = port[i].isUp /\ q.rings = port[i].rings
    BY <1>0, <2>1 DEF PortStates
  <2> HIDE DEF q
  <2>7. IF port[i].running THEN Risen(q) ELSE Stopped(q)
    BY <2>5, <2>6 DEF Live, Whole, Kept, Risen, Stopped
  <2> HIDE DEF i
  <2> QED BY <2>1, <2>2, <2>3, <2>7, AerOne DEF i
<1>4. ASSUME AerDown PROVE AllAt'
  <2> DEFINE i == aer.i
             q == [port[i] EXCEPT !.napi = FALSE]
  <2>1. i \in Ports /\ aer.pc = "down" /\ UNCHANGED pending
    BY <1>0, <1>4 DEF AerDown, Places, envVars
  <2>2. aer'.pc = "flush" /\ aer'.i = i /\ Recovering /\ Recovering'
    BY <1>1, <1>4, <2>1 DEF AerDown, Recovering
  <2>3. AerPort(i, port[i], Linked(i))
    BY <2>1, <2>2, AllByAer
  <2>4. Risen(port[i])
    BY <2>1, <2>3 DEF AerPort
  <2>5. port' = [port EXCEPT ![i] = q]
    <3>1. Disables(i)
      BY <2>4 DEF Disables, Risen
    <3> QED BY <1>4, <3>1 DEF AerDown, NapiDisable
  <2>6. /\ q.running = port[i].running /\ q.state = port[i].state /\ ~q.napi
    BY <1>0, <2>1 DEF PortStates
  <2> HIDE DEF q
  <2>7. Stopped(q)
    BY <2>4, <2>6 DEF Risen, Stopped
  <2> HIDE DEF i
  <2> QED BY <2>1, <2>2, <2>5, <2>7, AerOne DEF i
<1>5. ASSUME AerFlush PROVE AllAt'
  <2> DEFINE i == aer.i
             q == port[i]
  <2>1. i \in Ports /\ aer.pc = "flush" /\ UNCHANGED <<pending, port>>
    BY <1>0, <1>5 DEF AerFlush, Places
  <2>2. aer'.pc = "timer" /\ aer'.i = i /\ Recovering /\ Recovering'
    BY <1>1, <1>5, <2>1 DEF AerFlush, Recovering
  <2>3. AerPort(i, port[i], Linked(i))
    BY <2>1, <2>2, AllByAer
  <2>4. Stopped(q)
    BY <2>1, <2>3 DEF AerPort
  <2>5. port' = [port EXCEPT ![i] = q]
    BY <1>0, <2>1 DEF PortsOK
  <2> HIDE DEF q, i
  <2> QED BY <2>1, <2>2, <2>4, <2>5, AerOne DEF i
<1>6. ASSUME AerTimer PROVE AllAt'
  <2> DEFINE i == aer.i
             q == [port[i] EXCEPT !.timer = FALSE]
  <2>1. i \in Ports /\ aer.pc = "timer" /\ UNCHANGED pending
    BY <1>0, <1>6 DEF AerTimer, Places, envVars
  <2>2. port' = [port EXCEPT ![i] = q]
    BY <1>6 DEF AerTimer
  <2>3. aer'.pc = "detach" /\ aer'.i = i /\ Recovering /\ Recovering'
    BY <1>1, <1>6, <2>1 DEF AerTimer, Recovering
  <2>4. AerPort(i, port[i], Linked(i))
    BY <2>1, <2>3, AllByAer
  <2>5. Stopped(port[i])
    BY <2>1, <2>4 DEF AerPort
  <2>6. q.running = port[i].running /\ q.state = port[i].state /\ q.napi = port[i].napi
    BY <1>0, <2>1 DEF PortStates
  <2> HIDE DEF q
  <2>7. Stopped(q)
    BY <2>5, <2>6 DEF Stopped
  <2> HIDE DEF i
  <2> QED BY <2>1, <2>2, <2>3, <2>7, AerOne DEF i
<1>7. ASSUME AerFree PROVE AllAt'
  <2> DEFINE i == aer.i
             q == [port[i] EXCEPT !.rings = FALSE, !.isUp = "no"]
  <2>1. i \in Ports /\ aer.pc = "detach" /\ UNCHANGED pending
    BY <1>0, <1>7 DEF AerFree, Places, envVars
  <2>2. port' = [port EXCEPT ![i] = q]
    BY <1>7 DEF AerFree
  <2>3. aer'.pc = "detected" /\ aer'.i = i + 1 /\ Recovering /\ Recovering'
    BY <1>0, <1>7, <2>1 DEF AerFree, Recovering, ThreadsOK
  <2>4. AerPort(i, port[i], Linked(i))
    BY <2>1, <2>3, AllByAer
  <2>5. Stopped(port[i])
    BY <2>1, <2>4 DEF AerPort
  <2>6. /\ q.running = port[i].running /\ q.state = port[i].state /\ q.isUp = "no"
        /\ q.napi = port[i].napi
    BY <1>0, <2>1 DEF PortStates
  <2> HIDE DEF q
  <2>7. Gone(q)
    BY <2>5, <2>6 DEF Stopped, Gone
  <2> HIDE DEF i
  <2> QED BY <2>1, <2>2, <2>3, <2>7, AerNextPort DEF i
<1>8. ASSUME NEW ok \in BOOLEAN, AerSlotReset(ok) PROVE AllAt'
  <2>1. ok = TRUE
    BY <1>8 DEF Failure
  <2> DEFINE i == IF aer.pc = "slot" THEN aer.i ELSE 0
  <2>2. /\ \/ aer.pc = "detected" /\ aer.i = NumPorts
           \/ aer.pc = "slot" /\ aer.i < NumPorts
        /\ aer' = [aer EXCEPT !.i = i,
                              !.pc = IF port[i].running THEN "attach" ELSE "attached"]
        /\ UNCHANGED <<port, pending>>
    BY <1>8, <2>1 DEF AerSlotReset
  <2>3. i \in Ports
    BY <1>1, <1>2, <2>2, PortNumbers
  <2>4. /\ aer'.i = i /\ aer'.pc = IF port[i].running THEN "attach" ELSE "attached"
        /\ Recovering /\ Recovering'
    BY <1>0, <2>2 DEF Recovering, ThreadsOK
  <2>5. i = IF aer.pc = "slot" THEN aer.i ELSE 0
    OBVIOUS
  <2> HIDE DEF i
  <2> SUFFICES ASSUME NEW p \in Ports PROVE AerPort(p, port[p], Linked(p))'
    BY <2>4, AllByAer
  <2>6. AerPort(p, port[p], Linked(p)) /\ p \in Nat /\ p < NumPorts /\ i \in Nat
    BY <1>0, <2>3, <2>4, AllByAer DEF Ports
  <2>7. (p < i => Live(port[p], Linked(p))) /\ (p >= i => Gone(port[p]))
    BY <1>1, <2>2, <2>5, <2>6 DEF AerPort
  <2>8. p = i /\ ~port[p].running => Whole(port[p], Linked(p))
    BY <2>6, <2>7 DEF Gone, Whole, Kept
  <2>9. port'[p] = port[p] /\ Linked(p)' = Linked(p)
    BY <2>2 DEF Linked
  <2> QED BY <2>4, <2>6, <2>7, <2>8, <2>9 DEF AerPort
<1>9. ASSUME NEW ok \in BOOLEAN, AerAttach(ok) PROVE AllAt'
  <2> DEFINE i == aer.i
             q == [port[i] EXCEPT !.rings = TRUE, !.isUp = "magic"]
  <2>1. i \in Ports /\ aer.pc = "attach" /\ UNCHANGED pending
    BY <1>0, <1>9 DEF AerAttach, Places, envVars
  <2>2. ok = TRUE
    BY <1>9 DEF Failure
  <2>3. aer'.pc = "napi" /\ aer'.i = i /\ Recovering /\ Recovering'
    BY <1>1, <1>9, <2>1, <2>2 DEF AerAttach, Recovering
  <2>4. AerPort(i, port[i], Linked(i))
    BY <2>1, <2>3, AllByAer
  <2>5. Gone(port[i]) /\ port[i].running
    BY <2>1, <2>4 DEF AerPort
  <2>6. port' = [port EXCEPT ![i] = q]
    BY <1>9, <2>2, <2>5 DEF AerAttach, Attach, Attached, Gone
  <2>7. /\ q.running = port[i].running /\ q.state = port[i].state /\ q.isUp = "magic"
        /\ q.napi = port[i].napi /\ q.rings
    BY <1>0, <2>1 DEF PortStates
  <2> HIDE DEF q
  <2>8. Rising(q)
    BY <2>5, <2>7 DEF Gone, Rising
  <2> HIDE DEF i
  <2> QED BY <2>1, <2>3, <2>6, <2>8, AerOne DEF i
<1>10. ASSUME AerNapi PROVE AllAt'
  <2> DEFINE i == aer.i
             q == [port[i] EXCEPT !.napi = TRUE]
  <2>1. i \in Ports /\ aer.pc = "napi" /\ UNCHANGED pending
    BY <1>0, <1>10 DEF AerNapi, Places, envVars
  <2>2. port' = [port EXCEPT ![i] = q]
    BY <1>10 DEF AerNapi, NapiEnable
  <2>3. aer'.pc = "init" /\ aer'.i = i /\ Recovering /\ Recovering'
    BY <1>1, <1>10, <2>1 DEF AerNapi, Recovering
  <2>4. AerPort(i, port[i], Linked(i))
    BY <2>1, <2>3, AllByAer
  <2>5. Rising(port[i])
    BY <2>1, <2>4 DEF AerPort
  <2>6. /\ q.running = port[i].running /\ q.state = port[i].state /\ q.isUp = port[i].isUp
        /\ q.rings = port[i].rings /\ q.napi
    BY <1>0, <2>1 DEF PortStates
  <2> HIDE DEF q
  <2>7. Risen(q)
    BY <2>5, <2>6 DEF Rising, Risen
  <2> HIDE DEF i
  <2> QED BY <2>1, <2>2, <2>3, <2>7, AerOne DEF i
<1>11. ASSUME NEW ok \in BOOLEAN, AerInit(ok) PROVE AllAt'
  <2> DEFINE i == aer.i
             q == [port[i] EXCEPT !.timer = TRUE]
  <2>1. i \in Ports /\ aer.pc = "init" /\ UNCHANGED pending
    BY <1>0, <1>11 DEF AerInit, Places, envVars
  <2>2. ok = TRUE
    BY <1>11 DEF Failure
  <2>3. port' = [port EXCEPT ![i] = q]
    BY <1>11, <2>2 DEF AerInit
  <2>4. aer'.pc = "attached" /\ aer'.i = i /\ Recovering /\ Recovering'
    BY <1>1, <1>11, <2>1, <2>2 DEF AerInit, Recovering
  <2>5. AerPort(i, port[i], Linked(i))
    BY <2>1, <2>4, AllByAer
  <2>6. Risen(port[i])
    BY <2>1, <2>5 DEF AerPort
  <2>7. /\ q.running = port[i].running /\ q.state = port[i].state /\ q.isUp = port[i].isUp
        /\ q.rings = port[i].rings /\ q.napi = port[i].napi /\ q.timer
    BY <1>0, <2>1 DEF PortStates
  <2> HIDE DEF q
  <2>8. Whole(q, Linked(i))
    BY <2>6, <2>7 DEF Risen, Whole, Kept
  <2> HIDE DEF i
  <2> QED BY <2>1, <2>3, <2>4, <2>8, AerOne DEF i
<1>12. ASSUME AerAttached PROVE AllAt'
  <2> DEFINE i == aer.i
             q == [port[i] EXCEPT !.present = TRUE]
  <2>1. i \in Ports /\ aer.pc = "attached" /\ UNCHANGED pending
    BY <1>0, <1>12 DEF AerAttached, Places, envVars
  <2>2. port' = [port EXCEPT ![i] = q]
    BY <1>12 DEF AerAttached
  <2>3. aer'.pc = "slot" /\ aer'.i = i + 1 /\ Recovering /\ Recovering'
    BY <1>0, <1>12, <2>1 DEF AerAttached, Recovering, ThreadsOK
  <2>4. AerPort(i, port[i], Linked(i))
    BY <2>1, <2>3, AllByAer
  <2>5. Whole(port[i], Linked(i))
    BY <2>1, <2>4 DEF AerPort
  <2>6. /\ q.running = port[i].running /\ q.state = port[i].state /\ q.isUp = port[i].isUp
        /\ q.rings = port[i].rings /\ q.napi = port[i].napi /\ q.timer = port[i].timer
        /\ q.present
    BY <1>0, <2>1 DEF PortStates
  <2> HIDE DEF q
  <2>7. Live(q, Linked(i))
    BY <2>5, <2>6 DEF Live, Whole, Kept
  <2> HIDE DEF i
  <2> QED BY <2>1, <2>2, <2>3, <2>7, AerNextPort DEF i
<1>13. ASSUME AerEnd PROVE AllAt'
  <2>1. /\ aer.pc = "slot" /\ aer.i = NumPorts /\ aer'.pc = "idle"
        /\ UNCHANGED <<port, pending, worker, rtnl>>
    BY <1>1, <1>13 DEF AerEnd, envVars
  <2>2. Recovering /\ ~Recovering' /\ ~Resetting' /\ rtnl'.pc = "idle"
    <3>1. Recovering /\ ~Recovering'
      BY <2>1 DEF Recovering
    <3>2. ~Resetting /\ rtnl.pc = "idle"
      BY <3>1, OneAtWork
    <3> QED BY <2>1, <3>1, <3>2 DEF Resetting
  <2> SUFFICES ASSUME NEW p \in Ports PROVE Live(port[p], Linked(p))'
    BY <2>2, AllLive
  <2>3. AerPort(p, port[p], Linked(p)) /\ p \in Nat /\ p < NumPorts
    BY <1>0, <2>2, AllByAer DEF Ports
  <2>4. Live(port[p], Linked(p)) /\ Linked(p)' = Linked(p) /\ port'[p] = port[p]
    BY <2>1, <2>3 DEF AerPort, Linked
  <2> QED BY <2>4
<1> QED BY <1>3, <1>4, <1>5, <1>6, <1>7, <1>8, <1>9, <1>10, <1>11, <1>12, <1>13 DEF AerGoesOn

\* An open or a close works on its own port.
LEMMA UserOne ==
  ASSUME IInv, IInv', Alone, Alone', UNCHANGED pending, rtnl'.pc # "idle",
         NEW i \in Ports, rtnl'.i = i, NEW q, port' = [port EXCEPT ![i] = q],
         \A p \in Ports : p # i => Live(port[p], Linked(p)),
         q.present,
         rtnl'.pc \in {"open", "napi", "opened"} => q.running /\ q.state = "down",
         rtnl'.pc \in {"close", "flush", "closed"} =>
           ~q.running /\ q.state = "up" /\ q.isUp = "magic" /\ q.rings,
         rtnl'.pc = "open" => q.isUp \in {"no", "magic"} /\ Kept(q) /\ ~q.napi,
         rtnl'.pc \in {"napi", "opened"} => q.isUp = "magic" /\ q.rings,
         rtnl'.pc \in {"napi", "flush", "closed"} => ~q.napi,
         rtnl'.pc \in {"opened", "close"} => q.napi
  PROVE  AllAt'
<1> SUFFICES ASSUME NEW p \in Ports PROVE UserPort(p, port[p], Linked(p))'
  BY AllByUser
<1>0. port' = [port EXCEPT ![i] = q] /\ PortsOK
  BY DEF IInv, TypeOK
<1>1. Linked(p)' = Linked(p) /\ port'[p] = IF p = i THEN q ELSE port[p]
  BY <1>0 DEF Linked, PortsOK
<1>2. CASE p = i
  BY <1>1, <1>2 DEF UserPort
<1>3. CASE p # i
  BY <1>1, <1>3 DEF UserPort
<1> QED BY <1>2, <1>3

\* It begins on ports that nobody works on.
LEMMA UserBegins ==
  ASSUME IInv, IInv', Alone, Alone', AllAt, NEW i \in Ports, Open(i) \/ Close(i)
  PROVE  AllAt'
<1>1. /\ rtnl.pc = "idle" /\ UNCHANGED <<pending, worker, aer>>
      /\ Open(i) => port[i].present /\ ~port[i].running
      /\ ~Open(i) => port[i].running
  BY DEF Open, Close, envVars
<1>2. /\ rtnl'.i = i
      /\ Open(i) => rtnl'.pc = "open"
      /\ ~Open(i) => rtnl'.pc = "close"
  <2>1. CASE Open(i)
    BY <2>1 DEF Open
  <2>2. CASE ~Open(i)
    BY <2>2 DEF Close
  <2> QED BY <2>1, <2>2
<1>3. ~Resetting /\ ~Recovering
  <2>1. ~Resetting' /\ ~Recovering'
    <3>1. rtnl'.pc # "idle"
      BY <1>2
    <3> QED BY <3>1 DEF Alone
  <2> QED BY <1>1, <2>1 DEF Resetting, Recovering
<1>4. \A p \in Ports : Live(port[p], Linked(p))
  BY <1>1, <1>3, AllLive
<1>5. port[i] \in PortStates
  BY DEF IInv, TypeOK, PortsOK
<1>6. CASE Open(i)
  <2> DEFINE q == [port[i] EXCEPT !.running = TRUE]
  <2>1. port' = [port EXCEPT ![i] = q]
    BY <1>6 DEF Open
  <2>2. /\ q.present = port[i].present /\ q.running /\ q.state = port[i].state
        /\ q.isUp = port[i].isUp /\ q.napi = port[i].napi /\ q.rings = port[i].rings
    BY <1>5 DEF PortStates
  <2> HIDE DEF q
  <2>3. /\ q.present /\ q.running /\ q.state = "down" /\ q.isUp \in {"no", "magic"} /\ Kept(q)
        /\ ~q.napi
    <3>1. port[i].state \in {"up", "down"}
      BY <1>5 DEF PortStates
    <3> QED BY <1>1, <1>4, <1>6, <2>2, <3>1 DEF Live, Whole, Kept
  <2>4. rtnl'.pc = "open"
    BY <1>2, <1>6
  <2> QED BY <1>1, <1>2, <1>4, <2>1, <2>3, <2>4, UserOne
<1>7. CASE ~Open(i)
  <2> DEFINE q == [port[i] EXCEPT !.running = FALSE]
  <2>1. port' = [port EXCEPT ![i] = q]
    BY <1>7 DEF Close
  <2>2. /\ q.present = port[i].present /\ ~q.running /\ q.state = port[i].state
        /\ q.isUp = port[i].isUp /\ q.napi = port[i].napi /\ q.rings = port[i].rings
    BY <1>5 DEF PortStates
  <2> HIDE DEF q
  <2>3. /\ q.present /\ ~q.running /\ q.state = "up" /\ q.isUp = "magic" /\ q.rings /\ q.napi
    BY <1>1, <1>4, <1>7, <2>2 DEF Live, Whole, Kept
  <2>4. rtnl'.pc = "close"
    BY <1>2, <1>7
  <2> QED BY <1>1, <1>2, <1>4, <2>1, <2>3, <2>4, UserOne
<1> QED BY <1>6, <1>7

LEMMA UserCalm ==
  ASSUME IInv, IInv', Alone, Alone', AllAt, ~Failure, RtnlGoesOn
  PROVE  AllAt'
<1>0. /\ PortsOK /\ ThreadsOK /\ \A p \in Ports : port[p] \in PortStates
      /\ rtnl.pc # "idle" /\ UNCHANGED <<pending, worker, aer>>
  BY DEF IInv, TypeOK, PortsOK, RtnlGoesOn, OpenNapi, CloseNapi, CloseFlush, CloseEnd, OpenAttach,
     OpenEnd, envVars
<1> DEFINE i == rtnl.i
<1>1. /\ i \in Ports
      /\ \A l : RtnlAt(l) => rtnl'.pc = l /\ rtnl'.i = i
  BY <1>0 DEF ThreadsOK, RtnlAt
<1>2. /\ \A p \in Ports : p # i => Live(port[p], Linked(p))
      /\ UserPort(i, port[i], Linked(i))
      /\ ~Resetting /\ ~Recovering /\ ~Resetting' /\ ~Recovering'
  <2>1. \A p \in Ports : UserPort(p, port[p], Linked(p))
    BY <1>0, AllByUser
  <2>2. ~Resetting /\ ~Recovering
    BY <1>0 DEF Alone
  <2>3. ~Resetting' /\ ~Recovering'
    BY <1>0, <2>2 DEF Resetting, Recovering
  <2> QED BY <1>1, <2>1, <2>2, <2>3 DEF UserPort
<1>3. ASSUME NEW q, port' = [port EXCEPT ![i] = q], Live(q, Linked(i)), rtnl'.pc = "idle"
      PROVE  AllAt'
  <2> SUFFICES ASSUME NEW p \in Ports PROVE Live(port[p], Linked(p))'
    BY <1>2, <1>3, AllLive
  <2>1. Linked(p)' = Linked(p) /\ port'[p] = IF p = i THEN q ELSE port[p]
    BY <1>0, <1>1, <1>3 DEF Linked, PortsOK
  <2> HIDE DEF i
  <2> QED BY <1>2, <1>3, <2>1 DEF Live, Whole, Kept
<1>4. /\ i = rtnl.i /\ port[i] \in PortStates
      /\ rtnl.pc \in {"open", "napi", "opened"} => port[i].running /\ port[i].state = "down"
      /\ rtnl.pc \in {"close", "flush", "closed"} =>
           ~port[i].running /\ port[i].state = "up" /\ port[i].isUp = "magic" /\ port[i].rings
      /\ rtnl.pc = "open" =>
           port[i].isUp \in {"no", "magic"} /\ Kept(port[i]) /\ ~port[i].napi
      /\ rtnl.pc \in {"napi", "opened"} => port[i].isUp = "magic" /\ port[i].rings
      /\ rtnl.pc \in {"napi", "flush", "closed"} => ~port[i].napi
      /\ rtnl.pc \in {"opened", "close"} => port[i].napi
      /\ port[i].present
  BY <1>0, <1>1, <1>2 DEF UserPort
<1> HIDE DEF i
<1>5. ASSUME NEW ok \in BOOLEAN, OpenAttach(ok) PROVE AllAt'
  <2>1. ok = TRUE
    BY <1>5 DEF Failure
  <2>2. PICK a \in Attached(i, TRUE) : port' = [port EXCEPT ![i] = [a EXCEPT !.running = TRUE]]
    BY <1>4, <1>5, <2>1 DEF OpenAttach
  <2>3. rtnl.pc = "open" /\ rtnl'.pc = "napi" /\ rtnl'.i = i
    BY <1>1, <1>5, <2>1 DEF OpenAttach
  <2>4. /\ a \in PortStates /\ a.isUp = "magic" /\ a.rings /\ a.present
        /\ a.state = port[i].state /\ a.napi = port[i].napi
    <3>1. CASE port[i].isUp = "magic"
      BY <1>4, <2>2, <2>3, <3>1 DEF Attached, Kept
    <3>2. CASE port[i].isUp # "magic"
      <4>1. a = [port[i] EXCEPT !.rings = TRUE, !.isUp = "magic"]
        BY <2>2, <3>2 DEF Attached
      <4> QED BY <1>4, <4>1 DEF PortStates
    <3> QED BY <3>1, <3>2
  <2> DEFINE q == [a EXCEPT !.running = TRUE]
  <2>5. /\ q.present = a.present /\ q.running /\ q.state = a.state
        /\ q.isUp = a.isUp /\ q.napi = a.napi /\ q.rings = a.rings
    BY <2>4 DEF PortStates
  <2>6. port' = [port EXCEPT ![i] = q]
    BY <2>2
  <2> HIDE DEF q
  <2>7. q.present /\ q.running /\ q.state = "down" /\ q.isUp = "magic" /\ q.rings /\ ~q.napi
    BY <1>4, <2>3, <2>4, <2>5
  <2> QED BY <1>0, <1>1, <1>2, <2>3, <2>6, <2>7, UserOne
<1>6. ASSUME OpenNapi PROVE AllAt'
  <2> DEFINE q == [port[i] EXCEPT !.napi = TRUE]
  <2>1. /\ rtnl.pc = "napi" /\ rtnl'.pc = "opened" /\ rtnl'.i = i
        /\ port' = [port EXCEPT ![i] = q]
    BY <1>1, <1>4, <1>6 DEF OpenNapi, NapiEnable
  <2>2. /\ q.present = port[i].present /\ q.running = port[i].running /\ q.state = port[i].state
        /\ q.isUp = port[i].isUp /\ q.napi /\ q.rings = port[i].rings
    BY <1>4 DEF PortStates
  <2> HIDE DEF q
  <2>3. q.present /\ q.running /\ q.state = "down" /\ q.isUp = "magic" /\ q.rings /\ q.napi
    BY <1>4, <2>1, <2>2
  <2> QED BY <1>0, <1>1, <1>2, <2>1, <2>3, UserOne
<1>7. ASSUME NEW ok \in BOOLEAN, OpenEnd(ok) PROVE AllAt'
  <2>1. ok = TRUE
    BY <1>7 DEF Failure
  <2> DEFINE q == [port[i] EXCEPT !.timer = TRUE, !.state = "up"]
  <2>2. /\ rtnl.pc = "opened" /\ rtnl'.pc = "idle"
        /\ port' = [port EXCEPT ![i] = q]
    BY <1>1, <1>4, <1>7, <2>1 DEF OpenEnd
  <2>3. /\ q.present = port[i].present /\ q.running = port[i].running /\ q.state = "up"
        /\ q.isUp = port[i].isUp /\ q.napi = port[i].napi /\ q.rings = port[i].rings
        /\ q.timer
    BY <1>4 DEF PortStates
  <2> HIDE DEF q
  <2>4. Live(q, Linked(i))
    BY <1>4, <2>2, <2>3 DEF Live, Whole, Kept
  <2> QED BY <1>3, <2>2, <2>4
<1>8. ASSUME CloseNapi PROVE AllAt'
  <2> DEFINE q == [port[i] EXCEPT !.napi = FALSE]
  <2>1. rtnl.pc = "close" /\ rtnl'.pc = "flush" /\ rtnl'.i = i /\ NapiDisable(i)
    BY <1>1, <1>4, <1>8 DEF CloseNapi
  <2>2. port' = [port EXCEPT ![i] = q]
    BY <1>4, <2>1 DEF NapiDisable, Disables
  <2>3. /\ q.present = port[i].present /\ q.running = port[i].running /\ q.state = port[i].state
        /\ q.isUp = port[i].isUp /\ ~q.napi /\ q.rings = port[i].rings
    BY <1>4 DEF PortStates
  <2> HIDE DEF q
  <2>4. q.present /\ ~q.running /\ q.state = "up" /\ q.isUp = "magic" /\ q.rings /\ ~q.napi
    BY <1>4, <2>1, <2>3
  <2> QED BY <1>0, <1>1, <1>2, <2>1, <2>2, <2>4, UserOne
<1>9. ASSUME CloseFlush PROVE AllAt'
  <2> DEFINE q == port[i]
  <2>1. /\ rtnl.pc = "flush" /\ rtnl'.pc = "closed" /\ rtnl'.i = i
        /\ port' = [port EXCEPT ![i] = q]
    BY <1>0, <1>1, <1>9 DEF CloseFlush, PortsOK
  <2>2. q.present /\ ~q.running /\ q.state = "up" /\ q.isUp = "magic" /\ q.rings /\ ~q.napi
    BY <1>4, <2>1
  <2> HIDE DEF q
  <2> QED BY <1>0, <1>1, <1>2, <2>1, <2>2, UserOne
<1>10. ASSUME CloseEnd PROVE AllAt'
  <2> DEFINE q == [port[i] EXCEPT !.timer = FALSE, !.state = "down"]
  <2>1. /\ rtnl.pc = "closed" /\ rtnl'.pc = "idle"
        /\ port' = [port EXCEPT ![i] = q]
    BY <1>1, <1>4, <1>10 DEF CloseEnd
  <2>2. /\ q.present = port[i].present /\ q.running = port[i].running /\ q.state = "down"
        /\ q.isUp = port[i].isUp /\ q.napi = port[i].napi /\ q.rings = port[i].rings
    BY <1>4 DEF PortStates
  <2> HIDE DEF q
  <2>3. Live(q, Linked(i))
    BY <1>4, <2>1, <2>2 DEF Live, Whole, Kept
  <2> QED BY <1>3, <2>1, <2>3
<1> QED BY <1>5, <1>6, <1>7, <1>8, <1>9, <1>10 DEF RtnlGoesOn

-----------------------------------------------------------------------------
\* A calm step begins calm and nothing fails in it.
LEMMA CalmBefore ==
  ASSUME MCNext, calm'
  PROVE  calm /\ ~Disturbed' /\ ~Failure
BY DEF MCNext

\* Only a firmware that did not start takes the worker to "ready" with its ports detached.
LEMMA NotReady ==
  ASSUME IInv, Next, ~Failure, worker.pc # "ready"
  PROVE  worker'.pc # "ready"
<1>0. worker = [worker EXCEPT !.pc = worker.pc] /\ ThreadsOK
  BY DEF IInv, TypeOK, ThreadsOK
<1>1. \A l : WorkerAt(l) => worker'.pc = l
  BY <1>0 DEF WorkerAt, ThreadsOK
<1>2. ASSUME Watchdog PROVE worker'.pc # "ready"
  BY <1>0, <1>1, <1>2
  DEF Watchdog, FwBusy, FwNoRequest, FwAlive, FwMissed, FwRefused, FwTemp, FwTimeoutReset,
      FwHangReset, Rearms, Stops, StartDetach
<1>3. ASSUME Reset PROVE worker'.pc # "ready"
  <2>1. ASSUME NEW ok \in BOOLEAN, RestartFw(ok) PROVE worker'.pc # "ready"
    <3>1. ok = TRUE
      BY <2>1 DEF Failure
    <3> QED BY <1>0, <2>1, <3>1 DEF RestartFw, ThreadsOK
  <2>2. ASSUME DetachPort \/ DetachDown \/ AttachNapi PROVE worker'.pc # "ready"
    BY <1>1, <2>2 DEF DetachPort, DetachDown, AttachNapi
  <2>3. ASSUME DetachFree \/ AttachedPort PROVE worker'.pc # "ready"
    BY <1>0, <2>3 DEF DetachFree, AttachedPort, ThreadsOK
  <2>4. ASSUME DetachedDead \/ SetReady PROVE worker'.pc # "ready"
    BY <1>1, <2>4 DEF DetachedDead, SetReady, Rearms, Stops
  <2>5. ASSUME NEW ok \in BOOLEAN, AttachPort(ok) \/ AttachInit(ok) PROVE worker'.pc # "ready"
    BY <1>1, <2>5 DEF AttachPort, AttachInit
  <2> QED BY <1>3, <2>1, <2>2, <2>3, <2>4, <2>5 DEF Reset
<1>4. ASSUME \/ AerGoesOn \/ AerDetected \/ RtnlGoesOn \/ FwTimer \/ Hang
             \/ \E p \in Ports : \/ LinkTask(p) \/ TimeoutTask(p) \/ Open(p) \/ Close(p)
                                 \/ LinkTimer(p) \/ TxTimeout(p) \/ TxProgress(p)
      PROVE  worker' = worker
  BY <1>4
  DEF AerGoesOn, AerDetach, AerDown, AerFlush, AerTimer, AerFree, AerNapi, AerAttached, AerEnd,
      AerSlotReset, AerAttach, AerInit, AerDetected, RtnlGoesOn, OpenNapi, CloseNapi, CloseFlush,
      CloseEnd, OpenAttach, OpenEnd, FwTimer, Hang, LinkTask, TimeoutTask, Open, Close, LinkTimer,
      TxTimeout, TxProgress
<1> QED BY <1>2, <1>3, <1>4 DEF Next, Tasks

LEMMA CalmStep == IInv /\ IInv' /\ CalmInv /\ [MCNext]_mcVars => CalmInv'
<1> SUFFICES ASSUME IInv, IInv', CalmInv, [MCNext]_mcVars, calm' PROVE Alone' /\ AllAt'
  BY DEF CalmInv
<1>1. CASE UNCHANGED mcVars
  <2>1. UNCHANGED vars /\ calm
    BY <1>1 DEF mcVars
  <2>2. Alone /\ AllAt /\ Alone'
    BY <2>1 DEF CalmInv, Alone, Resetting, Recovering, vars
  <2> QED BY <2>1, <2>2, EventsCalm
<1>2. CASE MCNext
  <2>1. calm /\ ~Disturbed' /\ ~Failure
    BY <1>2, CalmBefore
  <2>2. Alone /\ AllAt
    BY <2>1 DEF CalmInv
  <2>3. \/ Tasks \/ AerGoesOn \/ AerDetected \/ RtnlGoesOn \/ FwTimer \/ Hang
        \/ \E p \in Ports : \/ Open(p) \/ Close(p)
                            \/ LinkTimer(p) \/ TxTimeout(p) \/ TxProgress(p)
    BY <1>2 DEF MCNext, Event, Internal
  <2>4. Next
    BY <2>3 DEF Next
  <2>5. Alone'
    <3>1. worker'.pc # "ready"
      BY <2>1, <2>2, <2>4, NotReady DEF Alone
    <3> QED BY <2>1, <3>1 DEF Disturbed, Alone
  <2>6. CASE Watchdog
    BY <2>2, <2>5, <2>6, WatchdogCalm DEF Watchdog
  <2>7. CASE Reset
    BY <2>1, <2>2, <2>5, <2>7, ResetCalm
  <2>8. CASE AerGoesOn
    BY <2>1, <2>2, <2>5, <2>8, AerCalm
  <2>9. CASE AerDetected
    BY <2>2, <2>5, <2>9, AerBegins
  <2>10. CASE RtnlGoesOn
    BY <2>1, <2>2, <2>5, <2>10, UserCalm
  <2>11. CASE \E p \in Ports : Open(p) \/ Close(p)
    BY <2>2, <2>5, <2>11, UserBegins
  <2>12. CASE \/ FwTimer \/ Hang
              \/ \E p \in Ports : LinkTimer(p) \/ TxTimeout(p) \/ TxProgress(p) \/ LinkTask(p)
                                  \/ TimeoutTask(p)
    BY <2>2, <2>5, <2>12, EventsCalm
  <2> QED BY <2>3, <2>5, <2>6, <2>7, <2>8, <2>9, <2>10, <2>11, <2>12 DEF Tasks
<1> QED BY <1>1, <1>2

LEMMA MCInvariance == MCSpec => [](IInv /\ CalmInv)
<1>1. MCInit => IInv /\ CalmInv
  BY InitInv, CalmInit DEF MCInit
<1>2. IInv /\ CalmInv /\ [MCNext]_mcVars => IInv' /\ CalmInv'
  <2> SUFFICES ASSUME IInv, CalmInv, [MCNext]_mcVars PROVE IInv' /\ CalmInv'
    OBVIOUS
  <2>1. [Next]_vars
    <3>1. CASE MCNext
      BY <3>1 DEF MCNext, Event, Internal, Next
    <3>2. CASE UNCHANGED mcVars
      BY <3>2 DEF mcVars
    <3> QED BY <3>1, <3>2
  <2>2. IInv'
    BY <2>1, TypeNext, PlacesNext, OwnedNext DEF IInv
  <2> QED BY <2>2, CalmStep
<1> QED BY <1>1, <1>2, PTL DEF MCSpec

\* As long as nothing fails, and nobody opens or closes a port during a recovery,
\* napi_enable finds NAPI disabled, where it would stop the machine, and napi_disable finds
\* it enabled, where it would wait for ever: in unm_nic_open and unm_nic_close, in the
\* watchdog's netxen_nic_detach_all_ports and netxen_nic_attach_all_ports, and in the PCI
\* error handlers' nx_nic_detach_func and nx_nic_attach_func.
THEOREM NapiBalances == MCSpec => []NapiBalancedInCalm
<1>1. IInv /\ CalmInv => NapiBalancedInCalm
  <2> SUFFICES ASSUME IInv, CalmInv, calm PROVE NapiBalanced
    BY DEF NapiBalancedInCalm
  <2>1. Alone /\ AllAt /\ Places /\ ThreadsOK
    BY DEF CalmInv, IInv, TypeOK
  <2>2. ASSUME rtnl.pc \in {"napi", "close"}
        PROVE  /\ rtnl.pc = "napi" => ~port[rtnl.i].napi
               /\ rtnl.pc = "close" => port[rtnl.i].napi
    <3>1. rtnl.i \in Ports /\ rtnl.pc # "idle"
      BY <2>1, <2>2 DEF ThreadsOK
    <3>2. UserPort(rtnl.i, port[rtnl.i], Linked(rtnl.i))
      BY <2>1, <3>1, AllByUser
    <3> QED BY <3>2 DEF UserPort
  <2>3. ASSUME worker.pc \in {"napi", "down"}
        PROVE  /\ worker.pc = "napi" => ~port[worker.i].napi
               /\ worker.pc = "down" => port[worker.i].napi
    <3>1. worker.i \in Ports /\ Resetting
      BY <2>1, <2>3 DEF Places, Resetting
    <3>2. WorkerPort(worker.i, port[worker.i], Linked(worker.i))
      BY <2>1, <3>1, AllByWorker
    <3> QED BY <3>2 DEF WorkerPort, Rising, Falling
  <2>4. ASSUME aer.pc \in {"napi", "down"}
        PROVE  /\ aer.pc = "napi" => ~port[aer.i].napi
               /\ aer.pc = "down" => port[aer.i].napi
    <3>1. aer.i \in Ports /\ Recovering
      BY <2>1, <2>4 DEF Places, Recovering
    <3>2. AerPort(aer.i, port[aer.i], Linked(aer.i))
      BY <2>1, <3>1, AllByAer
    <3> QED BY <3>2 DEF AerPort, Rising, Risen
  <2> QED BY <2>2, <2>3, <2>4 DEF NapiBalanced
<1> QED BY MCInvariance, <1>1, PTL

\* Under the same conditions the ports are, whenever nobody works on them, as their users
\* left them: present, up when they are open, with rings, NAPI and the link watchdog, and
\* NAPI disabled when they are not, however many resets and PCI errors there were.
THEOREM PortsComeBack == MCSpec => []PortsRestored
<1>1. CalmInv => PortsRestored
  <2> SUFFICES ASSUME CalmInv, calm, ~Resetting, ~Recovering, rtnl.pc = "idle", NEW p \in Ports
               PROVE  PortWhole(p)
    BY DEF PortsRestored
  <2>1. Live(port[p], Linked(p))
    BY AllLive DEF CalmInv
  <2> QED BY <2>1 DEF PortWhole, Live, Whole, Kept, Linked
<1> QED BY MCInvariance, <1>1, PTL

-----------------------------------------------------------------------------
(* Bringing the firmware up.                                               *)

\* Where a reader is; "reset" is the loader's, that resets the chip.
Steps == {"idle", "lock", "addr", "opcode", "wait", "unlock", "unlockfail", "read",
          "failed", "reset"}
HoldSteps == {"addr", "opcode", "wait", "unlock", "unlockfail"}

RomTypeOK ==
  /\ sem2 \in Readers \cup {NoReader}
  /\ romAddr \in FlashWords
  /\ fetching \in FlashWords \cup {"none"}
  /\ romData \in FlashWords \cup {AllOnes}
  /\ settling \in BOOLEAN
  /\ reading \in [Readers -> [at : Steps, addr : FlashWords, loops : Nat,
                              word : FlashWords \cup {AllOnes}]]
  /\ disturbed \in [Readers -> BOOLEAN]
  /\ toLoad \subseteq ImageWords

Reads(t) == reading[t].at \notin {"idle", "reset"}
AllDisturbed == \A t \in Readers : Reads(t) => disturbed[t]

\* The chip is not read while it settles, or between its reset and the unlock, but
\* by those who are disturbed; and nobody is disturbed who does not read.
ResetDisturbs ==
  /\ settling => AllDisturbed
  /\ lpc \in {"unlock", "hmezUnlock"} =>
       /\ AllDisturbed
       /\ reading[Loader].at = "reset" /\ disturbed[Loader]

\* The semaphore keeps readers apart, or all are disturbed.
Held == \A t \in Readers : reading[t].at \in HoldSteps => sem2 = t \/ AllDisturbed

\* What an undisturbed read has left in the registers of the flash.
Progress ==
  \A t \in Readers : ~disturbed[t] =>
    /\ reading[t].at = "opcode" => romAddr = reading[t].addr
    /\ reading[t].at = "wait" =>
         \/ fetching = reading[t].addr
         \/ fetching = "none" /\ romData = reading[t].addr
    /\ reading[t].at \in {"unlock", "read"} => reading[t].word = reading[t].addr
    /\ reading[t].at # "unlockfail"

FlashInv == RomTypeOK /\ ResetDisturbs /\ Held /\ Progress

LEMMA NoReadTyped ==
  /\ AnyFlashWord \in FlashWords
  /\ NoRead \in [at : Steps, addr : FlashWords, loops : Nat,
                 word : FlashWords \cup {AllOnes}]
  /\ NoRead.at = "idle"
<1>1. \E a \in FlashWords : TRUE
  BY FlashAssumption
<1>2. AnyFlashWord \in FlashWords
  BY <1>1 DEF AnyFlashWord
<1> QED BY <1>2 DEF NoRead, Steps

LEMMA InitIInv == LoadInit => FlashInv
<1> SUFFICES ASSUME LoadInit PROVE FlashInv
  OBVIOUS
<1>1. RomTypeOK
  BY NoReadTyped DEF LoadInit, RomInit, RomTypeOK
<1>2. \A t \in Readers : reading[t].at = "idle"
  BY NoReadTyped DEF LoadInit, RomInit
<1> QED
  BY <1>1, <1>2 DEF LoadInit, RomInit, FlashInv, ResetDisturbs, Held, HoldSteps, Progress

\* The steps of the bring-up that leave the flash alone.
LEMMA LoadKeepsIInv ==
  ASSUME FlashInv, UNCHANGED romVars, toLoad' \subseteq toLoad,
         lpc' = lpc \/ lpc' \notin {"unlock", "hmezUnlock"}
  PROVE  FlashInv'
BY DEF FlashInv, romVars, RomTypeOK, ResetDisturbs, AllDisturbed, Reads, Held, Progress

\* A read begins: undisturbed only if nobody is disturbed.
LEMMA FastReadKeepsIInv ==
  ASSUME FlashInv, NEW t \in Readers, NEW a \in FlashWords, RomFastRead(t, a),
         UNCHANGED <<lpc, toLoad>>
  PROVE  FlashInv'
<1> USE DEF FlashInv
<1>1. /\ reading[t].at = "idle"
      /\ reading' = [reading EXCEPT ![t] = [NoRead EXCEPT !.at = "lock", !.addr = a]]
      /\ disturbed' = [disturbed EXCEPT ![t] = \/ settling \/ fetching # "none"
                                       \/ \E u \in Readers : disturbed[u]]
      /\ UNCHANGED <<sem2, romAddr, fetching, romData, settling>>
  BY DEF RomFastRead, ReadAt, chip
<1>2. RomTypeOK'
  <2>1. [NoRead EXCEPT !.at = "lock", !.addr = a]
          \in [at : Steps, addr : FlashWords, loops : Nat,
               word : FlashWords \cup {AllOnes}]
    BY NoReadTyped DEF Steps
  <2> QED BY <1>1, <2>1 DEF RomTypeOK
<1>3. reading'[t].at = "lock" /\ \A u \in Readers \ {t} : reading'[u] = reading[u]
  BY <1>1, NoReadTyped DEF RomTypeOK
<1>4. \A u \in Readers \ {t} : disturbed'[u] = disturbed[u]
  BY <1>1 DEF RomTypeOK
<1>5. settling \/ (\E u \in Readers : disturbed[u]) => disturbed'[t]
  BY <1>1 DEF RomTypeOK
<1>6. AllDisturbed /\ (settling \/ \E u \in Readers : disturbed[u]) => AllDisturbed'
  BY <1>3, <1>4, <1>5 DEF AllDisturbed, Reads
<1>7. ResetDisturbs'
  BY <1>1, <1>3, <1>4, <1>6, LoadAssumption DEF ResetDisturbs
<1>8. Held'
  <2> SUFFICES ASSUME NEW u \in Readers, reading'[u].at \in HoldSteps, sem2' # u
               PROVE  AllDisturbed'
    BY DEF Held
  <2>1. u # t /\ reading[u].at \in HoldSteps /\ sem2 # u
    BY <1>1, <1>3 DEF HoldSteps
  <2>2. AllDisturbed /\ disturbed[u]
    BY <2>1 DEF Held, AllDisturbed, Reads, HoldSteps
  <2> QED BY <2>2, <1>6
<1>9. Progress'
  BY <1>1, <1>3, <1>4 DEF Progress
<1> QED BY <1>2, <1>7, <1>8, <1>9

\* A reader other than one that holds the semaphore touches the registers, or the
\* reader that does: nobody else is undisturbed between lock and unlock.
LEMMA AloneReads ==
  ASSUME FlashInv, NEW t \in Readers, reading[t].at \in HoldSteps,
         NEW u \in Readers, u # t, reading[u].at \in HoldSteps
  PROVE  disturbed[u] /\ AllDisturbed
BY DEF FlashInv, Held, AllDisturbed, Reads, HoldSteps

\* One reader goes on: whoever then is past its lock without the semaphore was so
\* before.
LEMMA ReaderMoves ==
  ASSUME FlashInv, NEW t \in Readers, RomTypeOK', Reads(t), Reads(t)',
         \A u \in Readers \ {t} : reading'[u] = reading[u],
         \A u \in Readers : reading'[u].at \in HoldSteps /\ sem2' # u
           => AllDisturbed \/ (reading[u].at \in HoldSteps /\ sem2 # u),
         UNCHANGED <<disturbed, settling, lpc>>
  PROVE  ResetDisturbs' /\ Held'
<1> USE DEF FlashInv
<1>1. AllDisturbed <=> AllDisturbed'
  BY DEF AllDisturbed, Reads
<1>2. ResetDisturbs'
  BY <1>1, LoadAssumption DEF ResetDisturbs, Reads
<1>3. Held'
  BY <1>1 DEF Held
<1> QED BY <1>2, <1>3

LEMMA LockKeepsIInv ==
  ASSUME FlashInv, NEW t \in Readers, RomLock(t) \/ RomLockBusy(t), UNCHANGED <<lpc, toLoad>>
  PROVE  FlashInv'
<1> USE DEF FlashInv
<1>1. /\ reading[t].at = "lock"
      /\ UNCHANGED <<romAddr, fetching, romData, settling, disturbed>>
  BY DEF RomLock, RomLockBusy, ReadAt, chip, notes
<1>2. \/ /\ sem2 = NoReader \/ settling
         /\ sem2' = IF settling THEN sem2 ELSE t
         /\ \E l \in {"failed", "addr"} : reading' = [reading EXCEPT ![t].at = l]
      \/ /\ UNCHANGED sem2
         /\ \/ reading' = [reading EXCEPT ![t].loops = @ + 1]
            \/ reading' = [reading EXCEPT ![t].at = "failed"]
  BY DEF RomLock, RomLockBusy, LockGranted, TakesSem2, GoRead
<1>3. RomTypeOK'
  BY <1>1, <1>2 DEF RomTypeOK, Steps
<1>4. /\ reading'[t].at \in {"lock", "failed", "addr"}
      /\ \A u \in Readers \ {t} : reading'[u] = reading[u]
  BY <1>1, <1>2 DEF RomTypeOK
<1>5. reading'[t].at = "addr" => sem2' = t \/ AllDisturbed
  BY <1>1, <1>2 DEF RomTypeOK, ResetDisturbs
<1>6. \A u \in Readers : reading'[u].at \in HoldSteps /\ sem2' # u
        => AllDisturbed \/ (reading[u].at \in HoldSteps /\ sem2 # u)
  BY <1>2, <1>4, <1>5, FlashAssumption DEF HoldSteps
<1>7. ResetDisturbs' /\ Held'
  BY <1>1, <1>3, <1>4, <1>6, ReaderMoves DEF Reads
<1>8. Progress'
  BY <1>1, <1>4 DEF Progress
<1> QED BY <1>3, <1>7, <1>8

\* Between lock and unlock: the address, the opcode, the result.
LEMMA FetchStepsKeepIInv ==
  ASSUME FlashInv, NEW t \in Readers, SetRomAddr(t) \/ SetRomOpcode(t) \/ WaitRomDone(t),
         UNCHANGED <<lpc, toLoad>>
  PROVE  FlashInv'
<1> USE DEF FlashInv
<1>1. /\ reading[t].at \in {"addr", "opcode", "wait"}
      /\ UNCHANGED <<sem2, romData, settling, disturbed>>
  BY DEF SetRomAddr, SetRomOpcode, WaitRomDone, ReadAt, chip, notes
<1>2. RomTypeOK'
  BY DEF SetRomAddr, SetRomOpcode, WaitRomDone, GoRead, chip, notes, RomTypeOK, Steps
<1>3. /\ reading'[t].at \in {"opcode", "wait", "unlock"}
      /\ \A u \in Readers \ {t} : reading'[u] = reading[u]
  BY DEF SetRomAddr, SetRomOpcode, WaitRomDone, GoRead, RomTypeOK
<1>4. \A u \in Readers : reading'[u].at \in HoldSteps /\ sem2' # u
        => AllDisturbed \/ (reading[u].at \in HoldSteps /\ sem2 # u)
  BY <1>1, <1>3 DEF HoldSteps
<1>5. ResetDisturbs' /\ Held'
  BY <1>1, <1>2, <1>3, <1>4, ReaderMoves DEF Reads
<1>6. \A u \in Readers \ {t} : reading[u].at \in HoldSteps => disturbed[u]
  BY <1>1, AloneReads DEF HoldSteps
<1>7. disturbed[t] \/ /\ reading'[t].at = "opcode" => romAddr' = reading'[t].addr
                      /\ reading'[t].at = "wait" => fetching' = reading'[t].addr
                      /\ reading'[t].at = "unlock" =>
                           reading'[t].word = reading'[t].addr
  <2>1. CASE SetRomAddr(t)
    BY <2>1 DEF SetRomAddr, GoRead, RomTypeOK
  <2>2. CASE SetRomOpcode(t)
    BY <2>2 DEF SetRomOpcode, GoRead, ReadAt, RomTypeOK, Progress
  <2>3. CASE WaitRomDone(t)
    <3>1. settling => disturbed[t]
      BY <1>1 DEF ResetDisturbs, AllDisturbed, Reads
    <3>2. fetching # reading[t].addr \/ fetching # "none"
      BY FlashAssumption DEF RomTypeOK
    <3> QED
      BY <2>3, <3>1, <3>2 DEF WaitRomDone, RomDone, ReadAt, RomTypeOK, Progress
  <2> QED BY <2>1, <2>2, <2>3
<1>8. Progress'
  BY <1>1, <1>3, <1>6, <1>7 DEF Progress, HoldSteps
<1> QED BY <1>2, <1>5, <1>8

\* A wait that is given up disturbs every read under way.
LEMMA TimeoutKeepsIInv ==
  ASSUME FlashInv, NEW t \in Readers, WaitRomTimeout(t), UNCHANGED <<lpc, toLoad>>
  PROVE  FlashInv'
<1> USE DEF FlashInv
<1>1. RomTypeOK'
  BY DEF WaitRomTimeout, GoRead, Disturb, chip, RomTypeOK, Steps
<1>2. /\ reading[t].at = "wait" /\ reading'[t].at = "unlockfail"
      /\ \A u \in Readers \ {t} : reading'[u] = reading[u]
  BY DEF WaitRomTimeout, ReadAt, GoRead, RomTypeOK
<1>3. \A u \in Readers : disturbed'[u] <=> reading[u].at # "idle"
  BY DEF WaitRomTimeout, Disturb, ReadAt
<1>4. AllDisturbed'
  BY <1>2, <1>3 DEF AllDisturbed, Reads
<1>5. UNCHANGED lpc /\ UNCHANGED settling
  BY DEF WaitRomTimeout, chip
<1> QED
  BY <1>1, <1>2, <1>3, <1>4, <1>5, LoadAssumption DEF ResetDisturbs, Held, Progress

LEMMA UnlockKeepsIInv ==
  ASSUME FlashInv, NEW t \in Readers, RomUnlock(t), UNCHANGED <<lpc, toLoad>>
  PROVE  FlashInv'
<1> USE DEF FlashInv
<1>1. /\ reading[t].at \in {"unlock", "unlockfail"}
      /\ UNCHANGED <<romAddr, fetching, romData, settling, disturbed>>
      /\ sem2' \in {sem2, NoReader}
  BY DEF RomUnlock, chip, notes
<1>2. RomTypeOK'
  BY DEF RomUnlock, GoRead, ReadAt, chip, notes, RomTypeOK, Steps
<1>3. /\ reading'[t].at = IF reading[t].at = "unlock" THEN "read" ELSE "failed"
      /\ reading'[t].word = reading[t].word /\ reading'[t].addr = reading[t].addr
      /\ \A u \in Readers \ {t} : reading'[u] = reading[u]
  BY DEF RomUnlock, GoRead, ReadAt, RomTypeOK
<1>4. \A u \in Readers \ {t} : reading[u].at \in HoldSteps => AllDisturbed
  BY <1>1, AloneReads DEF HoldSteps
<1>5. \A u \in Readers : reading'[u].at \in HoldSteps /\ sem2' # u
        => AllDisturbed \/ (reading[u].at \in HoldSteps /\ sem2 # u)
  BY <1>3, <1>4 DEF HoldSteps
<1>6. ResetDisturbs' /\ Held'
  BY <1>1, <1>2, <1>3, <1>5, ReaderMoves DEF Reads
<1>7. Progress'
  BY <1>1, <1>3 DEF Progress
<1> QED BY <1>2, <1>6, <1>7

\* A read ends, and its reader is disturbed no more.
LEMMA ReturnKeepsIInv ==
  ASSUME FlashInv, NEW t \in Readers, RomReturn(t), toLoad' \subseteq toLoad,
         lpc' = lpc \/ lpc' \notin {"unlock", "hmezUnlock"}
  PROVE  FlashInv'
<1> USE DEF FlashInv
<1>1. /\ reading[t].at \in {"read", "failed"}
      /\ reading' = [reading EXCEPT ![t] = NoRead]
      /\ disturbed' = [disturbed EXCEPT ![t] = FALSE]
      /\ UNCHANGED <<sem2, romAddr, fetching, romData, settling>>
  BY DEF RomReturn, chip
<1>2. RomTypeOK'
  BY <1>1, NoReadTyped DEF RomTypeOK
<1>3. /\ reading'[t].at = "idle"
      /\ \A u \in Readers \ {t} : reading'[u] = reading[u] /\ disturbed'[u] = disturbed[u]
  BY <1>1, NoReadTyped DEF RomTypeOK
<1>4. AllDisturbed => AllDisturbed'
  BY <1>3 DEF AllDisturbed, Reads
<1>5. ResetDisturbs'
  BY <1>1, <1>3, <1>4, LoadAssumption DEF ResetDisturbs
<1>6. Held'
  BY <1>1, <1>3, <1>4 DEF Held, HoldSteps
<1>7. Progress'
  BY <1>1, <1>3 DEF Progress
<1> QED BY <1>2, <1>5, <1>6, <1>7

LEMMA FetchKeepsIInv ==
  ASSUME FlashInv, Fetch, UNCHANGED <<lpc, toLoad>>
  PROVE  FlashInv'
<1> USE DEF FlashInv
<1>1. /\ fetching # "none" /\ romData' = fetching /\ fetching' = "none"
      /\ UNCHANGED <<sem2, romAddr, settling, reading, disturbed>>
  BY DEF Fetch, notes
<1>2. RomTypeOK'
  BY <1>1 DEF RomTypeOK
<1> QED
  BY <1>1, <1>2 DEF ResetDisturbs, AllDisturbed, Reads, Held, Progress
-----------------------------------------------------------------------------
\* The reset of the chip takes the semaphore, or a wait for it was given up.
LEMMA LockForResetKeepsIInv ==
  ASSUME FlashInv, LockForReset
  PROVE  FlashInv'
<1> USE DEF FlashInv
<1> USE LoadAssumption
<1>1. /\ reading[Loader].at = "idle" /\ lpc \in {"hmez", "lock"}
      /\ UNCHANGED <<romAddr, fetching, romData, settling, lpc, toLoad>>
  BY DEF LockForReset, ReadAt, chip, loadVars, image
<1>2. /\ reading'[Loader].at = "reset"
      /\ \A u \in Readers \ {Loader} : reading'[u] = reading[u]
  BY DEF LockForReset, GoRead, RomTypeOK
<1>3. \/ /\ sem2 = NoReader \/ settling
         /\ sem2' = IF settling THEN sem2 ELSE Loader
         /\ UNCHANGED disturbed
      \/ /\ disturbed' = [u \in Readers |-> reading[u].at # "idle"]
         /\ UNCHANGED sem2
  BY DEF LockForReset, LockGranted, TakesSem2, Disturb, ReadAt
<1>4. RomTypeOK'
  BY ZenonT(60), <1>1, <1>3 DEF LockForReset, GoRead, RomTypeOK, Steps
<1>5. AllDisturbed => AllDisturbed'
  BY <1>2, <1>3 DEF AllDisturbed, Reads
<1>6. UNCHANGED disturbed \/ AllDisturbed'
  BY <1>2, <1>3 DEF AllDisturbed, Reads
<1>7. ResetDisturbs'
  BY <1>1, <1>5 DEF ResetDisturbs
<1>8. Held'
  BY <1>1, <1>2, <1>3, <1>5, <1>6, FlashAssumption DEF Held, HoldSteps
<1>9. Progress'
  BY <1>1, <1>2, <1>3 DEF Progress
<1> QED BY <1>4, <1>7, <1>8, <1>9

LEMMA ResetChipKeepsIInv ==
  ASSUME FlashInv, ResetChip
  PROVE  FlashInv'
<1> USE DEF FlashInv
<1>1. /\ reading[Loader].at = "reset" /\ fetching' = "none" /\ toLoad' \subseteq ImageWords
      /\ disturbed' = [t \in Readers |-> reading[t].at # "idle"]
      /\ UNCHANGED <<sem2, romAddr, romData, settling, reading>>
  BY LoadAssumption DEF ResetChip, ReadAt, Disturb
<1>2. RomTypeOK'
  BY <1>1 DEF RomTypeOK
<1>3. AllDisturbed' /\ disturbed'[Loader]
  BY <1>1, LoadAssumption DEF AllDisturbed, Reads
<1> QED
  BY <1>1, <1>2, <1>3 DEF ResetDisturbs, Held, Progress

\* Whoever held the semaphore has lost it: but all are disturbed.
LEMMA UnlockAfterResetKeepsIInv ==
  ASSUME FlashInv, UnlockAfterReset
  PROVE  FlashInv'
<1> USE DEF FlashInv
<1> USE LoadAssumption
<1>1. /\ AllDisturbed /\ sem2' = NoReader
      /\ lpc' \notin {"unlock", "hmezUnlock"}
      /\ disturbed' = [disturbed EXCEPT ![Loader] = FALSE]
      /\ UNCHANGED <<romAddr, fetching, romData, settling, toLoad>>
  BY DEF UnlockAfterReset, Go, At, chip, image, ResetDisturbs
<1>2. /\ reading'[Loader].at = "idle"
      /\ \A u \in Readers \ {Loader} : reading'[u] = reading[u]
  BY DEF UnlockAfterReset, GoRead, RomTypeOK
<1>3. RomTypeOK'
  BY <1>1 DEF UnlockAfterReset, GoRead, RomTypeOK, Steps
<1>4. AllDisturbed'
  BY <1>1, <1>2 DEF AllDisturbed, Reads, RomTypeOK
<1>5. Progress'
  BY <1>1, <1>2 DEF Progress, RomTypeOK
<1> QED
  BY <1>1, <1>3, <1>4, <1>5 DEF ResetDisturbs, Held

\* The initialisation data may reset the chip, which then settles.
LEMMA QuietKeepsIInv ==
  ASSUME FlashInv, WriteInitData \/ Settled
  PROVE  FlashInv'
<1> USE DEF FlashInv
<1>1. /\ lpc' \notin {"unlock", "hmezUnlock"}
      /\ UNCHANGED <<sem2, romAddr, romData, reading, toLoad>>
  BY DEF WriteInitData, Settled, Go, image
<1>2. \/ UNCHANGED <<settling, disturbed, fetching>>
      \/ /\ settling' \in BOOLEAN /\ fetching' \in {fetching, "none"}
         /\ disturbed' = [t \in Readers |-> reading[t].at # "idle"]
  BY DEF WriteInitData, Settled, Disturb, ReadAt
<1>3. RomTypeOK'
  BY <1>1, <1>2 DEF RomTypeOK
<1>4. CASE UNCHANGED <<settling, disturbed, fetching>>
  BY <1>1, <1>3, <1>4 DEF ResetDisturbs, AllDisturbed, Reads, Held, Progress
<1>5. CASE disturbed' = [t \in Readers |-> reading[t].at # "idle"]
  <2>1. AllDisturbed'
    BY <1>1, <1>5 DEF AllDisturbed, Reads
  <2> QED
    BY <1>1, <1>3, <1>5, <2>1 DEF ResetDisturbs, Held, Progress
<1> QED BY <1>2, <1>4, <1>5
-----------------------------------------------------------------------------
LEMMA NextIInv ==
  ASSUME FlashInv, [LoadNext]_loaderVars
  PROVE  FlashInv'
<1>1. CASE UNCHANGED loaderVars
  BY <1>1, LoadKeepsIInv DEF loaderVars, loadVars, image
<1>2. CASE \/ StartFirmware \/ ChooseFirmware \/ ReleasePegs \/ Boot
           \/ ReceivePegStarts \/ PhantomInit \/ ReceivePegReady \/ InitFirmware
  <2>1. UNCHANGED <<romVars, toLoad>>
    BY <1>2 DEF StartFirmware, ChooseFirmware, ReleasePegs, Boot, ReceivePegStarts,
                PhantomInit, ReceivePegReady, InitFirmware, image
  <2>2. lpc' = lpc \/ lpc' \notin {"unlock", "hmezUnlock"}
    BY <1>2 DEF StartFirmware, ChooseFirmware, ReleasePegs, Boot, ReceivePegStarts,
                PhantomInit, ReceivePegReady, InitFirmware, Go
  <2> QED BY <2>1, <2>2, LoadKeepsIInv
<1>3. CASE StoreFlashWord \/ StoreFileWord
  <2>1. UNCHANGED romVars /\ (lpc' = lpc \/ lpc' \notin {"unlock", "hmezUnlock"})
    BY <1>3 DEF StoreFlashWord, StoreFileWord, Go
  <2>2. toLoad' \subseteq toLoad
    BY <1>3 DEF StoreFlashWord, StoreFileWord, Stored
  <2> QED BY <2>1, <2>2, LoadKeepsIInv
<1>4. CASE LoaderReads
  <2>1. WordToRead \in FlashWords
    BY <1>4, LoadAssumption DEF LoaderReads, WordToRead, At, FlashInv, RomTypeOK
  <2>2. RomFastRead(Loader, WordToRead) /\ UNCHANGED <<lpc, toLoad>>
    BY <1>4 DEF LoaderReads, loadVars, image
  <2> QED BY <2>1, <2>2, FastReadKeepsIInv, LoadAssumption
<1>5. CASE LoaderTakes
  <2>1. RomReturn(Loader) /\ UNCHANGED toLoad
    BY <1>5 DEF LoaderTakes
  <2>2. lpc' \notin {"unlock", "hmezUnlock"}
    BY <1>5 DEF LoaderTakes, Go
  <2> QED BY <2>1, <2>2, ReturnKeepsIInv, LoadAssumption
<1>6. CASE LockForReset
  BY <1>6, LockForResetKeepsIInv
<1>7. CASE ResetChip
  BY <1>7, ResetChipKeepsIInv
<1>8. CASE UnlockAfterReset
  BY <1>8, UnlockAfterResetKeepsIInv
<1>9. CASE WriteInitData \/ Settled
  BY <1>9, QuietKeepsIInv
<1>10. CASE Fetch /\ UNCHANGED loadVars
  BY <1>10, FetchKeepsIInv DEF loadVars, image
<1>11. ASSUME NEW t \in Readers, RomStep(t), UNCHANGED loadVars
       PROVE  FlashInv'
  <2>1. UNCHANGED <<lpc, toLoad>>
    BY <1>11 DEF loadVars, image
  <2> QED
    BY <1>11, <2>1, LockKeepsIInv, FetchStepsKeepIInv, TimeoutKeepsIInv, UnlockKeepsIInv
    DEF RomStep
<1>12. ASSUME NEW t \in Readers, OtherTakes(t)
       PROVE  FlashInv'
  BY <1>12, ReturnKeepsIInv DEF OtherTakes, loadVars, image
<1>13. ASSUME NEW t \in Readers, NEW a \in FlashWords, OtherReads(t, a)
       PROVE  FlashInv'
  BY <1>13, FastReadKeepsIInv DEF OtherReads, loadVars, image
<1> QED
  BY <1>1, <1>2, <1>3, <1>4, <1>5, <1>6, <1>7, <1>8, <1>9, <1>10, <1>11, <1>12, <1>13
  DEF LoadNext

\* A read of the flash that returns 0 returns the word of its address
\* (rom_fast_read and do_rom_fast_read of driver/unm_nic_init.c), however many
\* functions read and however the firmware is brought up meanwhile; unless during
\* it a wait was given up or the chip was reset.
THEOREM FlashReadsRight == LoadSpec => []FlashReadRight
<1>1. FlashInv => FlashReadRight
  BY DEF FlashInv, Progress, FlashReadRight
<1> QED BY <1>1, InitIInv, NextIInv, PTL DEF LoadSpec
-----------------------------------------------------------------------------
(***************************************************************************)
(* Why the right firmware runs.  From the reset of the chip to the release *)
(* of the pegs, what is not left to copy is in the memory as the choice    *)
(* demands; the choice is made once, before the reset; and the receive     *)
(* peg, whose state is cleared before the pegs are reset, is ready with an *)
(* earlier start only if the history says so.                              *)
(***************************************************************************)
LoadSteps == {"hmezUnlock", "unlock", "crbinit", "write", "quiet", "load", "store"}
AfterSteps == {"dummy", "rcvpeg", "up"}
BeforeSteps == {"hmez", "choose", "board", "lock"}
Lpcs == LoadSteps \cup AfterSteps \cup BeforeSteps \cup {"off", "failed"}

LoadTypes ==
  /\ lpc \in Lpcs /\ use \in {"file", "flash"}
  /\ flashVer \in Nat /\ mismatch \in BOOLEAN
  /\ file = NoFile \/ file \in [ver : Versions, bios : BOOLEAN]
  /\ DOMAIN mem = ImageWords /\ toLoad \subseteq ImageWords
  /\ pegs \in Nat /\ booted \in Nat /\ starts \in Nat
  /\ magic \in BOOLEAN /\ late \in BOOLEAN /\ tainted \in BOOLEAN

\* The loader reads board, initialisation data or the word that is next.
ReadsNext ==
  /\ Reads(Loader) =>
       \/ lpc \in {"board", "crbinit"}
       \/ lpc = "load" /\ use = "flash" /\ toLoad # {} /\ reading[Loader].addr = WordToRead
  /\ lpc = "store" => use = "flash" /\ toLoad # {}

\* The word to be stored, and those that were: only those of the boot loader if they
\* are the flash's.
Wanted(w) == IF use = "file" THEN "file" ELSE w
ToCopy == IF use = "file" THEN ImageWords ELSE BootWords
Copied ==
  ~tainted =>
    /\ lpc \in LoadSteps => \A w \in ToCopy \ toLoad : mem[w] = Wanted(w)
    /\ lpc = "store" => mem[CHOOSE w \in toLoad : TRUE] = CHOOSE w \in toLoad : TRUE
    /\ pegs > 0 /\ lpc \notin {"board", "lock"} =>
         \A w \in ImageWords : WillRun(w) = Wanted(w)

\* No magic is left in the card when its memory is filled.
MagicTaken == lpc \in LoadSteps \ {"hmezUnlock"} => ~magic

\* A file that is kept was accepted; and a choice was made.
FileAccepted ==
  file # NoFile =>
    /\ Supported(file.ver) /\ file.bios
    /\ ClockFix(file.ver) => ClockFix(flashVer)
    /\ fwLoad = "compare" /\ Supported(flashVer) => ~Older(file)
Chosen ==
  /\ use = "file" => file # NoFile
  /\ lpc \in {"board", "lock"} \cup (LoadSteps \ {"hmezUnlock"}) \/ pegs > 0 =>
       (use = "flash" /\ ~Supported(flashVer) => mismatch)

\* Which start the pegs are of.
PegsOfStart ==
  /\ booted = 0 \/ booted = pegs
  /\ pegs <= starts /\ (lpc # "off" => starts > 0)
  /\ lpc \in LoadSteps => pegs = 0
  /\ lpc \in BeforeSteps => pegs < starts
  /\ lpc \in AfterSteps => pegs = 0 \/ pegs = starts

\* What the state of the receive peg says of the start.
PegState ==
  /\ lpc \in {"choose", "board", "lock"} \cup (LoadSteps \ {"hmezUnlock"}) =>
       (rcvpeg = "ready" => late)
  /\ lpc \in AfterSteps /\ rcvpeg = "ready" /\ ~late => booted = starts
  /\ lpc = "up" => rcvpeg = "ready"

LoadInv ==
  /\ LoadTypes /\ ReadsNext /\ Copied /\ MagicTaken /\ FileAccepted /\ Chosen
  /\ PegsOfStart /\ PegState

LEMMA InitLoadInv == LoadInit => LoadInv
<1> SUFFICES ASSUME LoadInit PROVE LoadInv
  OBVIOUS
<1>1. LoadTypes
  <2>1. magic \in BOOLEAN /\ mismatch \in BOOLEAN /\ late \in BOOLEAN /\ tainted \in BOOLEAN
    BY DEF LoadInit
  <2>2. lpc \in Lpcs /\ use = "flash" /\ file = NoFile /\ flashVer \in Nat
    BY DEF LoadInit, Lpcs
  <2>3. DOMAIN mem = ImageWords /\ toLoad = {} /\ pegs = 0 /\ booted = 0 /\ starts = 0
    BY DEF LoadInit
  <2> QED BY <2>1, <2>2, <2>3 DEF LoadTypes
<1>2. ReadsNext
  BY NoReadTyped, LoadAssumption DEF LoadInit, RomInit, ReadsNext, Reads
<1> QED
  BY <1>1, <1>2
  DEF LoadInit, LoadInv, Copied, MagicTaken, FileAccepted, Chosen, PegsOfStart, PegState, LoadSteps,
      AfterSteps, BeforeSteps

\* The steps of the reads leave everything else alone.
LEMMA ReadsKeepLoadInv ==
  ASSUME LoadInv, UNCHANGED loadVars, ReadsNext'
  PROVE  LoadInv'
BY DEF LoadInv, LoadTypes, Copied, ToCopy, WillRun, MagicTaken, Wanted, FileAccepted, Older,
       Chosen, PegsOfStart, PegState, loadVars, config, image, card, bounds

LEMMA RomStepKeepsLoadInv ==
  ASSUME FlashInv, LoadInv, NEW t \in Readers, RomStep(t), UNCHANGED loadVars
  PROVE  LoadInv'
<1>1. /\ t # Loader => reading'[Loader] = reading[Loader]
      /\ t = Loader => Reads(t) /\ reading'[t].addr = reading[t].addr
  BY LoadAssumption
  DEF FlashInv, RomTypeOK, RomStep, RomLock, RomLockBusy, SetRomAddr, SetRomOpcode, WaitRomDone,
      WaitRomTimeout, RomUnlock, GoRead, ReadAt, Reads
<1>2. WordToRead' = WordToRead
  BY DEF WordToRead, At, loadVars, image
<1>3. ReadsNext'
  BY <1>1, <1>2 DEF LoadInv, ReadsNext, Reads, loadVars, image
<1> QED BY <1>3, ReadsKeepLoadInv

LEMMA OthersKeepLoadInv ==
  ASSUME FlashInv, LoadInv, UNCHANGED loadVars, reading'[Loader] = reading[Loader]
  PROVE  LoadInv'
<1>1. WordToRead' = WordToRead
  BY DEF WordToRead, At, loadVars, image
<1>2. ReadsNext'
  BY <1>1 DEF LoadInv, ReadsNext, Reads, loadVars, image
<1> QED BY <1>2, ReadsKeepLoadInv

LEMMA LoaderReadsKeepsLoadInv ==
  ASSUME FlashInv, LoadInv, LoaderReads
  PROVE  LoadInv'
<1>1. WordToRead' = WordToRead /\ UNCHANGED loadVars
  BY DEF LoaderReads, WordToRead, At, loadVars, image
<1>2. reading'[Loader].addr = WordToRead
  BY LoadAssumption DEF LoaderReads, RomFastRead, FlashInv, RomTypeOK, NoRead
<1>3. ReadsNext'
  BY <1>1, <1>2 DEF LoaderReads, ReadsNext, LoadInv, At, loadVars, image
<1> QED BY <1>1, <1>3, ReadsKeepLoadInv

LEMMA StartKeepsLoadInv ==
  ASSUME LoadInv, StartFirmware
  PROVE  LoadInv'
<1>1. /\ lpc \in {"off", "up", "failed"} /\ lpc' \in {"hmez", "choose", "failed"}
      /\ starts' = starts + 1 /\ late' = FALSE
      /\ lpc' = "choose" => rcvpeg' = "0"
      /\ UNCHANGED <<reading, file, use, mismatch, mem, toLoad, pegs, booted, tainted, fwLoad,
                     flashVer>>
      /\ magic' = magic \/ (magic' = TRUE /\ starts = 0)
  BY DEF StartFirmware, FirstBoot, Go, ClearPegStates, romVars, config
<1>2. LoadTypes' /\ ReadsNext'
  <2>1. lpc' \in Lpcs /\ starts' \in Nat
    BY <1>1 DEF LoadInv, LoadTypes, Lpcs, BeforeSteps
  <2>3. late' \in BOOLEAN /\ magic' \in BOOLEAN
    BY <1>1 DEF LoadInv, LoadTypes
  <2>2. ReadsNext'
    BY <1>1 DEF LoadInv, ReadsNext, Reads
  <2> QED BY <1>1, <2>1, <2>2, <2>3 DEF LoadInv, LoadTypes
<1>3. Copied' /\ MagicTaken' /\ FileAccepted' /\ Chosen'
  <2>1. magic' = magic \/ pegs = 0
    BY <1>1 DEF LoadInv, LoadTypes, PegsOfStart
  <2>2. MagicTaken' /\ FileAccepted' /\ Chosen'
    BY <1>1 DEF LoadInv, MagicTaken, FileAccepted, Older, Chosen, LoadSteps
  <2>3. Copied'
    BY <1>1, <2>1 DEF LoadInv, Copied, ToCopy, WillRun, Wanted, LoadSteps
  <2> QED BY <2>2, <2>3
<1>4. PegsOfStart' /\ PegState'
  BY <1>1
  DEF LoadInv, LoadTypes, PegsOfStart, PegState, LoadSteps, AfterSteps, BeforeSteps
<1> QED BY <1>2, <1>3, <1>4 DEF LoadInv

LEMMA ChooseKeepsLoadInv ==
  ASSUME LoadInv, ChooseFirmware
  PROVE  LoadInv'
<1>1. /\ lpc = "choose" /\ lpc' = "board"
      /\ UNCHANGED <<reading, mem, toLoad, magic, pegs, booted, starts, rcvpeg, late, tainted,
                     fwLoad, flashVer>>
  BY DEF ChooseFirmware, Go, At, romVars, config, image, bounds
<1>2. CASE file # NoFile
  <2>1. use' = "file" /\ UNCHANGED <<file, mismatch>>
    BY <1>2 DEF ChooseFirmware
  <2>2. LoadTypes' /\ ReadsNext'
    BY <1>1, <2>1 DEF LoadInv, LoadTypes, ReadsNext, Reads, Lpcs, BeforeSteps
  <2>3. Copied' /\ MagicTaken' /\ FileAccepted' /\ Chosen'
    BY <1>1, <1>2, <2>1
    DEF LoadInv, Copied, ToCopy, WillRun, MagicTaken, FileAccepted, Older, Chosen, LoadSteps
  <2>4. PegsOfStart' /\ PegState'
    BY <1>1 DEF LoadInv, PegsOfStart, PegState, LoadSteps, AfterSteps, BeforeSteps
  <2> QED BY <2>2, <2>3, <2>4 DEF LoadInv
<1>3. CASE file = NoFile
  <2>1. PICK mn \in Offers, ct \in Offers :
          IF FlashFirst(mn, ct)
          THEN /\ use' = "flash" /\ UNCHANGED file
               /\ mismatch' = (mismatch \/ ~Supported(flashVer))
          ELSE /\ use' = "file" /\ UNCHANGED mismatch
               /\ file' = IF Accepted(mn) THEN mn ELSE ct
    BY <1>3 DEF ChooseFirmware
  <2>2. PegsOfStart' /\ PegState' /\ Copied' /\ MagicTaken'
    BY <1>1
    DEF LoadInv, PegsOfStart, PegState, Copied, MagicTaken, LoadSteps, AfterSteps, BeforeSteps
  <2>3. CASE FlashFirst(mn, ct)
    <3>1. use' = "flash" /\ file' = file /\ mismatch' = (mismatch \/ ~Supported(flashVer))
      BY <2>1, <2>3
    <3>2. LoadTypes' /\ ReadsNext'
      BY <1>1, <3>1 DEF LoadInv, LoadTypes, ReadsNext, Reads, Lpcs, BeforeSteps
    <3>3. FileAccepted' /\ Chosen'
      BY <1>1, <1>3, <3>1 DEF FileAccepted, Chosen
    <3> QED BY <2>2, <3>2, <3>3 DEF LoadInv
  <2>4. CASE ~FlashFirst(mn, ct)
    <3>1. use' = "file" /\ mismatch' = mismatch /\ file' = IF Accepted(mn) THEN mn ELSE ct
      BY <2>1, <2>4
    <3>2. /\ Accepted(mn) \/ Accepted(ct)
          /\ Accepted(mn) => ~Older(mn)
          /\ ~Accepted(mn) /\ fwLoad = "compare" /\ Supported(flashVer) => ~Older(ct)
      BY <2>4 DEF FlashFirst
    <3>3. PICK o \in Offers :
            /\ file' = o /\ Accepted(o)
            /\ fwLoad = "compare" /\ Supported(flashVer) => ~Older(o)
      <4>1. CASE Accepted(mn)
        BY <3>1, <3>2, <4>1
      <4>2. CASE ~Accepted(mn)
        BY <3>1, <3>2, <4>2
      <4> QED BY <4>1, <4>2
    <3>4. LoadTypes' /\ ReadsNext'
      BY <1>1, <3>1, <3>3
      DEF LoadInv, LoadTypes, ReadsNext, Reads, Lpcs, BeforeSteps, Offers
    <3>5. FileAccepted' /\ Chosen'
      BY <1>1, <3>1, <3>3 DEF FileAccepted, Chosen, Accepted, Older
    <3> QED BY <2>2, <3>4, <3>5 DEF LoadInv
  <2> QED BY <2>3, <2>4
<1> QED BY <1>2, <1>3

LEMMA TakesKeepsLoadInv ==
  ASSUME FlashInv, LoadInv, LoaderTakes
  PROVE  LoadInv'
<1>1. /\ reading[Loader].at \in {"read", "failed"} /\ reading'[Loader].at = "idle"
      /\ UNCHANGED <<file, use, mismatch, toLoad, magic, pegs, booted, starts, rcvpeg, late,
                     fwLoad, flashVer>>
      /\ tainted' = (tainted \/ (lpc = "load" /\ disturbed[Loader]))
  BY NoReadTyped, LoadAssumption
  DEF LoaderTakes, RomReturn, FlashInv, RomTypeOK, At, config, card, bounds
<1>2. Reads(Loader) /\ ~Reads(Loader)'
  BY <1>1 DEF Reads
<1>3. \/ lpc = "board" /\ lpc' = "lock"
      \/ lpc = "crbinit" /\ lpc' \in {"load", "write"}
      \/ lpc = "load" /\ lpc' \in {"store", "dummy"} /\ use = "flash" /\ toLoad # {}
  BY <1>2 DEF LoaderTakes, At, Go, LoadInv, ReadsNext
<1>4. CASE lpc # "load"
  <2>1. UNCHANGED <<mem, tainted>>
    BY <1>1, <1>4 DEF LoaderTakes, At, LoadInv, LoadTypes
  <2>2. LoadTypes' /\ ReadsNext'
    BY <1>1, <1>2, <1>3, <1>4, <2>1
    DEF LoadInv, LoadTypes, ReadsNext, Lpcs, LoadSteps, BeforeSteps
  <2>3. Copied' /\ MagicTaken' /\ FileAccepted' /\ Chosen'
    BY <1>1, <1>3, <1>4, <2>1
    DEF LoadInv, Copied, ToCopy, WillRun, MagicTaken, Wanted, FileAccepted, Older, Chosen,
        LoadSteps
  <2>4. PegsOfStart' /\ PegState'
    BY <1>1, <1>3, <1>4
    DEF LoadInv, PegsOfStart, PegState, LoadSteps, AfterSteps, BeforeSteps
  <2> QED BY <2>2, <2>3, <2>4 DEF LoadInv
<1>5. CASE lpc = "load"
  <2> DEFINE x == CHOOSE w \in toLoad : TRUE
  <2>1. /\ lpc' \in {"store", "dummy"} /\ use = "flash" /\ toLoad # {}
        /\ x \in toLoad /\ x \in ImageWords /\ reading[Loader].addr = x
    BY <1>2, <1>3, <1>5 DEF LoadInv, LoadTypes, ReadsNext, WordToRead
  <2> HIDE DEF x
  <2>2. \/ lpc' = "store" /\ reading[Loader].at = "read"
           /\ mem' = [mem EXCEPT ![x] = reading[Loader].word]
        \/ lpc' = "dummy" /\ mem' = mem
    BY <1>5, <2>1 DEF LoaderTakes, At, Go, ReadAt
  <2>3. ~tainted' /\ lpc' = "store" => mem'[x] = x
    BY <1>1, <1>5, <2>1, <2>2, LoadAssumption DEF LoadInv, LoadTypes, FlashInv, RomTypeOK, Progress
  <2>4. /\ DOMAIN mem' = ImageWords
        /\ \A w \in ImageWords : w # x => mem'[w] = mem[w]
    BY <2>2 DEF LoadInv, LoadTypes
  <2>5. LoadTypes'
    <3>1. tainted' \in BOOLEAN
      BY <1>1
    <3> QED
      BY <1>1, <2>1, <2>4, <3>1 DEF LoadInv, LoadTypes, Lpcs, LoadSteps, AfterSteps
  <2>6. ReadsNext'
    BY <1>1, <1>2, <2>1 DEF ReadsNext
  <2>7. Copied'
    <3>1. pegs = 0
      BY <1>5 DEF LoadInv, PegsOfStart, LoadSteps
    <3>2. ~tainted' => \A w \in ToCopy \ toLoad : mem'[w] = Wanted(w)
      BY <1>1, <1>5, <2>1, <2>4, LoadAssumption DEF LoadInv, Copied, ToCopy, LoadSteps
    <3>3. ~tainted' /\ lpc' = "store" =>
            mem'[CHOOSE w \in toLoad' : TRUE] = CHOOSE w \in toLoad' : TRUE
      BY <1>1, <2>3 DEF x
    <3> QED BY <1>1, <3>1, <3>2, <3>3 DEF Copied, ToCopy, Wanted
  <2>8. MagicTaken' /\ FileAccepted' /\ Chosen'
    BY <1>1, <1>5, <2>1 DEF LoadInv, MagicTaken, FileAccepted, Older, Chosen, LoadSteps
  <2>9. PegsOfStart' /\ PegState'
    BY <1>1, <1>5, <2>1
    DEF LoadInv, PegsOfStart, PegState, LoadSteps, AfterSteps, BeforeSteps
  <2> QED BY <2>5, <2>6, <2>7, <2>8, <2>9 DEF LoadInv
<1> QED BY <1>4, <1>5

\* A word is stored, or lost.
LEMMA StoreKeepsLoadInv ==
  ASSUME FlashInv, LoadInv, StoreFlashWord \/ StoreFileWord
  PROVE  LoadInv'
<1> DEFINE x == CHOOSE w \in toLoad : TRUE
<1>1. /\ lpc \in {"load", "store"} /\ lpc' = "load" /\ toLoad # {}
      /\ toLoad' = toLoad \ {x}
      /\ ~tainted' => ~tainted
      /\ tainted' \in BOOLEAN
      /\ UNCHANGED <<reading, file, use, mismatch, magic, pegs, booted, starts, rcvpeg, late,
                     fwLoad, flashVer>>
  <2>1. lpc = "store" => toLoad # {}
    BY DEF LoadInv, ReadsNext
  <2>2. toLoad' = toLoad \ {x} /\ (~tainted' => ~tainted) /\ tainted' \in BOOLEAN
    <3>1. Stored(x)
      BY DEF StoreFlashWord, StoreFileWord
    <3> QED BY <3>1 DEF Stored, LoadInv, LoadTypes
  <2>3. /\ lpc \in {"load", "store"} /\ lpc' = "load" /\ (lpc = "load" => toLoad # {})
        /\ UNCHANGED <<reading, file, use, mismatch, magic, pegs, booted, starts, rcvpeg, late,
                       fwLoad, flashVer>>
    BY DEF StoreFlashWord, StoreFileWord, At, Go, romVars, config, card
  <2> QED BY <2>1, <2>2, <2>3
<1>2. x \in toLoad /\ x \in ImageWords
  BY <1>1 DEF LoadInv, LoadTypes
<1>3. /\ DOMAIN mem' = ImageWords
      /\ \A w \in ImageWords : w # x => mem'[w] = mem[w]
      /\ ~tainted => mem'[x] = Wanted(x)
  <2>1. CASE StoreFlashWord
    <3>1. mem' = mem /\ lpc = "store" /\ use = "flash"
      BY <2>1 DEF StoreFlashWord, At, LoadInv, ReadsNext
    <3> QED BY <3>1 DEF LoadInv, LoadTypes, Copied, Wanted
  <2>2. CASE StoreFileWord
    <3>1. mem' = [mem EXCEPT ![x] = "file"] /\ use = "file"
      BY <2>2 DEF StoreFileWord
    <3> QED BY <1>2, <3>1 DEF LoadInv, LoadTypes, Wanted
  <2> QED BY <2>1, <2>2
<1>4. ~Reads(Loader)
  <2>1. CASE StoreFlashWord
    BY <2>1 DEF StoreFlashWord, At, LoadInv, ReadsNext
  <2>2. CASE StoreFileWord
    BY <2>2 DEF StoreFileWord, At, LoadInv, ReadsNext
  <2> QED BY <2>1, <2>2
<1>5. LoadTypes' /\ ReadsNext'
  BY <1>1, <1>3, <1>4 DEF LoadInv, LoadTypes, ReadsNext, Reads, Lpcs, LoadSteps
<1>6. Copied'
  <2>1. pegs' = 0
    BY <1>1 DEF LoadInv, PegsOfStart, LoadSteps
  <2>2. ~tainted => \A w \in ToCopy \ toLoad : mem[w] = Wanted(w)
    BY <1>1 DEF LoadInv, Copied, LoadSteps
  <2>3. ~tainted => \A w \in ToCopy \ toLoad' : mem'[w] = Wanted(w)
    BY <1>1, <1>2, <1>3, <2>2, LoadAssumption DEF ToCopy
  <2> QED BY <1>1, <2>1, <2>3 DEF Copied, ToCopy, Wanted
<1>7. MagicTaken' /\ FileAccepted' /\ Chosen'
  BY <1>1 DEF LoadInv, MagicTaken, FileAccepted, Older, Chosen, LoadSteps
<1>8. PegsOfStart' /\ PegState'
  BY <1>1 DEF LoadInv, PegsOfStart, PegState, LoadSteps, AfterSteps, BeforeSteps
<1> QED BY <1>5, <1>6, <1>7, <1>8 DEF LoadInv

LEMMA ReleaseKeepsLoadInv ==
  ASSUME LoadInv, ReleasePegs
  PROVE  LoadInv'
<1>1. /\ lpc = "load" /\ lpc' = "dummy" /\ toLoad = {} /\ pegs' = starts
      /\ magic' = (magic \/ use = "file")
      /\ UNCHANGED <<reading, file, use, mismatch, mem, toLoad, booted, starts, rcvpeg, late,
                     tainted, fwLoad, flashVer>>
      /\ reading[Loader].at = "idle"
  BY DEF ReleasePegs, At, Go, ReadAt, romVars, config, image, bounds
<1>2. LoadTypes' /\ ReadsNext'
  <2>1. magic' \in BOOLEAN
    BY <1>1
  <2> QED BY <1>1, <2>1 DEF LoadInv, LoadTypes, ReadsNext, Reads, Lpcs, AfterSteps
<1>3. Copied' /\ MagicTaken' /\ FileAccepted' /\ Chosen'
  <2>1. booted = 0 /\ ~magic
    BY <1>1 DEF LoadInv, LoadTypes, PegsOfStart, MagicTaken, LoadSteps
  <2>2. ~tainted => \A w \in ToCopy : mem[w] = Wanted(w)
    BY <1>1 DEF LoadInv, Copied, LoadSteps
  <2>3. ~tainted => \A w \in ImageWords : WillRun(w)' = Wanted(w)
    <3>1. CASE use = "file"
      BY <1>1, <2>2, <3>1 DEF ToCopy, WillRun
    <3>2. CASE use # "file"
      <4>1. ~magic' /\ booted' = 0 /\ mem' = mem
        BY <1>1, <2>1, <3>2
      <4> QED BY <2>2, <3>2, <4>1 DEF ToCopy, WillRun, Wanted
    <3> QED BY <3>1, <3>2
  <2>4. Copied'
    BY <1>1, <2>3 DEF Copied, Wanted, LoadSteps
  <2> QED
    BY <1>1, <2>4 DEF LoadInv, MagicTaken, FileAccepted, Older, Chosen, LoadSteps
<1>4. PegsOfStart' /\ PegState'
  BY <1>1
  DEF LoadInv, LoadTypes, PegsOfStart, PegState, LoadSteps, AfterSteps, BeforeSteps
<1> QED BY <1>2, <1>3, <1>4 DEF LoadInv

LEMMA ResetKeepsLoadInv ==
  ASSUME FlashInv, LoadInv, LockForReset \/ ResetChip \/ UnlockAfterReset
  PROVE  LoadInv'
<1>1. CASE LockForReset
  <2>1. lpc \in {"hmez", "lock"} /\ ~Reads(Loader)' /\ UNCHANGED loadVars
    BY <1>1, LoadAssumption
    DEF LockForReset, GoRead, Reads, FlashInv, RomTypeOK
  <2>2. ReadsNext'
    BY <2>1 DEF ReadsNext, loadVars
  <2> QED BY <2>1, <2>2, ReadsKeepLoadInv
<1>2. CASE ResetChip
  <2>1. /\ \/ lpc = "hmez" /\ lpc' = "hmezUnlock"
           \/ lpc = "lock" /\ lpc' = "unlock"
        /\ pegs' = 0 /\ booted' = 0 /\ DOMAIN mem' = ImageWords
        /\ toLoad' = ToCopy /\ ToCopy \subseteq ImageWords
        /\ magic' = (magic /\ lpc = "hmez") /\ tainted' = FALSE /\ reading[Loader].at = "reset"
        /\ UNCHANGED <<reading, file, use, mismatch, starts, rcvpeg, late, fwLoad, flashVer>>
    BY <1>2, LoadAssumption DEF ResetChip, ToCopy, ReadAt, At, Go, config, bounds
  <2>2. LoadTypes' /\ ReadsNext'
    <3>1. magic' \in BOOLEAN
      BY <2>1
    <3> QED BY <2>1, <3>1 DEF LoadInv, LoadTypes, ReadsNext, Reads, Lpcs, LoadSteps
  <2>3. Copied' /\ MagicTaken' /\ FileAccepted' /\ Chosen'
    <3>1. lpc' # "hmezUnlock" => ~magic'
      BY <2>1
    <3>2. Copied'
      BY <2>1 DEF Copied, ToCopy, LoadSteps
    <3> QED
      BY <2>1, <3>1, <3>2 DEF LoadInv, MagicTaken, FileAccepted, Older, Chosen, LoadSteps
  <2>4. PegsOfStart' /\ PegState'
    BY <2>1
    DEF LoadInv, LoadTypes, PegsOfStart, PegState, LoadSteps, AfterSteps, BeforeSteps
  <2> QED BY <2>2, <2>3, <2>4 DEF LoadInv
<1>3. CASE UnlockAfterReset
  <2>1. /\ \/ lpc = "hmezUnlock" /\ lpc' = "choose" /\ rcvpeg' = "0"
           \/ lpc = "unlock" /\ lpc' = "crbinit" /\ rcvpeg' = rcvpeg
        /\ UNCHANGED <<file, use, mismatch, mem, toLoad, magic, pegs, booted, starts, late,
                       tainted, fwLoad, flashVer>>
    BY <1>3
    DEF UnlockAfterReset, At, Go, ClearPegStates, config, image, bounds
  <2>2. reading'[Loader].at = "idle"
    BY <1>3, LoadAssumption DEF UnlockAfterReset, GoRead, FlashInv, RomTypeOK
  <2>3. LoadTypes' /\ ReadsNext'
    BY <2>1, <2>2
    DEF LoadInv, LoadTypes, ReadsNext, Reads, Lpcs, LoadSteps, BeforeSteps
  <2>4. Copied' /\ MagicTaken' /\ FileAccepted' /\ Chosen'
    BY <2>1
    DEF LoadInv, Copied, ToCopy, WillRun, MagicTaken, Wanted, FileAccepted, Older, Chosen,
        LoadSteps, PegsOfStart
  <2>5. PegsOfStart' /\ PegState'
    BY <2>1
    DEF LoadInv, LoadTypes, PegsOfStart, PegState, LoadSteps, AfterSteps, BeforeSteps
  <2> QED BY <2>3, <2>4, <2>5 DEF LoadInv
<1> QED BY <1>1, <1>2, <1>3

\* The initialisation data, the wait for it, and what follows the load.
LEMMA RestKeepsLoadInv ==
  ASSUME LoadInv,
         WriteInitData \/ Settled \/ PhantomInit \/ ReceivePegReady \/ InitFirmware
  PROVE  LoadInv'
<1>1. /\ \/ lpc \in {"write", "quiet"} /\ lpc' \in {"quiet", "load"}
         \/ lpc = "dummy" /\ lpc' = "rcvpeg"
         \/ lpc = "rcvpeg" /\ lpc' = "failed"
         \/ lpc = "rcvpeg" /\ lpc' = "up" /\ rcvpeg = "ready"
         \/ lpc' = lpc
      /\ UNCHANGED <<reading, file, use, mismatch, mem, toLoad, magic, pegs, booted, starts, late,
                     tainted, fwLoad, flashVer, rcvpeg>>
  <2>1. CASE WriteInitData \/ Settled
    BY <2>1 DEF WriteInitData, Settled, At, Go, config, image, card, bounds
  <2>2. CASE PhantomInit \/ InitFirmware
    BY <2>2 DEF PhantomInit, InitFirmware, At, Go, romVars, config, image, card, bounds
  <2>3. CASE ReceivePegReady
    BY <2>3 DEF ReceivePegReady, At, Go, romVars, config, image, card, bounds
  <2> QED BY <2>1, <2>2, <2>3
<1>2. LoadTypes'
  BY <1>1 DEF LoadInv, LoadTypes, Lpcs, LoadSteps, AfterSteps
<1>3. ReadsNext'
  <2>1. WordToRead' = WordToRead \/ lpc' # lpc
    BY <1>1 DEF WordToRead, At
  <2> QED BY <1>1, <2>1 DEF LoadInv, ReadsNext, Reads
<1>4. Copied' /\ MagicTaken' /\ FileAccepted' /\ Chosen'
  BY <1>1
  DEF LoadInv, Copied, ToCopy, WillRun, MagicTaken, Wanted, FileAccepted, Older, Chosen,
      LoadSteps
<1>5. PegsOfStart' /\ PegState'
  BY <1>1
  DEF LoadInv, LoadTypes, PegsOfStart, PegState, LoadSteps, AfterSteps, BeforeSteps
<1> QED BY <1>2, <1>3, <1>4, <1>5 DEF LoadInv

\* The card in its own time.
LEMMA CardKeepsLoadInv ==
  ASSUME LoadInv, Boot \/ ReceivePegStarts
  PROVE  LoadInv'
<1>1. /\ UNCHANGED <<reading, lpc, file, use, mismatch, toLoad, pegs, starts, tainted, fwLoad,
                     flashVer>>
      /\ \/ /\ pegs > 0 /\ booted = 0 /\ booted' = pegs /\ UNCHANGED <<rcvpeg, late>>
            /\ magic' = FALSE /\ mem' = [w \in ImageWords |-> WillRun(w)]
         \/ /\ booted > 0 /\ booted' = booted /\ rcvpeg' = "ready" /\ late' = (booted # starts)
            /\ UNCHANGED <<mem, magic>>
  BY DEF Boot, ReceivePegStarts, romVars, config, image, bounds
<1>2. LoadTypes'
  <2>1. /\ booted' \in Nat /\ late' \in BOOLEAN /\ magic' \in BOOLEAN
        /\ DOMAIN mem' = ImageWords
    BY <1>1 DEF LoadInv, LoadTypes
  <2> QED BY <1>1, <2>1 DEF LoadInv, LoadTypes
<1>3. ReadsNext'
  <2>1. WordToRead' = WordToRead
    BY <1>1 DEF WordToRead, At
  <2> QED BY <1>1, <2>1 DEF LoadInv, ReadsNext, Reads
<1>4. Copied' /\ MagicTaken' /\ FileAccepted' /\ Chosen'
  <2>1. pegs > 0 /\ lpc \notin LoadSteps
    BY <1>1 DEF LoadInv, LoadTypes, PegsOfStart
  <2>2. \A w \in ImageWords : WillRun(w)' = WillRun(w)
    BY <1>1, <2>1 DEF LoadInv, LoadTypes, WillRun
  <2>3. Copied'
    BY <1>1, <2>1, <2>2 DEF LoadInv, Copied, Wanted, LoadSteps
  <2> QED
    BY <1>1, <2>1, <2>3 DEF LoadInv, MagicTaken, FileAccepted, Older, Chosen
<1>5. PegsOfStart'
  BY <1>1 DEF LoadInv, LoadTypes, PegsOfStart
<1>6. PegState'
  <2>1. CASE booted = 0 /\ booted' = pegs /\ pegs > 0 /\ UNCHANGED <<rcvpeg, late>>
    BY <1>1, <2>1
    DEF LoadInv, LoadTypes, PegsOfStart, PegState, LoadSteps, AfterSteps, BeforeSteps
  <2>2. CASE booted > 0 /\ booted' = booted /\ rcvpeg' = "ready" /\ late' = (booted # starts)
    <3>1. late' \/ booted' = starts'
      BY <1>1, <2>2
    <3>2. booted' = pegs /\ pegs > 0
      BY <2>2 DEF LoadInv, LoadTypes, PegsOfStart
    <3>3. lpc \notin LoadSteps /\ (lpc \in BeforeSteps => pegs # starts)
      BY <3>2 DEF LoadInv, LoadTypes, PegsOfStart
    <3>4. lpc' = lpc /\ starts' = starts /\ rcvpeg' = "ready"
      BY <1>1, <2>2
    <3> QED BY <3>1, <3>2, <3>3, <3>4 DEF PegState, AfterSteps, BeforeSteps
  <2> QED BY <1>1, <2>1, <2>2
<1> QED BY <1>2, <1>3, <1>4, <1>5, <1>6 DEF LoadInv

LEMMA NextLoadInv ==
  ASSUME FlashInv, LoadInv, [LoadNext]_loaderVars
  PROVE  LoadInv'
<1>1. CASE UNCHANGED loaderVars
  BY <1>1, OthersKeepLoadInv DEF loaderVars, romVars
<1>2. CASE Fetch /\ UNCHANGED loadVars
  BY <1>2, OthersKeepLoadInv DEF Fetch
<1>3. ASSUME NEW t \in Readers, OtherTakes(t)
      PROVE  LoadInv'
  <2>1. reading'[Loader] = reading[Loader] /\ UNCHANGED loadVars
    BY <1>3, LoadAssumption DEF OtherTakes, RomReturn, FlashInv, RomTypeOK
  <2> QED BY <2>1, OthersKeepLoadInv
<1>4. ASSUME NEW t \in Readers, NEW a \in FlashWords, OtherReads(t, a)
      PROVE  LoadInv'
  <2>1. reading'[Loader] = reading[Loader] /\ UNCHANGED loadVars
    BY <1>4, LoadAssumption DEF OtherReads, RomFastRead, FlashInv, RomTypeOK
  <2> QED BY <2>1, OthersKeepLoadInv
<1> QED
  BY <1>1, <1>2, <1>3, <1>4, StartKeepsLoadInv, ChooseKeepsLoadInv, LoaderReadsKeepsLoadInv,
     TakesKeepsLoadInv, StoreKeepsLoadInv, ReleaseKeepsLoadInv, ResetKeepsLoadInv,
     RestKeepsLoadInv, CardKeepsLoadInv, RomStepKeepsLoadInv
  DEF LoadNext

\* Pegs that were released run the firmware that was to be loaded: all of a file the
\* driver supports, or the boot loader of the flash, which finds no magic of an earlier
\* file and takes the image of the flash; and "up" speaks of the firmware this start has
\* loaded (load_fw, load_from_flash, do_load_fw_file and pinit_from_rom of
\* driver/unm_nic_init.c, nx_start_firmware of driver/unm_nic_main.c), whatever fails on
\* the way and whoever reads the flash; unless a word was read disturbed or lost, or the
\* receive peg of an earlier start was ready late.
THEOREM FirmwareRunsRight == LoadSpec => []FirmwareRight
<1>1. LoadInv => FirmwareRight
  <2> SUFFICES ASSUME LoadInv PROVE RightFirmwareRuns /\ UpMeansBooted
    BY DEF FirmwareRight
  <2>1. UpMeansBooted
    BY DEF LoadInv, PegState, AfterSteps, UpMeansBooted
  <2>2. RightFirmwareRuns
    BY DEF LoadInv, Copied, Wanted, FileAccepted, Chosen, RightFirmwareRuns
  <2> QED BY <2>1, <2>2
<1>2. LoadInit => FlashInv /\ LoadInv
  BY InitIInv, InitLoadInv
<1>3. FlashInv /\ LoadInv /\ [LoadNext]_loaderVars => FlashInv' /\ LoadInv'
  BY NextIInv, NextLoadInv
<1> QED BY <1>1, <1>2, <1>3, PTL DEF LoadSpec
=============================================================================
