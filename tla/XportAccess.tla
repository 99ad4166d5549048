---------------------------- MODULE XportAccess ----------------------------
(***************************************************************************)
(* The same card driven by nx_xport, the module through which the tools    *)
(* reach a card that has no network driver (nx_xport/nx_hw.c).  It has a   *)
(* copy of the functions of CardAccess, named here X and the function:     *)
(* what they do to windows, locks and agents is the same.  Its threads are *)
(* processes in the ioctl of the character device.  It also reads          *)
(* registers of window 1 with no lock and without looking at the window.   *)
(***************************************************************************)
EXTENDS CardAccess

VARIABLE driver  \* the module that is loaded: each refuses the other

\* nx_hw.c, 2 MB map.
XGetCrbAddr(t, k, r) == GetCrbAddr(t, k, r)
XCrbWinLock(t) == CrbWinLock(t) \/ CrbWinLockTimeout(t)
XSetCrbWindow(t) == SetCrbWindow(t)
XReadWx(t) == ReadWx(t)
XWriteWx(t) == WriteWx(t)
XReadIoctl(t) == ReadIoctl(t)
XWriteIoctl(t) == WriteIoctl(t)
XCrbWinUnlock(t) == CrbWinUnlock(t)

XRegisters2M ==
  /\ Registers2M
  /\ \E t \in Users :
       \/ \E k \in Kinds, r \in Regs : XGetCrbAddr(t, k, r)
       \/ Lock(t) \/ XCrbWinLock(t) \/ XSetCrbWindow(t)
       \/ XReadWx(t) \/ XWriteWx(t) \/ XReadIoctl(t) \/ XWriteIoctl(t)
       \/ XCrbWinUnlock(t) \/ Unlock(t)

\* The agent of the 2 MB map.
XMemRead2M(t) == Memory!PollRead(t) \/ Memory!ReadData(t)
XMemWrite2M(t) == Memory!SetData(t) \/ Memory!PollWrite(t)

XMemory2M ==
  /\ Memory2M
  /\ \/ Memory!AgentWorks
     \/ \E t \in Users :
          \/ \E a \in Memory!Accesses : Memory!MemAccess(t, a)
          \/ Memory!SetAddr(t) \/ Memory!Start(t) \/ Memory!GiveUp(t)
          \/ XMemRead2M(t) \/ XMemWrite2M(t)

\* nx_hw.c, 128 MB map.
XReadWx128M(t) == Legacy!ReadLock(t)
XWriteWx128M(t) == Legacy!Window1(t)
XChangeCrbWindow(t) == Legacy!ChangeTo0(t) \/ Legacy!ChangeTo1(t)
XReadIoctl128M(t) == Legacy!Window0(t)
XWriteIoctl128M(t) == Legacy!WriteLock(t) \/ Legacy!WriteUnlock(t)
XMemDirectRead(t) == Legacy!MemDirect(t) \/ Legacy!MemRelock(t)
XMemDirectWrite(t) == Legacy!MemAccess(t)
XSetWindow(t) == Legacy!MemDirectRefused(t)
XMemWrite128M(t) == Legacy!AgentProgram(t)
XMemRead128M(t) == Legacy!AgentDone(t)

\* unm_nic_pci_read_normalize_128M: the serial number of the chip is read by its
\* ioctl as if window 1 were always shown.
ReadNormalize(t) ==
  /\ lpc[t] = "idle"
  /\ lpc' = [lpc EXCEPT ![t] = "normalize"]
  /\ UNCHANGED <<hwin, curr, sn, qdr, readers, writer, agent, job, overlap, guessed>>

NormalizeDone(t) ==
  /\ lpc[t] = "normalize"
  /\ lpc' = [lpc EXCEPT ![t] = "idle"]
  /\ UNCHANGED <<hwin, curr, sn, qdr, readers, writer, agent, job, overlap, guessed>>

XCard128M ==
  /\ Card128M
  /\ \E t \in Users :
       \/ \E j \in Legacy!Jobs : Legacy!Begin(t, j)
       \/ XReadWx128M(t) \/ XWriteWx128M(t) \/ XChangeCrbWindow(t)
       \/ XReadIoctl128M(t) \/ XWriteIoctl128M(t)
       \/ XMemDirectRead(t) \/ XMemDirectWrite(t) \/ XSetWindow(t)
       \/ XMemWrite128M(t) \/ XMemRead128M(t)
       \/ ReadNormalize(t) \/ NormalizeDone(t)

XInit == CardInit /\ driver \in {"nx_nic", "nx_xport"}
XNext ==
  /\ UNCHANGED driver
  /\ \/ driver = "nx_nic" /\ CardNext
     \/ driver = "nx_xport" /\ (XRegisters2M \/ XMemory2M \/ XCard128M)

XSpec == XInit /\ [][XNext]_<<driver, memmap, vars, legacyVars, memVars>>
-----------------------------------------------------------------------------
\* The unlocked read of nx_xport finds window 1 except while another thread of
\* the function holds its lock as the writer, or before anyone set the window.
UnlockedRead ==
  \A t \in Threads : lpc[t] = "normalize" =>
    \/ hwin[FuncOf[t]] = 1
    \/ curr[FuncOf[t]] = Legacy!Invalid
    \/ writer[FuncOf[t]] # NoThread

\* In either driver, and on every large map: each access meets what it is meant for.
RightWindow == LegacyRight /\ UnlockedRead
=============================================================================
