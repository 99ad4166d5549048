----------------------------- MODULE CardAccess -----------------------------
(***************************************************************************)
(* Access to a card by the threads of its PCI functions.  The probe looks  *)
(* at the length of the memory map and chooses one family of functions     *)
(* (the pointers unm_nic_hw_read_wx and so on of the adapter) for as long  *)
(* as the device lives: those of LegacyWindow, or those of CrbWindow and   *)
(* MemAgent.  The registers of the memory agent are in the direct map of   *)
(* the latter, so that the two share nothing, and threads that use the one *)
(* and threads that use the other are looked at apart ("2M agent").        *)
(***************************************************************************)
EXTENDS CrbWindow

CONSTANTS
  Users,          \* the threads that reach the memory or, in nx_xport, call its ioctl
  SnWindows, SnZero, Words, Parts, Values

ASSUME LegacyAssumption == SnZero \in SnWindows /\ "none" \notin SnWindows
ASSUME MemoryAssumption == Users \subseteq Threads /\ Words # {} /\ Parts # {} /\ Values # {}

VARIABLES
  memmap,   \* the family chosen
  hwin, curr, sn, qdr, readers, writer, agent, job, overlap, guessed, lpc,
  mem, addr, data, op, busy, access, word, cpc, meant, mixed, gaveUp

legacyVars == <<hwin, curr, sn, qdr, readers, writer, agent, job, overlap, guessed, lpc>>
memVars == <<mem, addr, data, op, busy, access, word, cpc, meant, mixed, gaveUp>>

Legacy == INSTANCE LegacyWindow WITH pc <- lpc
Memory == INSTANCE MemAgent WITH Clients <- Users, MaxGiveUps <- MaxTimeouts

CardInit ==
  /\ memmap \in {"2M", "2M agent", "128M"}
  /\ Init /\ Legacy!Init /\ Memory!AgentInit

Registers2M == memmap = "2M" /\ UNCHANGED <<memmap, legacyVars, memVars>>
Memory2M == memmap = "2M agent" /\ UNCHANGED <<memmap, vars, legacyVars>>
Card128M == memmap = "128M" /\ UNCHANGED <<memmap, vars, memVars>>

CardNext ==
  \/ Registers2M /\ Next
  \/ Memory2M /\ Memory!AgentNext
  \/ Card128M /\ Legacy!Next
-----------------------------------------------------------------------------
\* On a card with a large memory map, accesses go to the half of the register
\* space and to the window of the QDR memory that the thread means, but for window 0
\* of the QDR memory after a PCI recovery, which the driver takes for granted
\* (change_crbwindow_128M, set_window_128M and the lock around them); and while a
\* thread waits for the memory agent, the agent works on what that thread wrote
\* into it, unless another function used it meanwhile.
LegacyRight == Legacy!RightHalf /\ Legacy!RightSn /\ Legacy!AgentMine

\* On a card with a 2 MB map, memory accesses that do not overlap read and write
\* the words and bytes they are for (mem_read_2M, mem_write_2M).
MemoryAsWritten == Memory!MemoryAsWritten
=============================================================================
