---------------------------- MODULE LegacyWindow ----------------------------
(***************************************************************************)
(* Register and memory access on a card with a 128 MB (or 32 MB) memory    *)
(* map (driver/unm_nic_hw.c, the functions _128M).  Each PCI function has  *)
(* a window register of its own that chooses one of two halves of the      *)
(* register space; window 1 is what the driver leaves it at, so that its   *)
(* registers can be read and written by several threads under adapter_lock *)
(* held as readers, while whoever needs window 0 holds it as the writer.   *)
(* The memory behind the card is reached in two ways: the DDR through the  *)
(* registers of a test agent, which all functions share, and the QDR       *)
(* through a second window, the SN window of the function.                 *)
(***************************************************************************)
EXTENDS Naturals, FiniteSets

CONSTANTS
  Threads, NoThread,
  Funcs, FuncOf,
  SnWindows,          \* windows of the QDR memory
  SnZero              \* window 0, the one that a driver that attaches again believes in

Invalid == 255
Jobs == {[kind |-> "crb1"], [kind |-> "crb0"], [kind |-> "agent"]}
          \cup {[kind |-> "direct", sn |-> s] : s \in SnWindows}
NoJob == [kind |-> "crb1"]

VARIABLES
  hwin,     \* the CRB window register of each function
  curr,     \* curr_window: what the driver takes it to hold
  sn,       \* the SN window register of each function
  qdr,      \* qdr_sn_window
  readers,  \* who holds adapter_lock of its function as a reader
  writer,   \* and as the writer
  agent,    \* the agent of the card: whose address and data it holds
  job,
  overlap,  \* a thread of another function used the agent meanwhile
  guessed,  \* history: functions whose qdr_sn_window was set to 0, and the register not
  pc

vars == <<hwin, curr, sn, qdr, readers, writer, agent, job, overlap, guessed, pc>>

Init ==
  /\ hwin \in [Funcs -> {0, 1}]
  /\ curr = [f \in Funcs |-> Invalid]
  /\ sn \in [Funcs -> SnWindows]
  /\ qdr = [f \in Funcs |-> "none"]
  /\ readers = {}
  /\ writer = [f \in Funcs |-> NoThread]
  /\ agent = NoThread
  /\ job = [t \in Threads |-> NoJob]
  /\ overlap = [t \in Threads |-> FALSE]
  /\ guessed = {}
  /\ pc = [t \in Threads |-> "idle"]

At(t, l) == pc[t] = l
Goto(t, l) == pc' = [pc EXCEPT ![t] = l]
Kind(t) == job[t].kind
\* The access itself is over: what is left is to put the window and the lock back.
Ends(t, l) ==
  /\ Goto(t, l)
  /\ job' = [job EXCEPT ![t] = NoJob]
  /\ overlap' = [overlap EXCEPT ![t] = FALSE]
Done(t) == Ends(t, "idle")
Mine(f) == {t \in readers : FuncOf[t] = f}
locks == <<readers, writer>>
windows == <<hwin, curr, sn, qdr, guessed>>

Begin(t, j) ==
  /\ At(t, "idle")
  /\ job' = [job EXCEPT ![t] = j]
  /\ Goto(t, IF j.kind = "crb1" THEN "rdlock" ELSE "wrlock")
  /\ UNCHANGED <<windows, locks, agent, overlap>>

ReadLock(t) ==
  /\ At(t, "rdlock") /\ writer[FuncOf[t]] = NoThread
  /\ readers' = readers \cup {t}
  /\ Goto(t, "window1")
  /\ UNCHANGED <<windows, writer, agent, job, overlap>>

WriteLock(t) ==
  /\ At(t, "wrlock")
  /\ writer[FuncOf[t]] = NoThread /\ Mine(FuncOf[t]) = {}
  /\ writer' = [writer EXCEPT ![FuncOf[t]] = t]
  /\ Goto(t, IF Kind(t) = "direct" THEN "setsn" ELSE "change0")
  /\ UNCHANGED <<windows, readers, agent, job, overlap>>

\* Mutant of ChangeTo: the window is not written when any window is known.
ChangeToOnce(f, w) ==
  /\ curr' = [curr EXCEPT ![f] = w]
  /\ hwin' = IF curr[f] # Invalid THEN hwin ELSE [hwin EXCEPT ![f] = w]

\* change_crbwindow_128M: nothing to do for the window that the driver believes
\* in; otherwise the register is written and read until it shows the window.
ChangeTo(f, w) ==
  /\ curr' = [curr EXCEPT ![f] = w]
  /\ hwin' = IF curr[f] = w THEN hwin ELSE [hwin EXCEPT ![f] = w]

ChangeTo0(t) ==
  /\ At(t, "change0")
  /\ ChangeTo(FuncOf[t], 0)
  /\ Goto(t, IF Kind(t) = "crb0" THEN "window0" ELSE "agent")
  /\ UNCHANGED <<sn, qdr, guessed, locks, agent, job, overlap>>

\* The registers of window 1, in read_wx and its like: the lock is given back.
Window1(t) ==
  /\ At(t, "window1")
  /\ readers' = readers \ {t}
  /\ Done(t)
  /\ UNCHANGED <<windows, writer, agent>>

\* The registers of window 0; or the address was not mapped.
Window0(t) ==
  /\ At(t, "window0")
  /\ Ends(t, "change1")
  /\ UNCHANGED <<windows, locks, agent>>

ChangeTo1(t) ==
  /\ At(t, "change1")
  /\ ChangeTo(FuncOf[t], 1)
  /\ Goto(t, "wrunlock")
  /\ UNCHANGED <<sn, qdr, guessed, locks, agent, job, overlap>>

WriteUnlock(t) ==
  /\ At(t, "wrunlock")
  /\ writer' = [writer EXCEPT ![FuncOf[t]] = NoThread]
  /\ Done(t)
  /\ UNCHANGED <<windows, readers, agent>>

\* mem_read_128M and mem_write_128M: address, data and command are written to
\* the registers of the agent, which all functions of the card see.
AgentProgram(t) ==
  /\ At(t, "agent")
  /\ agent' = t
  /\ overlap' = [u \in Threads |->
       overlap[u] \/ (At(u, "poll") /\ FuncOf[u] # FuncOf[t])]
  /\ Goto(t, "poll")
  /\ UNCHANGED <<windows, locks, job>>

\* The agent is polled MAX_CTL_CHECK times; it has finished, or it has not and
\* the access fails.  A read then takes the data registers.
AgentDone(t) ==
  /\ At(t, "poll")
  /\ Ends(t, "change1")
  /\ UNCHANGED <<windows, locks, agent>>

\* set_window_128M, for an address in the QDR memory.
SetSn(f, s) ==
  /\ qdr' = [qdr EXCEPT ![f] = s]
  /\ IF qdr[f] = s THEN UNCHANGED <<sn, guessed>>
                   ELSE sn' = [sn EXCEPT ![f] = s] /\ guessed' = guessed \ {f}

\* The address is mapped, or the thread gives the lock back, maps the page, which
\* may fail, and takes the lock again; the window is not set again.
MemDirect(t) ==
  /\ At(t, "setsn")
  /\ SetSn(FuncOf[t], job[t].sn)
  /\ \/ Goto(t, "direct") /\ UNCHANGED <<writer, job, overlap>>
     \/ /\ Done(t) \/ Ends(t, "relock")
        /\ writer' = [writer EXCEPT ![FuncOf[t]] = NoThread]
  /\ UNCHANGED <<hwin, curr, readers, agent>>

\* An unknown address, or one that straddles two windows, is refused.
MemDirectRefused(t) ==
  /\ At(t, "setsn")
  /\ \/ SetSn(FuncOf[t], job[t].sn)
     \/ UNCHANGED <<sn, qdr, guessed>>
  /\ Ends(t, "wrunlock")
  /\ UNCHANGED <<hwin, curr, locks, agent>>

MemRelock(t) ==
  /\ At(t, "relock")
  /\ writer[FuncOf[t]] = NoThread /\ Mine(FuncOf[t]) = {}
  /\ writer' = [writer EXCEPT ![FuncOf[t]] = t]
  /\ Goto(t, "page")
  /\ UNCHANGED <<windows, readers, agent, job, overlap>>

MemAccess(t) ==
  /\ pc[t] \in {"direct", "page"}
  /\ Ends(t, "wrunlock")
  /\ UNCHANGED <<windows, locks, agent>>

\* netxen_nic_restart_fw makes the driver forget the window it believed in, without
\* any lock.
Forget(f) ==
  /\ curr' = [curr EXCEPT ![f] = Invalid]
  /\ UNCHANGED <<hwin, sn, qdr, guessed, locks, agent, job, overlap, pc>>

\* nx_nic_attach_func also takes the SN window to be 0, and writes no register: if the
\* reset of the slot has not cleared it, the driver is wrong.
AttachAgain(f) ==
  /\ curr' = [curr EXCEPT ![f] = Invalid]
  /\ qdr' = [qdr EXCEPT ![f] = SnZero]
  /\ guessed' = IF sn[f] = SnZero THEN guessed ELSE guessed \cup {f}
  /\ UNCHANGED <<hwin, sn, locks, agent, job, overlap, pc>>

Next ==
  \/ \E t \in Threads :
       \/ \E j \in Jobs : Begin(t, j)
       \/ ReadLock(t) \/ WriteLock(t) \/ WriteUnlock(t)
       \/ ChangeTo0(t) \/ ChangeTo1(t) \/ Window0(t) \/ Window1(t)
       \/ AgentProgram(t) \/ AgentDone(t)
       \/ MemDirect(t) \/ MemDirectRefused(t) \/ MemRelock(t) \/ MemAccess(t)
  \/ \E f \in Funcs : Forget(f) \/ AttachAgain(f)

Spec == Init /\ [][Next]_vars
-----------------------------------------------------------------------------
LegacyTypeOK ==
  /\ hwin \in [Funcs -> {0, 1}]
  /\ curr \in [Funcs -> {0, 1, Invalid}]
  /\ sn \in [Funcs -> SnWindows]
  /\ qdr \in [Funcs -> SnWindows \cup {"none"}]
  /\ readers \subseteq Threads
  /\ writer \in [Funcs -> Threads \cup {NoThread}]
  /\ agent \in Threads \cup {NoThread}
  /\ job \in [Threads -> Jobs]
  /\ overlap \in [Threads -> BOOLEAN] /\ guessed \subseteq Funcs
  /\ pc \in [Threads -> {"idle", "rdlock", "wrlock", "window1", "window0",
       "change0", "change1", "agent", "poll", "setsn", "relock", "direct",
       "page", "wrunlock"}]

\* The register that a thread touches is in the half that its function's window
\* shows.  Only the readers of window 1 do not set the window: they rely on
\* whoever was in window 0 having put it back, and on the card until then.
RightHalf ==
  \A t \in Threads :
    /\ pc[t] \in {"window0", "agent", "poll"} => hwin[FuncOf[t]] = 0
    /\ At(t, "window1") => hwin[FuncOf[t]] = 1 \/ curr[FuncOf[t]] = Invalid

\* A QDR access that did not have to map its page goes to its own SN window, except
\* one to window 0 after the driver has attached its function again, and until it
\* writes the register once more: there it takes the window for granted.
RightSn ==
  \A t \in Threads :
    At(t, "direct") =>
      \/ sn[FuncOf[t]] = job[t].sn
      \/ FuncOf[t] \in guessed /\ job[t].sn = SnZero

\* While a thread waits for the agent, the agent works on what the thread wrote
\* into it, as long as no other function of the card used it meanwhile: within
\* a function, adapter_lock covers the whole exchange.
AgentMine ==
  \A t \in Threads : At(t, "poll") /\ ~overlap[t] => agent = t
=============================================================================
