----------------------------- MODULE CrbWindow -----------------------------
(***************************************************************************)
(* Register access on a card with a 2 MB memory map (driver/unm_nic_hw.c,  *)
(* the functions _2M).  Some registers are mapped directly; the others are *)
(* seen through one aperture that shows the window last chosen, by any of  *)
(* the PCI functions of the card.  A thread that goes through the aperture *)
(* takes the adapter_lock of its function and then semaphore 7 of the      *)
(* card; if it does not get the semaphore in time it goes on without.      *)
(*                                                                         *)
(* What is kept of a register is which one a thread touches, not what is   *)
(* in it.  wx functions touch one word; ioctl functions may touch several  *)
(* words, one after the other.                                             *)
(***************************************************************************)
EXTENDS Naturals, FiniteSets

CONSTANTS
  Threads, NoThread,
  Funcs, FuncOf,       \* the PCI functions, and the one each thread drives
  Windowed, Direct,    \* the registers, each windowed one in its own window
  MaxTimeouts          \* waits for semaphore 7 that may give up

ASSUME WindowAssumption ==
  /\ NoThread \notin Threads
  /\ FuncOf \in [Threads -> Funcs]
  /\ Windowed \cap Direct = {} /\ Windowed # {} /\ Direct # {}
  /\ MaxTimeouts \in Nat

Regs == Windowed \cup Direct
Kinds == {"read_wx", "write_wx", "read_ioctl", "write_ioctl"}
AnyReg == CHOOSE r \in Direct : TRUE
NoCall == [kind |-> "read_wx", reg |-> AnyReg]

VARIABLES
  window,   \* CRB_WINDOW_2M: what the aperture shows
  lock,     \* adapter_lock of each function, held as a writer
  sem,      \* who holds semaphore 7, as the card has it
  call,     \* what each thread is about to access
  pc,
  timeouts  \* waits given up so far

vars == <<window, lock, sem, call, pc, timeouts>>

Init ==
  /\ window \in Windowed
  /\ lock = [f \in Funcs |-> NoThread]
  /\ sem = NoThread
  /\ call = [t \in Threads |-> NoCall]
  /\ pc = [t \in Threads |-> "idle"]
  /\ timeouts = 0

At(t, l) == pc[t] = l
Goto(t, l) == pc' = [pc EXCEPT ![t] = l]
ByWindow(t) == call[t].reg \in Windowed
Touches(t) == IF ByWindow(t) THEN window ELSE call[t].reg

\* get_crb_addr_2M: a register in the direct map needs no window.
GetCrbAddr(t, k, r) ==
  /\ At(t, "idle")
  /\ call' = [call EXCEPT ![t] = [kind |-> k, reg |-> r]]
  /\ Goto(t, IF r \in Direct THEN "access" ELSE "lock")
  /\ UNCHANGED <<window, lock, sem, timeouts>>

\* write_lock_irqsave of the function's adapter_lock.
Lock(t) ==
  /\ At(t, "lock")
  /\ lock[FuncOf[t]] = NoThread
  /\ lock' = [lock EXCEPT ![FuncOf[t]] = t]
  /\ Goto(t, "sem")
  /\ UNCHANGED <<window, sem, call, timeouts>>

\* Mutant of SemRead: the read does not have to return 1.
SemReadAny(t) == TRUE

\* Reading PCIE_SEM7_LOCK returns 1 when the semaphore was free, and takes it.
SemRead(t) == sem = NoThread

CrbWinLock(t) ==
  /\ At(t, "sem") /\ SemRead(t)
  /\ sem' = t
  /\ Goto(t, "window")
  /\ UNCHANGED <<window, lock, call, timeouts>>

\* crb_win_lock returns -1, and none of its callers looks.
CrbWinLockTimeout(t) ==
  /\ At(t, "sem") /\ ~SemRead(t) /\ timeouts < MaxTimeouts
  /\ timeouts' = timeouts + 1
  /\ Goto(t, "window")
  /\ UNCHANGED <<window, lock, sem, call>>

SetCrbWindow(t) ==
  /\ At(t, "window")
  /\ window' = call[t].reg
  /\ Goto(t, "access")
  /\ UNCHANGED <<lock, sem, call, timeouts>>

\* A register that needed no window needed no lock either.
Accessed(t) ==
  IF ByWindow(t) THEN Goto(t, "semfree") /\ UNCHANGED call
  ELSE Goto(t, "idle") /\ call' = [call EXCEPT ![t] = NoCall]

ReadWx(t) ==
  /\ At(t, "access") /\ call[t].kind = "read_wx"
  /\ Accessed(t)
  /\ UNCHANGED <<window, lock, sem, timeouts>>

WriteWx(t) ==
  /\ At(t, "access") /\ call[t].kind = "write_wx"
  /\ Accessed(t)
  /\ UNCHANGED <<window, lock, sem, timeouts>>

\* 1, 2, 4 or 8 bytes, or a block of words: the first at "access", others later.
ReadIoctl(t) ==
  /\ pc[t] \in {"access", "more"} /\ call[t].kind = "read_ioctl"
  /\ \/ Accessed(t)
     \/ At(t, "access") /\ Goto(t, "more") /\ UNCHANGED call
  /\ UNCHANGED <<window, lock, sem, timeouts>>

WriteIoctl(t) ==
  /\ pc[t] \in {"access", "more"} /\ call[t].kind = "write_ioctl"
  /\ \/ Accessed(t)
     \/ At(t, "access") /\ Goto(t, "more") /\ UNCHANGED call
  /\ UNCHANGED <<window, lock, sem, timeouts>>

\* Reading PCIE_SEM7_UNLOCK frees the semaphore, whoever holds it.
CrbWinUnlock(t) ==
  /\ At(t, "semfree")
  /\ sem' = NoThread
  /\ Goto(t, "unlock")
  /\ UNCHANGED <<window, lock, call, timeouts>>

Unlock(t) ==
  /\ At(t, "unlock")
  /\ lock' = [lock EXCEPT ![FuncOf[t]] = NoThread]
  /\ call' = [call EXCEPT ![t] = NoCall]
  /\ Goto(t, "idle")
  /\ UNCHANGED <<window, sem, timeouts>>

Acts(t) ==
  \/ Lock(t) \/ CrbWinLock(t) \/ CrbWinLockTimeout(t) \/ SetCrbWindow(t)
  \/ ReadWx(t) \/ WriteWx(t) \/ ReadIoctl(t) \/ WriteIoctl(t)
  \/ CrbWinUnlock(t) \/ Unlock(t)

Next ==
  \E t \in Threads :
    \/ \E k \in Kinds, r \in Regs : GetCrbAddr(t, k, r)
    \/ Acts(t)

Spec == Init /\ [][Next]_vars
-----------------------------------------------------------------------------
TypeOK ==
  /\ window \in Windowed
  /\ lock \in [Funcs -> Threads \cup {NoThread}]
  /\ sem \in Threads \cup {NoThread}
  /\ call \in [Threads -> [kind : Kinds, reg : Regs]]
  /\ pc \in [Threads -> {"idle", "lock", "sem", "window", "access", "more",
                        "semfree", "unlock"}]
  /\ timeouts \in 0 .. MaxTimeouts

\* A thread is about to touch a register.
Accessing(t) == pc[t] \in {"access", "more"}

\* Until a wait for semaphore 7 is given up, a thread that reads or writes
\* through the aperture finds its own register there, whatever the threads of
\* all functions do at the time (read_wx_2M and its like set the window, and
\* use it in another step).
RightRegister ==
  timeouts = 0 => \A t \in Threads : Accessing(t) => Touches(t) = call[t].reg
=============================================================================
