-------------------------- MODULE CardAccessProofs --------------------------
(***************************************************************************)
(* Proofs about the access to a card (CrbWindow, LegacyWindow, MemAgent)   *)
(* by the threads of either driver, on each of the memory maps.            *)
(*                                                                         *)
(* On a 2 MB map, a thread that chose its window holds semaphore 7 until   *)
(* it is through, as long as no wait was given up; so nobody else moves    *)
(* the window between its two steps.  On a large map the writer of a       *)
(* function's adapter_lock is alone with the windows of the function.      *)
(* Exchanges with the memory agent that do not overlap have it to          *)
(* themselves, so that what a client wrote into it is there when it starts *)
(* it, and the word a short write is merged into is still in the memory    *)
(* when it is written back.                                                *)
(***************************************************************************)
EXTENDS XportAccess, TLAPS

\* The steps of a thread that goes through the aperture.
WindowSteps == {"lock", "sem", "window", "semfree", "unlock"}
InAperture(t) ==
  pc[t] \in {"window", "semfree"} \/ (Accessing(t) /\ ByWindow(t))

SemHeld ==
  /\ \A t \in Threads : pc[t] \in WindowSteps => ByWindow(t)
  /\ timeouts = 0 => \A t \in Threads : InAperture(t) => sem = t

WindowSet ==
  timeouts = 0 =>
    \A t \in Threads : Accessing(t) /\ ByWindow(t) => window = call[t].reg

RegInv == TypeOK /\ SemHeld /\ WindowSet

LEMMA InitRegInv == Init => RegInv
<1> SUFFICES ASSUME Init PROVE RegInv
  OBVIOUS
<1>1. \E r \in Direct : TRUE
  BY WindowAssumption
<1>2. AnyReg \in Direct
  BY <1>1 DEF AnyReg
<1>3. NoCall \in [kind : Kinds, reg : Regs]
  BY <1>2 DEF NoCall, Kinds, Regs
<1>4. TypeOK
  BY <1>3, WindowAssumption DEF Init, TypeOK
<1>5. \A t \in Threads : pc[t] = "idle"
  BY DEF Init
<1> QED
  BY <1>4, <1>5
  DEF RegInv, SemHeld, WindowSet, WindowSteps, InAperture, Accessing

\* The two kinds of word by word access leave the aperture, or go on in it.
LEMMA AccessStep ==
  ASSUME RegInv, NEW t \in Threads, Accessing(t),
         \/ Accessed(t)
         \/ Goto(t, "more") /\ UNCHANGED call,
         UNCHANGED <<window, lock, sem, timeouts>>
  PROVE  RegInv'
<1> USE DEF RegInv
<1>1. NoCall \in [kind : Kinds, reg : Regs]
  <2>1. \E r \in Direct : TRUE
    BY WindowAssumption
  <2>2. AnyReg \in Direct
    BY <2>1 DEF AnyReg
  <2> QED BY <2>2 DEF NoCall, Kinds, Regs
<1>2. CASE Goto(t, "more") /\ UNCHANGED call
  <2>1. TypeOK' BY <1>2 DEF TypeOK, Goto
  <2>2. SemHeld'
    BY <1>2 DEF SemHeld, TypeOK, Goto, WindowSteps, InAperture, Accessing, ByWindow
  <2>3. WindowSet'
    BY <1>2 DEF WindowSet, TypeOK, Goto, Accessing, ByWindow
  <2> QED BY <2>1, <2>2, <2>3
<1>3. CASE Accessed(t) /\ ByWindow(t)
  <2> USE <1>3 DEF Accessed
  <2>1. TypeOK' BY DEF TypeOK, Goto
  <2>2. SemHeld'
    BY DEF SemHeld, TypeOK, Goto, WindowSteps, InAperture, Accessing, ByWindow
  <2>3. WindowSet'
    BY DEF WindowSet, TypeOK, Goto, Accessing, ByWindow
  <2> QED BY <2>1, <2>2, <2>3
<1>4. CASE Accessed(t) /\ ~ByWindow(t)
  <2> USE <1>4 DEF Accessed
  <2>1. TypeOK' BY <1>1 DEF TypeOK, Goto
  <2>2. SemHeld'
    BY DEF SemHeld, TypeOK, Goto, WindowSteps, InAperture, Accessing, ByWindow
  <2>3. WindowSet'
    BY DEF WindowSet, TypeOK, Goto, Accessing, ByWindow
  <2> QED BY <2>1, <2>2, <2>3
<1> QED BY <1>2, <1>3, <1>4

LEMMA NextRegInv == RegInv /\ [Next]_vars => RegInv'
<1> SUFFICES ASSUME RegInv, [Next]_vars PROVE RegInv'
  OBVIOUS
<1> USE DEF RegInv, At, Goto
<1>1. ASSUME NEW t \in Threads, NEW k \in Kinds, NEW r \in Regs, GetCrbAddr(t, k, r)
      PROVE  RegInv'
  <2>1. TypeOK' BY <1>1 DEF TypeOK, GetCrbAddr
  <2>2. SemHeld'
    BY <1>1, WindowAssumption
    DEF SemHeld, TypeOK, GetCrbAddr, WindowSteps, InAperture, Accessing, ByWindow,
        Regs
  <2>3. WindowSet'
    BY <1>1, WindowAssumption DEF WindowSet, TypeOK, GetCrbAddr, Accessing, ByWindow
  <2> QED BY <2>1, <2>2, <2>3
<1>2. ASSUME NEW t \in Threads, Lock(t) PROVE RegInv'
  <2>1. TypeOK' BY <1>2, WindowAssumption DEF TypeOK, Lock
  <2>2. SemHeld'
    BY <1>2 DEF SemHeld, TypeOK, Lock, WindowSteps, InAperture, Accessing, ByWindow
  <2>3. WindowSet' BY <1>2 DEF WindowSet, TypeOK, Lock, Accessing, ByWindow
  <2> QED BY <2>1, <2>2, <2>3
<1>3. ASSUME NEW t \in Threads, CrbWinLock(t) PROVE RegInv'
  <2>1. TypeOK' BY <1>3 DEF TypeOK, CrbWinLock
  <2>2. SemHeld'
    BY <1>3, WindowAssumption
    DEF SemHeld, TypeOK, CrbWinLock, SemRead, WindowSteps, InAperture, Accessing,
        ByWindow
  <2>3. WindowSet' BY <1>3 DEF WindowSet, TypeOK, CrbWinLock, Accessing, ByWindow
  <2> QED BY <2>1, <2>2, <2>3
<1>4. ASSUME NEW t \in Threads, CrbWinLockTimeout(t) PROVE RegInv'
  <2>1. timeouts' # 0 BY <1>4, WindowAssumption DEF TypeOK, CrbWinLockTimeout
  <2>2. TypeOK' BY <1>4, WindowAssumption DEF TypeOK, CrbWinLockTimeout
  <2>3. SemHeld'
    BY <1>4, <2>1 DEF SemHeld, TypeOK, CrbWinLockTimeout, WindowSteps, ByWindow
  <2> QED BY <2>1, <2>2, <2>3 DEF WindowSet
<1>5. ASSUME NEW t \in Threads, SetCrbWindow(t) PROVE RegInv'
  <2>1. TypeOK'
    BY <1>5 DEF TypeOK, SemHeld, WindowSteps, SetCrbWindow, ByWindow
  <2>2. SemHeld'
    BY <1>5
    DEF SemHeld, TypeOK, SetCrbWindow, WindowSteps, InAperture, Accessing, ByWindow
  <2>3. ASSUME timeouts' = 0, NEW u \in Threads, Accessing(u)', ByWindow(u)'
        PROVE  u = t
    <3>1. sem' = u /\ sem' = t
      <4>1. InAperture(t) /\ sem = t
        BY <1>5, <2>3 DEF SemHeld, SetCrbWindow, InAperture
      <4>2. InAperture(u)' BY <2>3 DEF InAperture
      <4> QED BY <1>5, <2>2, <2>3, <4>1, <4>2 DEF SemHeld, SetCrbWindow
    <3> QED BY <3>1
  <2>4. window' = call[t].reg /\ call' = call /\ timeouts' = timeouts
    BY <1>5 DEF SetCrbWindow
  <2>5. WindowSet' BY <2>3, <2>4 DEF WindowSet
  <2> QED BY <2>1, <2>2, <2>5
<1>6. ASSUME NEW t \in Threads, ReadWx(t) PROVE RegInv'
  BY <1>6, AccessStep DEF ReadWx, Accessing
<1>7. ASSUME NEW t \in Threads, WriteWx(t) PROVE RegInv'
  BY <1>7, AccessStep DEF WriteWx, Accessing
<1>8. ASSUME NEW t \in Threads, ReadIoctl(t) PROVE RegInv'
  BY <1>8, AccessStep DEF ReadIoctl, Accessing
<1>9. ASSUME NEW t \in Threads, WriteIoctl(t) PROVE RegInv'
  BY <1>9, AccessStep DEF WriteIoctl, Accessing
<1>10. ASSUME NEW t \in Threads, CrbWinUnlock(t) PROVE RegInv'
  <2>1. TypeOK' BY <1>10 DEF TypeOK, CrbWinUnlock
  <2>2. ASSUME timeouts' = 0, NEW u \in Threads, InAperture(u)' PROVE sem' = u
    <3>1. u # t /\ pc'[u] = pc[u] /\ call' = call
      BY <1>10, <2>2 DEF TypeOK, CrbWinUnlock, InAperture, Accessing
    <3>2. InAperture(u) /\ InAperture(t) /\ timeouts = 0
      BY <1>10, <2>2, <3>1
      DEF CrbWinUnlock, InAperture, Accessing, ByWindow
    <3> QED BY <3>1, <3>2 DEF SemHeld
  <2>3. \A u \in Threads : pc'[u] \in WindowSteps => ByWindow(u)'
    BY <1>10 DEF SemHeld, TypeOK, CrbWinUnlock, WindowSteps, ByWindow
  <2>4. SemHeld' BY <2>2, <2>3 DEF SemHeld
  <2>5. WindowSet' BY <1>10 DEF WindowSet, TypeOK, CrbWinUnlock, Accessing, ByWindow
  <2> QED BY <2>1, <2>4, <2>5
<1>11. ASSUME NEW t \in Threads, Unlock(t) PROVE RegInv'
  <2>1. NoCall \in [kind : Kinds, reg : Regs]
    <3>1. \E r \in Direct : TRUE
      BY WindowAssumption
    <3>2. AnyReg \in Direct
      BY <3>1 DEF AnyReg
    <3> QED BY <3>2 DEF NoCall, Kinds, Regs
  <2>2. TypeOK' BY <1>11, <2>1, WindowAssumption DEF TypeOK, Unlock
  <2>3. SemHeld'
    BY <1>11
    DEF SemHeld, TypeOK, Unlock, WindowSteps, InAperture, Accessing, ByWindow
  <2>4. WindowSet' BY <1>11 DEF WindowSet, TypeOK, Unlock, Accessing, ByWindow
  <2> QED BY <2>2, <2>3, <2>4
<1>12. CASE UNCHANGED vars
  BY <1>12 DEF vars, TypeOK, SemHeld, WindowSet, WindowSteps, InAperture, Accessing,
     ByWindow
<1> QED
  BY <1>1, <1>2, <1>3, <1>4, <1>5, <1>6, <1>7, <1>8, <1>9, <1>10, <1>11, <1>12
  DEF Next, Acts
-----------------------------------------------------------------------------
LEMMA Sane ==
  /\ NoThread \notin Threads
  /\ FuncOf \in [Threads -> Funcs]
  /\ SnZero \in SnWindows /\ "none" \notin SnWindows
BY WindowAssumption, LegacyAssumption

\* What a thread of either driver may do on a large map.
LegacyNext ==
  \/ Legacy!Next
  \/ \E t \in Users : ReadNormalize(t) \/ NormalizeDone(t)
  \/ UNCHANGED legacyVars

Labels == {"idle", "rdlock", "wrlock", "window1", "window0", "change0", "change1",
           "agent", "poll", "setsn", "relock", "direct", "page", "wrunlock",
           "normalize"}
InWindow0 == {"window0", "agent", "poll", "change1"}
Writing == InWindow0 \cup {"change0", "setsn", "direct", "page", "wrunlock"}

LegacyTypes ==
  /\ hwin \in [Funcs -> {0, 1}]
  /\ curr \in [Funcs -> {0, 1, Legacy!Invalid}]
  /\ sn \in [Funcs -> SnWindows]
  /\ qdr \in [Funcs -> SnWindows \cup {"none"}]
  /\ readers \subseteq Threads
  /\ writer \in [Funcs -> Threads \cup {NoThread}]
  /\ agent \in Threads \cup {NoThread}
  /\ job \in [Threads -> Legacy!Jobs]
  /\ overlap \in [Threads -> BOOLEAN] /\ guessed \subseteq Funcs
  /\ lpc \in [Threads -> Labels]

\* Only a thread with a direct access to the memory gets to the SN window.
Direction ==
  \A t \in Threads : lpc[t] \in {"setsn", "direct"} => job[t].kind = "direct"

Locked ==
  \A t \in Threads :
    /\ lpc[t] \in Writing => writer[FuncOf[t]] = t
    /\ lpc[t] = "window1" => t \in readers
Excluded ==
  \A t \in Threads : t \in readers => writer[FuncOf[t]] = NoThread

\* While the writer of a function is in window 0 the window is 0, and otherwise
\* it is 1 if the driver knows it at all.
Shown ==
  /\ \A t \in Threads : lpc[t] \in InWindow0 =>
       hwin[FuncOf[t]] = 0 /\ curr[FuncOf[t]] \in {0, Legacy!Invalid}
  /\ \A f \in Funcs :
       \/ \E t \in Threads : FuncOf[t] = f /\ lpc[t] \in InWindow0
       \/ curr[f] = 1 /\ hwin[f] = 1
       \/ curr[f] = Legacy!Invalid

\* The SN window that the driver believes in is the one that the card shows, or it is
\* window 0, taken for granted.
SnKnown ==
  \A f \in Funcs : \/ qdr[f] = "none" \/ sn[f] = qdr[f]
                   \/ f \in guessed /\ qdr[f] = SnZero

LegacyInv ==
  /\ LegacyTypes /\ Direction /\ Locked /\ Excluded /\ Shown
  /\ SnKnown /\ Legacy!RightSn /\ Legacy!AgentMine

LEMMA NoJobOK == Legacy!NoJob \in Legacy!Jobs
BY DEF Legacy!NoJob, Legacy!Jobs

LEMMA InitLegacyInv == Legacy!Init => LegacyInv
<1> SUFFICES ASSUME Legacy!Init PROVE LegacyInv
  OBVIOUS
<1>1. LegacyTypes
  BY NoJobOK, Sane DEF Legacy!Init, LegacyTypes, Labels
<1>2. /\ Direction /\ Locked /\ Excluded /\ Shown
      /\ SnKnown /\ Legacy!RightSn /\ Legacy!AgentMine
  BY Sane DEF Legacy!Init, Direction, Locked, Excluded, Shown, Writing, InWindow0,
     SnKnown, Legacy!RightSn, Legacy!AgentMine, Legacy!At
<1> QED BY <1>1, <1>2 DEF LegacyInv

LEMMA LegacyTypeStep == LegacyTypes /\ Direction /\ LegacyNext => LegacyTypes'
<1> SUFFICES ASSUME LegacyTypes, Direction, LegacyNext PROVE LegacyTypes'
  OBVIOUS
<1> USE NoJobOK
       
DEF LegacyTypes, Labels, Legacy!At, Legacy!Goto, Legacy!Done, Legacy!Ends, Legacy!windows,
            Legacy!locks
<1>1. ASSUME NEW t \in Threads, NEW j \in Legacy!Jobs, Legacy!Begin(t, j)
      PROVE  LegacyTypes'
  BY <1>1 DEF Legacy!Begin
<1>2. ASSUME NEW t \in Threads,
             Legacy!ReadLock(t) \/ Legacy!WriteLock(t) \/ Legacy!MemRelock(t)
      PROVE  LegacyTypes'
  <2>1. CASE Legacy!ReadLock(t)
    BY <2>1 DEF Legacy!ReadLock
  <2>2. CASE Legacy!WriteLock(t)
    BY <2>2, Sane DEF Legacy!WriteLock
  <2>3. CASE Legacy!MemRelock(t)
    BY <2>3, Sane DEF Legacy!MemRelock
  <2> QED BY <1>2, <2>1, <2>2, <2>3
<1>3. ASSUME NEW t \in Threads, Legacy!ChangeTo0(t) \/ Legacy!ChangeTo1(t)
      PROVE  LegacyTypes'
  BY <1>3, Sane DEF Legacy!ChangeTo0, Legacy!ChangeTo1, Legacy!ChangeTo
<1>4. ASSUME NEW t \in Threads,
             \/ Legacy!Window0(t) \/ Legacy!Window1(t) \/ Legacy!WriteUnlock(t)
             \/ Legacy!AgentDone(t) \/ Legacy!MemAccess(t) \/ Legacy!AgentProgram(t)
      PROVE  LegacyTypes'
  <2>1. CASE Legacy!Window0(t)
    BY <2>1 DEF Legacy!Window0
  <2>2. CASE Legacy!Window1(t)
    BY <2>2 DEF Legacy!Window1
  <2>3. CASE Legacy!WriteUnlock(t)
    BY <2>3 DEF Legacy!WriteUnlock
  <2>4. CASE Legacy!AgentDone(t)
    BY <2>4 DEF Legacy!AgentDone
  <2>5. CASE Legacy!MemAccess(t)
    BY <2>5 DEF Legacy!MemAccess
  <2>6. CASE Legacy!AgentProgram(t)
    BY <2>6 DEF Legacy!AgentProgram
  <2> QED BY <1>4, <2>1, <2>2, <2>3, <2>4, <2>5, <2>6
<1>5. ASSUME NEW t \in Threads, Legacy!MemDirect(t) \/ Legacy!MemDirectRefused(t)
      PROVE  LegacyTypes'
  <2>1. job[t].sn \in SnWindows
    <3>1. job[t].kind = "direct"
      BY <1>5 DEF Legacy!MemDirect, Legacy!MemDirectRefused, Direction
    <3> QED BY <3>1 DEF Legacy!Jobs
  <2>2. CASE Legacy!MemDirectRefused(t)
    BY <2>1, <2>2, Sane DEF Legacy!MemDirectRefused, Legacy!SetSn
  <2>3. CASE Legacy!MemDirect(t)
    <3>1. /\ qdr' \in [Funcs -> SnWindows \cup {"none"}]
          /\ sn' \in [Funcs -> SnWindows]
      BY <2>1, <2>3, Sane DEF Legacy!MemDirect, Legacy!SetSn
    <3>2. guessed' \subseteq Funcs
      BY <2>3 DEF Legacy!MemDirect, Legacy!SetSn
    <3>3. writer' \in [Funcs -> Threads \cup {NoThread}]
      BY <2>3 DEF Legacy!MemDirect
    <3>4. job' \in [Threads -> Legacy!Jobs] /\ overlap' \in [Threads -> BOOLEAN]
      <4>1. CASE UNCHANGED <<job, overlap>>
        BY <4>1
      <4>2. CASE /\ job' = [job EXCEPT ![t] = Legacy!NoJob]
                 /\ overlap' = [overlap EXCEPT ![t] = FALSE]
        BY <4>2
      <4> QED BY <2>3, <4>1, <4>2 DEF Legacy!MemDirect
    <3>5. lpc' \in [Threads -> Labels]
      BY <2>3 DEF Legacy!MemDirect
    <3>6. UNCHANGED <<hwin, curr, readers, agent>>
      BY <2>3 DEF Legacy!MemDirect
    <3> QED BY <3>1, <3>2, <3>3, <3>4, <3>5, <3>6
  <2> QED BY <1>5, <2>2, <2>3
<1>6. ASSUME NEW f \in Funcs, Legacy!Forget(f) \/ Legacy!AttachAgain(f) PROVE LegacyTypes'
  BY <1>6, Sane DEF Legacy!Forget, Legacy!AttachAgain
<1>7. ASSUME NEW t \in Users, ReadNormalize(t) \/ NormalizeDone(t) PROVE LegacyTypes'
  BY <1>7 DEF ReadNormalize, NormalizeDone
<1>8. CASE UNCHANGED legacyVars
  BY <1>8 DEF legacyVars
<1> QED
  BY <1>1, <1>2, <1>3, <1>4, <1>5, <1>6, <1>7, <1>8 DEF LegacyNext, Legacy!Next

\* The job of a thread and what it waits for.
LEMMA DirectionStep == LegacyInv /\ LegacyNext => Direction'
<1> SUFFICES ASSUME LegacyInv, LegacyNext PROVE Direction'
  OBVIOUS
<1> USE DEF LegacyInv, LegacyTypes, Direction, Legacy!At, Legacy!Goto, Legacy!Done, Legacy!Ends,
            Legacy!NoJob, Legacy!Kind
<1>1. ASSUME NEW t \in Threads, NEW j \in Legacy!Jobs, Legacy!Begin(t, j)
      PROVE  Direction'
  BY <1>1 DEF Legacy!Begin
<1>2. ASSUME NEW t \in Threads,
             \/ Legacy!ReadLock(t) \/ Legacy!WriteLock(t)
             \/ Legacy!MemRelock(t) \/ Legacy!WriteUnlock(t)
      PROVE  Direction'
  BY <1>2
  DEF Legacy!ReadLock, Legacy!WriteLock, Legacy!MemRelock, Legacy!WriteUnlock
<1>3. ASSUME NEW t \in Threads, Legacy!ChangeTo0(t) \/ Legacy!ChangeTo1(t)
      PROVE  Direction'
  BY <1>3 DEF Legacy!ChangeTo0, Legacy!ChangeTo1
<1>4. ASSUME NEW t \in Threads,
             \/ Legacy!Window0(t) \/ Legacy!Window1(t) \/ Legacy!AgentDone(t)
             \/ Legacy!MemAccess(t) \/ Legacy!AgentProgram(t)
      PROVE  Direction'
  BY <1>4
  DEF Legacy!Window0, Legacy!Window1, Legacy!AgentDone, Legacy!MemAccess,
      Legacy!AgentProgram
<1>5. ASSUME NEW t \in Threads, Legacy!MemDirect(t) \/ Legacy!MemDirectRefused(t)
      PROVE  Direction'
  BY <1>5 DEF Legacy!MemDirect, Legacy!MemDirectRefused
<1>6. ASSUME NEW t \in Users, ReadNormalize(t) \/ NormalizeDone(t) PROVE Direction'
  BY <1>6 DEF ReadNormalize, NormalizeDone
<1>7. CASE UNCHANGED legacyVars \/ \E f \in Funcs : Legacy!Forget(f) \/ Legacy!AttachAgain(f)
  BY <1>7 DEF legacyVars, Legacy!Forget, Legacy!AttachAgain, Legacy!locks
<1> QED
  BY <1>1, <1>2, <1>3, <1>4, <1>5, <1>6, <1>7 DEF LegacyNext, Legacy!Next

\* The lock that a thread holds while it is between lock and unlock.
LEMMA LockStep == LegacyInv /\ LegacyNext => Locked' /\ Excluded'
<1> SUFFICES ASSUME LegacyInv, LegacyNext PROVE Locked' /\ Excluded'
  OBVIOUS
<1> USE DEF LegacyInv, LegacyTypes, Locked, Excluded, Legacy!At, Legacy!Goto,
            Legacy!Done, Legacy!Ends, Legacy!NoJob, Legacy!Kind, Writing, InWindow0,
            Legacy!windows, Legacy!locks
<1>1. ASSUME NEW t \in Threads, NEW j \in Legacy!Jobs, Legacy!Begin(t, j)
      PROVE  Locked' /\ Excluded'
  BY <1>1 DEF Legacy!Begin
<1>2. ASSUME NEW t \in Threads, Legacy!ReadLock(t) PROVE Locked' /\ Excluded'
  BY <1>2, Sane DEF Legacy!ReadLock
<1>3. ASSUME NEW t \in Threads, Legacy!WriteLock(t) \/ Legacy!MemRelock(t)
      PROVE  Locked' /\ Excluded'
  BY <1>3, Sane DEF Legacy!WriteLock, Legacy!MemRelock, Legacy!Mine
<1>4. ASSUME NEW t \in Threads, Legacy!WriteUnlock(t) PROVE Locked' /\ Excluded'
  BY <1>4, Sane DEF Legacy!WriteUnlock
<1>5. ASSUME NEW t \in Threads, Legacy!Window1(t) PROVE Locked' /\ Excluded'
  BY <1>5 DEF Legacy!Window1
<1>6. ASSUME NEW t \in Threads, Legacy!MemDirect(t) PROVE Locked' /\ Excluded'
  BY <1>6, Sane DEF Legacy!MemDirect
<1>7. ASSUME NEW t \in Threads,
             \/ Legacy!ChangeTo0(t) \/ Legacy!ChangeTo1(t) \/ Legacy!Window0(t)
             \/ Legacy!AgentProgram(t) \/ Legacy!AgentDone(t)
             \/ Legacy!MemDirectRefused(t) \/ Legacy!MemAccess(t)
      PROVE  Locked' /\ Excluded'
  BY <1>7
  DEF Legacy!ChangeTo0, Legacy!ChangeTo1, Legacy!Window0, Legacy!AgentProgram,
      Legacy!AgentDone, Legacy!MemDirectRefused, Legacy!MemAccess
<1>8. ASSUME NEW t \in Users, ReadNormalize(t) \/ NormalizeDone(t)
      PROVE  Locked' /\ Excluded'
  BY <1>8 DEF ReadNormalize, NormalizeDone
<1>9. CASE UNCHANGED legacyVars \/ \E f \in Funcs : Legacy!Forget(f) \/ Legacy!AttachAgain(f)
  BY <1>9 DEF legacyVars, Legacy!Forget, Legacy!AttachAgain, Legacy!locks
<1> QED
  BY <1>1, <1>2, <1>3, <1>4, <1>5, <1>6, <1>7, <1>8, <1>9
  DEF LegacyNext, Legacy!Next

\* Nobody but the writer of a function is between its lock and its unlock.
LEMMA OneWriter ==
  ASSUME LegacyInv, NEW t \in Threads, lpc[t] \in Writing
  PROVE  \A u \in Threads \ {t} : lpc[u] \in Writing => FuncOf[u] # FuncOf[t]
BY Sane DEF LegacyInv, Locked

\* What the window register shows.
LEMMA ShownStep == LegacyInv /\ LegacyNext => Shown'
<1> SUFFICES ASSUME LegacyInv, LegacyNext PROVE Shown'
  OBVIOUS
<1> USE DEF LegacyInv, LegacyTypes, Shown, Legacy!At, Legacy!Goto, Legacy!Done, Legacy!Ends,
            Legacy!NoJob, Legacy!Kind, InWindow0, Legacy!windows, Legacy!locks,
            Legacy!Invalid
<1>1. ASSUME NEW t \in Threads, NEW j \in Legacy!Jobs, Legacy!Begin(t, j) PROVE Shown'
  BY <1>1 DEF Legacy!Begin
<1>2. ASSUME NEW t \in Threads,
             \/ Legacy!ReadLock(t) \/ Legacy!WriteLock(t) \/ Legacy!MemRelock(t)
             \/ Legacy!WriteUnlock(t) \/ Legacy!Window1(t)
      PROVE  Shown'
  BY <1>2
  DEF Legacy!ReadLock, Legacy!WriteLock, Legacy!MemRelock, Legacy!WriteUnlock,
      Legacy!Window1
<1>3. ASSUME NEW t \in Threads, Legacy!ChangeTo0(t) PROVE Shown'
  <2>1. \A u \in Threads : lpc[u] \in InWindow0 => FuncOf[u] # FuncOf[t]
    BY <1>3, OneWriter DEF Legacy!ChangeTo0, Writing
  <2>2. FuncOf[t] \in Funcs
    BY Sane
  <2> QED BY <1>3, <2>1, <2>2, Sane DEF Legacy!ChangeTo0, Legacy!ChangeTo
<1>4. ASSUME NEW t \in Threads, Legacy!ChangeTo1(t) PROVE Shown'
  <2>1. \A u \in Threads : lpc[u] \in InWindow0 /\ u # t => FuncOf[u] # FuncOf[t]
    BY <1>4, OneWriter DEF Legacy!ChangeTo1, Writing
  <2>2. FuncOf[t] \in Funcs
    BY Sane
  <2> QED BY <1>4, <2>1, <2>2, Sane DEF Legacy!ChangeTo1, Legacy!ChangeTo
<1>5. ASSUME NEW t \in Threads,
             Legacy!Window0(t) \/ Legacy!AgentProgram(t) \/ Legacy!AgentDone(t)
      PROVE  Shown'
  BY <1>5 DEF Legacy!Window0, Legacy!AgentProgram, Legacy!AgentDone
<1>6. ASSUME NEW t \in Threads,
             Legacy!MemDirect(t) \/ Legacy!MemDirectRefused(t) \/ Legacy!MemAccess(t)
      PROVE  Shown'
  <2>1. UNCHANGED <<hwin, curr>>
    BY <1>6 DEF Legacy!MemDirect, Legacy!MemDirectRefused, Legacy!MemAccess
  <2>2. \A u \in Threads : lpc'[u] \in InWindow0 <=> lpc[u] \in InWindow0
    <3>1. lpc[t] \in {"setsn", "direct", "page"}
      BY <1>6 DEF Legacy!MemDirect, Legacy!MemDirectRefused, Legacy!MemAccess
    <3>2. \/ lpc' = [lpc EXCEPT ![t] = "idle"] \/ lpc' = [lpc EXCEPT ![t] = "direct"]
          \/ lpc' = [lpc EXCEPT ![t] = "relock"] \/ lpc' = [lpc EXCEPT ![t] = "wrunlock"]
      BY <1>6 DEF Legacy!MemDirect, Legacy!MemDirectRefused, Legacy!MemAccess
    <3> QED BY <3>1, <3>2
  <2> QED BY <2>1, <2>2
<1>7. ASSUME NEW f \in Funcs, Legacy!Forget(f) \/ Legacy!AttachAgain(f)
      PROVE  Shown'
  <2>1. UNCHANGED <<hwin, lpc>> /\ curr' = [curr EXCEPT ![f] = 255]
    BY <1>7 DEF Legacy!Forget, Legacy!AttachAgain
  <2> QED BY <2>1
<1>8. ASSUME NEW t \in Users, ReadNormalize(t) \/ NormalizeDone(t) PROVE Shown'
  BY <1>8, MemoryAssumption DEF ReadNormalize, NormalizeDone
<1>9. CASE UNCHANGED legacyVars
  BY <1>9 DEF legacyVars
<1> QED
  BY <1>1, <1>2, <1>3, <1>4, <1>5, <1>6, <1>7, <1>8, <1>9
  DEF LegacyNext, Legacy!Next

\* The SN window of a function, which only its writer moves.
LEMMA SnStep == LegacyInv /\ LegacyNext => SnKnown' /\ Legacy!RightSn'
<1> SUFFICES ASSUME LegacyInv, LegacyNext PROVE SnKnown' /\ Legacy!RightSn'
  OBVIOUS
<1> USE DEF LegacyInv, LegacyTypes, SnKnown, Legacy!RightSn, Legacy!At, Legacy!Goto,
            Legacy!Done, Legacy!Ends, Legacy!windows, Legacy!locks
<1>1. ASSUME NEW t \in Threads, NEW j \in Legacy!Jobs, Legacy!Begin(t, j)
      PROVE  SnKnown' /\ Legacy!RightSn'
  BY <1>1 DEF Legacy!Begin
<1>2. ASSUME NEW t \in Threads,
             \/ Legacy!ReadLock(t) \/ Legacy!WriteLock(t)
             \/ Legacy!WriteUnlock(t) \/ Legacy!Window1(t)
      PROVE  SnKnown' /\ Legacy!RightSn'
  BY <1>2
  DEF Legacy!ReadLock, Legacy!WriteLock, Legacy!WriteUnlock, Legacy!Window1
<1>3. ASSUME NEW t \in Threads,
             \/ Legacy!ChangeTo0(t) \/ Legacy!ChangeTo1(t) \/ Legacy!Window0(t)
             \/ Legacy!AgentProgram(t) \/ Legacy!AgentDone(t) \/ Legacy!MemAccess(t)
      PROVE  SnKnown' /\ Legacy!RightSn'
  BY <1>3
  DEF Legacy!ChangeTo0, Legacy!ChangeTo1, Legacy!Window0, Legacy!AgentProgram,
      Legacy!AgentDone, Legacy!MemAccess
<1>4. ASSUME NEW t \in Threads, lpc[t] = "setsn", Legacy!SetSn(FuncOf[t], job[t].sn)
      PROVE  /\ SnKnown'
             /\ \/ sn'[FuncOf[t]] = job[t].sn
                \/ FuncOf[t] \in guessed' /\ job[t].sn = SnZero
             /\ \A u \in Threads \ {t} : lpc[u] = "direct" =>
                  /\ sn'[FuncOf[u]] = sn[FuncOf[u]]
                  /\ FuncOf[u] \in guessed => FuncOf[u] \in guessed'
  <2>1. job[t].sn # "none"
    <3>1. job[t].kind = "direct"
      BY <1>4 DEF Direction
    <3> QED BY <3>1, Sane DEF Legacy!Jobs
  <2>2. \A u \in Threads \ {t} : lpc[u] = "direct" => FuncOf[u] # FuncOf[t]
    BY <1>4, OneWriter DEF Writing
  <2> QED BY <1>4, <2>1, <2>2, Sane DEF Legacy!SetSn
<1>5. ASSUME NEW t \in Threads, Legacy!MemDirect(t) PROVE SnKnown' /\ Legacy!RightSn'
  BY <1>4, <1>5 DEF Legacy!MemDirect
<1>6. ASSUME NEW t \in Threads, Legacy!MemDirectRefused(t)
      PROVE  SnKnown' /\ Legacy!RightSn'
  <2>1. CASE Legacy!SetSn(FuncOf[t], job[t].sn)
    BY <1>4, <1>6, <2>1 DEF Legacy!MemDirectRefused
  <2>2. CASE UNCHANGED <<sn, qdr, guessed>>
    BY <1>6, <2>2 DEF Legacy!MemDirectRefused
  <2> QED BY <1>6, <2>1, <2>2 DEF Legacy!MemDirectRefused
<1>7. ASSUME NEW t \in Threads, Legacy!MemRelock(t) PROVE SnKnown' /\ Legacy!RightSn'
  BY <1>7 DEF Legacy!MemRelock, Direction
<1>8. ASSUME NEW f \in Funcs, Legacy!Forget(f) \/ Legacy!AttachAgain(f)
      PROVE  SnKnown' /\ Legacy!RightSn'
  BY <1>8 DEF Legacy!Forget, Legacy!AttachAgain
<1>9. ASSUME NEW t \in Users, ReadNormalize(t) \/ NormalizeDone(t)
      PROVE  SnKnown' /\ Legacy!RightSn'
  BY <1>9 DEF ReadNormalize, NormalizeDone
<1>10. CASE UNCHANGED legacyVars
  BY <1>10 DEF legacyVars
<1> QED
  BY <1>1, <1>2, <1>3, <1>5, <1>6, <1>7, <1>8, <1>9, <1>10
  DEF LegacyNext, Legacy!Next

\* The agent works for the thread of this function that waits for it.
LEMMA AgentStep == LegacyInv /\ LegacyNext => Legacy!AgentMine'
<1> SUFFICES ASSUME LegacyInv, LegacyNext PROVE Legacy!AgentMine'
  OBVIOUS
<1> USE DEF LegacyInv, LegacyTypes, Legacy!AgentMine, Legacy!At, Legacy!Goto,
            Legacy!Done, Legacy!Ends, Legacy!windows, Legacy!locks
<1>1. ASSUME NEW t \in Threads, NEW j \in Legacy!Jobs, Legacy!Begin(t, j)
      PROVE  Legacy!AgentMine'
  BY <1>1 DEF Legacy!Begin
<1>2. ASSUME NEW t \in Threads,
             \/ Legacy!ReadLock(t) \/ Legacy!WriteLock(t) \/ Legacy!MemRelock(t)
             \/ Legacy!WriteUnlock(t) \/ Legacy!Window1(t)
      PROVE  Legacy!AgentMine'
  BY <1>2
  DEF Legacy!ReadLock, Legacy!WriteLock, Legacy!MemRelock, Legacy!WriteUnlock,
      Legacy!Window1
<1>3. ASSUME NEW t \in Threads,
             \/ Legacy!ChangeTo0(t) \/ Legacy!ChangeTo1(t) \/ Legacy!Window0(t)
             \/ Legacy!AgentDone(t) \/ Legacy!MemAccess(t)
             \/ Legacy!MemDirect(t) \/ Legacy!MemDirectRefused(t)
      PROVE  Legacy!AgentMine'
  BY <1>3
  DEF Legacy!ChangeTo0, Legacy!ChangeTo1, Legacy!Window0, Legacy!AgentDone,
      Legacy!MemAccess, Legacy!MemDirect, Legacy!MemDirectRefused
<1>4. ASSUME NEW t \in Threads, Legacy!AgentProgram(t) PROVE Legacy!AgentMine'
  <2>1. \A u \in Threads \ {t} : lpc[u] = "poll" => FuncOf[u] # FuncOf[t]
    BY <1>4, OneWriter DEF Legacy!AgentProgram, Writing, InWindow0
  <2> QED BY <1>4, <2>1 DEF Legacy!AgentProgram
<1>5. ASSUME NEW f \in Funcs, Legacy!Forget(f) \/ Legacy!AttachAgain(f)
      PROVE  Legacy!AgentMine'
  BY <1>5 DEF Legacy!Forget, Legacy!AttachAgain
<1>6. ASSUME NEW t \in Users, ReadNormalize(t) \/ NormalizeDone(t)
      PROVE  Legacy!AgentMine'
  BY <1>6 DEF ReadNormalize, NormalizeDone
<1>7. CASE UNCHANGED legacyVars
  BY <1>7 DEF legacyVars
<1> QED
  BY <1>1, <1>2, <1>3, <1>4, <1>5, <1>6, <1>7 DEF LegacyNext, Legacy!Next

LEMMA LegacyStep == LegacyInv /\ LegacyNext => LegacyInv'
BY LegacyTypeStep, DirectionStep, LockStep, ShownStep, SnStep, AgentStep
DEF LegacyInv

\* What the invariant says of those that touch registers or memory.
LEMMA LegacyInvRight == LegacyInv => RightWindow
<1> SUFFICES ASSUME LegacyInv PROVE RightWindow
  OBVIOUS
<1>1. Legacy!RightHalf
  <2> SUFFICES ASSUME NEW t \in Threads
               PROVE  /\ lpc[t] \in {"window0", "agent", "poll"} => hwin[FuncOf[t]] = 0
                      /\ lpc[t] = "window1" => \/ hwin[FuncOf[t]] = 1
                                               \/ curr[FuncOf[t]] = Legacy!Invalid
    BY DEF Legacy!RightHalf, Legacy!At
  <2>1. lpc[t] \in {"window0", "agent", "poll"} => hwin[FuncOf[t]] = 0
    BY DEF LegacyInv, Shown, InWindow0
  <2>2. ASSUME lpc[t] = "window1"
        PROVE  hwin[FuncOf[t]] = 1 \/ curr[FuncOf[t]] = Legacy!Invalid
    <3>1. writer[FuncOf[t]] = NoThread
      BY <2>2 DEF LegacyInv, Locked, Excluded
    <3>2. ~ \E u \in Threads : FuncOf[u] = FuncOf[t] /\ lpc[u] \in InWindow0
      BY <3>1, Sane DEF LegacyInv, Locked, Writing
    <3> QED BY <3>2, Sane DEF LegacyInv, Shown
  <2> QED BY <2>1, <2>2
<1>2. UnlockedRead
  <2> SUFFICES ASSUME NEW t \in Threads, writer[FuncOf[t]] = NoThread
               PROVE  hwin[FuncOf[t]] = 1 \/ curr[FuncOf[t]] = Legacy!Invalid
    BY DEF UnlockedRead
  <2>1. ~ \E u \in Threads : FuncOf[u] = FuncOf[t] /\ lpc[u] \in InWindow0
    BY Sane DEF LegacyInv, Locked, Writing
  <2> QED BY <2>1, Sane DEF LegacyInv, Shown
<1> QED BY <1>1, <1>2 DEF RightWindow, LegacyRight, LegacyInv
-----------------------------------------------------------------------------
\* What a word of the memory or of a client holds.
Contents == [Parts -> Values \cup {CHOOSE v \in Values : TRUE}]
ReadSteps == {"raddr", "rstart", "rpoll", "rddata"}
WriteSteps == {"waddr", "data", "wstart", "wpoll"}
Exchange == {"data", "rstart", "wstart", "rpoll", "wpoll", "rddata"}

AgentTypeOK ==
  /\ mem \in [Words -> Contents] /\ meant \in [Words -> Contents]
  /\ addr \in Words /\ data \in Contents /\ busy \in BOOLEAN
  /\ word \in [Users -> Contents]
  /\ access \in [Users -> Memory!Accesses \cup {Memory!NoAccess}]
  /\ cpc \in [Users -> {"idle"} \cup ReadSteps \cup WriteSteps]
  /\ mixed \in BOOLEAN /\ gaveUp \in Nat

Fits ==
  \A c \in Users :
    /\ cpc[c] # "idle" => access[c] \in Memory!Accesses
    /\ cpc[c] \in ReadSteps => access[c].kind \in {"read", "short"}
    /\ cpc[c] \in WriteSteps => access[c].kind \in {"write", "short"}

OneExchange ==
  ~mixed => \A c, d \in Users : Memory!InExchange(c) /\ Memory!InExchange(d) => c = d

\* What a client writes, of its own or into the word that is in the memory.
Built(c) ==
  IF access[c].kind = "write" THEN [p \in Parts |-> access[c].value]
  ELSE [meant[access[c].at] EXCEPT ![access[c].part] = access[c].value]

Calm == ~mixed /\ gaveUp = 0
AddrSet(c) == cpc[c] \in Exchange => addr = access[c].at
DataSet(c) == cpc[c] \in {"wstart", "wpoll"} => data = word[c]
WordBuilt(c) == cpc[c] \in WriteSteps => word[c] = Built(c)
Answered(c) ==
  /\ cpc[c] = "rpoll" => op = "read" /\ (busy \/ data = mem[addr])
  /\ cpc[c] = "wpoll" => op = "write" /\ (busy \/ mem = [meant EXCEPT ![addr] = data])
  /\ cpc[c] = "rddata" => data = mem[addr]
Registers ==
  Calm => \A c \in Users : AddrSet(c) /\ DataSet(c) /\ WordBuilt(c) /\ Answered(c)

Polled == Calm /\ busy => \E c \in Users : cpc[c] \in {"rpoll", "wpoll"}
MemMeant == Calm /\ (\A c \in Users : cpc[c] = "wpoll" => busy) => mem = meant

MemInv == AgentTypeOK /\ Fits /\ OneExchange /\ Registers /\ Polled /\ MemMeant
-----------------------------------------------------------------------------
LEMMA AccessFields ==
  ASSUME NEW a \in Memory!Accesses
  PROVE  /\ a.at \in Words /\ a.kind \in {"read", "write", "short"}
         /\ a.kind \in {"write", "short"} => a.value \in Values
         /\ a.kind = "short" => a.part \in Parts
         /\ a # Memory!NoAccess
BY DEF Memory!Accesses, Memory!NoAccess

LEMMA ZeroTyped == Memory!Zero \in Contents
BY DEF Memory!Zero, Contents

\* What is built is a word, whatever the memory holds.
LEMMA BuiltTyped ==
  ASSUME AgentTypeOK, Fits, NEW c \in Users, cpc[c] \in WriteSteps
  PROVE  Built(c) \in Contents
<1>1. access[c] \in Memory!Accesses /\ access[c].kind \in {"write", "short"}
  BY DEF Fits, WriteSteps
<1>2. meant[access[c].at] \in Contents /\ access[c].value \in Values
  BY <1>1, AccessFields DEF AgentTypeOK
<1>3. [p \in Parts |-> access[c].value] \in Contents
  BY <1>2 DEF Contents
<1>4. [meant[access[c].at] EXCEPT ![access[c].part] = access[c].value] \in Contents
  BY <1>2 DEF Contents
<1> QED BY <1>3, <1>4 DEF Built

\* In an exchange nobody else is.
LEMMA Alone ==
  ASSUME MemInv, Calm, NEW c \in Users, Memory!InExchange(c)
  PROVE  \A d \in Users \ {c} :
           /\ ~Memory!InExchange(d) /\ cpc[d] \notin Exchange
           /\ cpc[d] = "waddr" => access[d].kind = "write"
<1>1. \A d \in Users \ {c} : ~Memory!InExchange(d)
  BY DEF MemInv, OneExchange, Calm
<1> QED BY <1>1 DEF Memory!InExchange, Exchange, MemInv, Fits, WriteSteps

\* What a client finds when another one takes a step: what it left, as long as the
\* registers are left alone, or it is in no exchange.
LEMMA OtherKeeps ==
  ASSUME MemInv, Calm, NEW d \in Users,
         cpc'[d] = cpc[d], access'[d] = access[d], word'[d] = word[d],
         cpc[d] \in Exchange => UNCHANGED <<mem, addr, data, op, busy>>,
         cpc[d] \in Exchange \/ (cpc[d] = "waddr" /\ access[d].kind # "write")
           => UNCHANGED meant
  PROVE  AddrSet(d)' /\ DataSet(d)' /\ WordBuilt(d)' /\ Answered(d)'
<1>1. AddrSet(d) /\ DataSet(d) /\ WordBuilt(d) /\ Answered(d)
  BY DEF MemInv, Registers
<1>2. CASE cpc[d] \in Exchange
  <2>1. Built(d)' = Built(d)
    BY <1>2 DEF Built
  <2> QED
    BY <1>1, <1>2, <2>1 DEF AddrSet, DataSet, WordBuilt, Answered
<1>3. CASE cpc[d] \notin Exchange
  <2>1. AddrSet(d)' /\ DataSet(d)' /\ Answered(d)'
    BY <1>3 DEF AddrSet, DataSet, Answered, Exchange
  <2>2. CASE cpc[d] = "waddr"
    <3>1. Built(d)' = Built(d)
      BY <2>2 DEF Built
    <3> QED BY <1>1, <2>1, <3>1 DEF WordBuilt
  <2>3. CASE cpc[d] # "waddr"
    BY <1>3, <2>1, <2>3 DEF WordBuilt, WriteSteps, Exchange
  <2> QED BY <2>2, <2>3
<1> QED BY <1>2, <1>3

LEMMA InitMemInv == Memory!AgentInit => MemInv
<1> SUFFICES ASSUME Memory!AgentInit PROVE MemInv
  OBVIOUS
<1>1. AgentTypeOK
  BY ZeroTyped DEF Memory!AgentInit, AgentTypeOK
<1>2. \A c \in Users : cpc[c] = "idle"
  BY DEF Memory!AgentInit
<1> QED
  BY <1>1, <1>2
  DEF Memory!AgentInit, MemInv, Fits, OneExchange, Memory!InExchange, Registers,
      AddrSet,
     DataSet, WordBuilt, Answered, Polled, MemMeant, ReadSteps, WriteSteps, Exchange

LEMMA StutterKeepsMemInv ==
  ASSUME MemInv, UNCHANGED memVars
  PROVE  MemInv'
BY DEF MemInv, memVars, AgentTypeOK, Fits, OneExchange, Memory!InExchange,
       Registers, Calm,
   AddrSet, DataSet, WordBuilt, Built, Answered, Polled, MemMeant

\* An access is begun; the word of a whole write is built at once.
LEMMA MemAccessKeepsMemInv ==
  ASSUME MemInv, NEW c \in Users, NEW a \in Memory!Accesses, Memory!MemAccess(c, a)
  PROVE  MemInv'
<1> USE DEF MemInv
<1>1. /\ cpc[c] = "idle"
      /\ UNCHANGED <<mem, addr, data, op, busy, meant, mixed, gaveUp>>
      /\ \A d \in Users \ {c} :
           cpc'[d] = cpc[d] /\ access'[d] = access[d] /\ word'[d] = word[d]
      /\ access'[c] = a
      /\ cpc'[c] = IF a.kind = "write" THEN "waddr" ELSE "raddr"
      /\ a.kind = "write" => word'[c] = [p \in Parts |-> a.value]
  BY DEF Memory!MemAccess, Memory!Step, Memory!registers, Memory!history,
         AgentTypeOK
<1>2. [p \in Parts |-> a.value] \in Contents \/ a.kind # "write"
  BY AccessFields DEF Contents
<1>3. AgentTypeOK'
  BY <1>1, <1>2, ZeroTyped
  DEF AgentTypeOK, Memory!MemAccess, Memory!Step, ReadSteps, WriteSteps
<1>4. Fits'
  BY <1>1, AccessFields DEF Fits, ReadSteps, WriteSteps
<1>5. OneExchange'
  BY <1>1 DEF OneExchange, Memory!InExchange
<1>6. Registers'
  <2> SUFFICES ASSUME Calm, NEW d \in Users
               PROVE  AddrSet(d)' /\ DataSet(d)' /\ WordBuilt(d)' /\ Answered(d)'
    BY <1>1 DEF Registers, Calm
  <2>1. CASE d = c
    BY <1>1, <2>1
    DEF AddrSet, DataSet, WordBuilt, Built, Answered, Exchange, WriteSteps
  <2>2. CASE d # c
    BY <1>1, <2>2, OtherKeeps
  <2> QED BY <2>1, <2>2
<1>7. Polled' /\ MemMeant'
  BY <1>1 DEF Polled, MemMeant, Calm
<1> QED BY <1>3, <1>4, <1>5, <1>6, <1>7

\* The first step of an exchange; should another be under way, that is noted.
LEMMA SetAddrKeepsMemInv ==
  ASSUME MemInv, NEW c \in Users, Memory!SetAddr(c)
  PROVE  MemInv'
<1> USE DEF MemInv
<1>1. /\ cpc[c] \in {"raddr", "waddr"} /\ addr' = access[c].at
      /\ cpc'[c] = IF cpc[c] = "waddr" THEN "data" ELSE "rstart"
      /\ \A d \in Users \ {c} : cpc'[d] = cpc[d]
      /\ UNCHANGED <<mem, data, op, busy, access, word, meant, gaveUp>>
      /\ mixed' = (mixed \/ \E d \in Users \ {c} : Memory!InExchange(d))
  BY DEF Memory!SetAddr, Memory!Step, AgentTypeOK
<1>2. access[c] \in Memory!Accesses
  BY <1>1 DEF Fits
<1>3. AgentTypeOK'
  BY <1>1, <1>2, AccessFields
  DEF AgentTypeOK, Memory!SetAddr, Memory!Step, ReadSteps, WriteSteps
<1>4. Fits'
  BY <1>1 DEF Fits, ReadSteps, WriteSteps
<1>5. ~mixed' => ~mixed /\ \A d \in Users \ {c} : ~Memory!InExchange(d) /\ ~Memory!InExchange(d)'
  BY <1>1 DEF Memory!InExchange
<1>6. OneExchange'
  BY <1>5 DEF OneExchange
<1>7. Calm' => Calm
  BY <1>1 DEF Calm
<1>8. Registers'
  <2> SUFFICES ASSUME Calm', NEW d \in Users
               PROVE  AddrSet(d)' /\ DataSet(d)' /\ WordBuilt(d)' /\ Answered(d)'
    BY DEF Registers
  <2>1. CASE d = c
    BY ZenonT(60), <1>1, <1>7, <2>1
    DEF Registers, AddrSet, DataSet, WordBuilt, Built, Answered, WriteSteps
  <2>2. CASE d # c
    <3>1. cpc[d] \notin Exchange
      BY <1>5, <2>2 DEF Calm, Memory!InExchange, Exchange
    <3> QED
      BY <1>1, <1>7, <2>2, <3>1, OtherKeeps
  <2> QED BY <2>1, <2>2
<1>9. Polled' /\ MemMeant'
  BY <1>1, <1>7 DEF Polled, MemMeant
<1> QED BY <1>3, <1>4, <1>6, <1>8, <1>9

\* The data of a write, and the start.
LEMMA SetDataKeepsMemInv ==
  ASSUME MemInv, NEW c \in Users, Memory!SetData(c)
  PROVE  MemInv'
<1> USE DEF MemInv
<1>1. /\ cpc[c] = "data" /\ cpc'[c] = "wstart" /\ data' = word[c]
      /\ \A d \in Users \ {c} : cpc'[d] = cpc[d]
      /\ UNCHANGED <<mem, addr, op, busy, access, word, meant, mixed, gaveUp>>
  BY DEF Memory!SetData, Memory!Step, AgentTypeOK, Memory!history
<1>2. AgentTypeOK'
  BY <1>1 DEF AgentTypeOK, Memory!SetData, Memory!Step, WriteSteps
<1>3. Fits' /\ OneExchange'
  BY <1>1 DEF Fits, OneExchange, Memory!InExchange, ReadSteps, WriteSteps
<1>4. Registers'
  <2> SUFFICES ASSUME Calm, NEW d \in Users
               PROVE  AddrSet(d)' /\ DataSet(d)' /\ WordBuilt(d)' /\ Answered(d)'
    BY <1>1 DEF Registers, Calm
  <2>1. CASE d = c
    BY ZenonT(60), <1>1, <2>1
   
DEF Registers, AddrSet, DataSet, WordBuilt, Built, Answered, WriteSteps, Exchange
  <2>2. CASE d # c
    <3>1. cpc[d] \notin Exchange
      BY <1>1, <2>2, Alone DEF Memory!InExchange
    <3> QED
      BY <1>1, <2>2, <3>1, OtherKeeps
  <2> QED BY <2>1, <2>2
<1>5. Polled' /\ MemMeant'
  BY <1>1 DEF Polled, MemMeant, Calm
<1> QED BY <1>2, <1>3, <1>4, <1>5

LEMMA StartKeepsMemInv ==
  ASSUME MemInv, NEW c \in Users, Memory!Start(c)
  PROVE  MemInv'
<1> USE DEF MemInv
<1>1. /\ cpc[c] \in {"rstart", "wstart"} /\ busy' = TRUE
      /\ op' = (IF cpc[c] = "wstart" THEN "write" ELSE "read")
      /\ cpc'[c] = IF cpc[c] = "wstart" THEN "wpoll" ELSE "rpoll"
      /\ \A d \in Users \ {c} : cpc'[d] = cpc[d]
      /\ UNCHANGED <<mem, addr, data, access, word, meant, mixed, gaveUp>>
  BY DEF Memory!Start, Memory!Step, AgentTypeOK, Memory!history
<1>2. AgentTypeOK'
  BY <1>1 DEF AgentTypeOK, Memory!Start, Memory!Step, ReadSteps, WriteSteps
<1>3. Fits' /\ OneExchange'
  BY <1>1 DEF Fits, OneExchange, Memory!InExchange, ReadSteps, WriteSteps
<1>4. Calm => \A d \in Users \ {c} : cpc[d] \notin Exchange
  BY <1>1, Alone DEF Memory!InExchange
<1>5. Registers'
  <2> SUFFICES ASSUME Calm, NEW d \in Users
               PROVE  AddrSet(d)' /\ DataSet(d)' /\ WordBuilt(d)' /\ Answered(d)'
    BY <1>1 DEF Registers, Calm
  <2>1. CASE d = c
    BY ZenonT(60), <1>1, <2>1
   
DEF Registers, AddrSet, DataSet, WordBuilt, Built, Answered, WriteSteps, Exchange
  <2>2. CASE d # c
    BY <1>1, <1>4, <2>2, OtherKeeps
  <2> QED BY <2>1, <2>2
<1>6. Calm => mem = meant
  BY <1>1, <1>4 DEF MemMeant, Exchange
<1>7. Polled' /\ MemMeant'
  BY <1>1, <1>6 DEF Polled, MemMeant, Calm
<1> QED BY <1>2, <1>3, <1>5, <1>7

\* The card carries out what it was told to, for the one who waits for it.
LEMMA AgentKeepsMemInv ==
  ASSUME MemInv, Memory!AgentWorks
  PROVE  MemInv'
<1> USE DEF MemInv
<1>1. /\ busy /\ busy' = FALSE
      /\ mem' = IF op = "write" THEN [mem EXCEPT ![addr] = data] ELSE mem
      /\ data' = IF op = "read" THEN mem[addr] ELSE data
      /\ UNCHANGED <<addr, op, access, word, cpc, meant, mixed, gaveUp>>
  BY DEF Memory!AgentWorks, Memory!history
<1>2. AgentTypeOK'
  BY <1>1 DEF AgentTypeOK
<1>3. Fits' /\ OneExchange'
  BY <1>1 DEF Fits, OneExchange, Memory!InExchange
<1>4. Calm => mem = meant
  BY <1>1 DEF MemMeant
<1>5. ASSUME Calm
      PROVE  Registers' /\ (mem' = meant \/ \E c \in Users : cpc[c] = "wpoll")
  <2>1. PICK c \in Users : cpc[c] \in {"rpoll", "wpoll"}
    BY <1>1, <1>5 DEF Polled
  <2>2. \A d \in Users \ {c} : cpc[d] \notin Exchange
    BY <1>5, <2>1, Alone DEF Memory!InExchange
  <2>3. op = "read" <=> cpc[c] = "rpoll"
    BY <1>5, <2>1 DEF Registers, Answered
  <2>4. AddrSet(c)' /\ DataSet(c)' /\ WordBuilt(c)' /\ Answered(c)'
    BY <1>1, <1>4, <1>5, <2>1, <2>3
    DEF Registers, AddrSet, DataSet, WordBuilt, Built, Answered
  <2>5. ASSUME NEW d \in Users \ {c}
        PROVE  AddrSet(d)' /\ DataSet(d)' /\ WordBuilt(d)' /\ Answered(d)'
    BY <1>1, <1>5, <2>2, OtherKeeps
  <2>6. op \in {"read", "write"}
    BY <1>5, <2>1 DEF Registers, Answered
  <2> QED
    BY <1>1, <1>4, <1>5, <2>1, <2>3, <2>4, <2>5, <2>6 DEF Registers
<1>6. Registers'
  BY <1>1, <1>5 DEF Registers, Calm
<1>7. Polled' /\ MemMeant'
  BY <1>1, <1>5 DEF Polled, MemMeant, Calm
<1> QED BY <1>2, <1>3, <1>6, <1>7

LEMMA PollReadKeepsMemInv ==
  ASSUME MemInv, NEW c \in Users, Memory!PollRead(c)
  PROVE  MemInv'
<1> USE DEF MemInv
<1>1. /\ cpc[c] = "rpoll" /\ ~busy /\ cpc'[c] = "rddata"
      /\ \A d \in Users \ {c} : cpc'[d] = cpc[d]
      /\ UNCHANGED <<mem, addr, data, op, busy, access, word, meant, mixed, gaveUp>>
  BY DEF Memory!PollRead, Memory!NotBusy, Memory!Step, AgentTypeOK,
         Memory!registers, Memory!history
<1>2. AgentTypeOK'
  BY <1>1 DEF AgentTypeOK, Memory!PollRead, Memory!Step, ReadSteps
<1>3. Fits' /\ OneExchange'
  BY <1>1 DEF Fits, OneExchange, Memory!InExchange, ReadSteps, WriteSteps
<1>4. Registers'
  <2> SUFFICES ASSUME Calm, NEW d \in Users
               PROVE  AddrSet(d)' /\ DataSet(d)' /\ WordBuilt(d)' /\ Answered(d)'
    BY <1>1 DEF Registers, Calm
  <2>1. CASE d = c
    BY <1>1, <2>1
   
DEF Registers, AddrSet, DataSet, WordBuilt, Built, Answered, WriteSteps, Exchange
  <2>2. CASE d # c
    BY <1>1, <2>2, OtherKeeps
  <2> QED BY <2>1, <2>2
<1>5. Polled' /\ MemMeant'
  BY <1>1 DEF Polled, MemMeant, Calm
<1> QED BY <1>2, <1>3, <1>4, <1>5

\* The word of a short write: what the memory holds but for the part written.
LEMMA ReadDataKeepsMemInv ==
  ASSUME MemInv, NEW c \in Users, Memory!ReadData(c)
  PROVE  MemInv'
<1> USE DEF MemInv
<1>1. /\ cpc[c] = "rddata" /\ cpc'[c] \in {"idle", "waddr"}
      /\ \A d \in Users \ {c} :
           cpc'[d] = cpc[d] /\ access'[d] = access[d] /\ word'[d] = word[d]
      /\ UNCHANGED <<mem, addr, data, op, busy, meant, mixed, gaveUp>>
  BY DEF Memory!ReadData, Memory!Return, Memory!Step, AgentTypeOK,
         Memory!registers, Memory!history
<1>2. access[c] \in Memory!Accesses /\ access[c].kind \in {"read", "short"}
  BY <1>1 DEF Fits, ReadSteps
<1>3. cpc'[c] = "waddr" =>
        /\ access'[c] = access[c] /\ access[c].kind = "short"
        /\ word'[c] = [data EXCEPT ![access[c].part] = access[c].value]
  BY <1>2 DEF Memory!ReadData, Memory!Return, Memory!Step, Memory!Merge, AgentTypeOK
<1>4. [data EXCEPT ![access[c].part] = access[c].value] \in Contents
        \/ access[c].kind # "short"
  BY <1>2, AccessFields DEF AgentTypeOK, Contents
<1>5. AgentTypeOK'
  BY <1>1, <1>2, <1>4, ZeroTyped
 
DEF AgentTypeOK, Memory!ReadData, Memory!Return, Memory!Step, Memory!Merge,
   WriteSteps
<1>6. Fits'
  BY <1>1, <1>2, <1>3 DEF Fits, ReadSteps, WriteSteps
<1>7. OneExchange'
  BY <1>1 DEF OneExchange, Memory!InExchange
<1>8. Calm => /\ mem = meant /\ data = mem[addr] /\ addr = access[c].at
              /\ \A d \in Users \ {c} : cpc[d] \notin Exchange
  BY <1>1, Alone
  DEF Memory!InExchange, MemMeant, Registers, Answered, AddrSet, Exchange
<1>9. Registers'
  <2> SUFFICES ASSUME Calm, NEW d \in Users
               PROVE  AddrSet(d)' /\ DataSet(d)' /\ WordBuilt(d)' /\ Answered(d)'
    BY <1>1 DEF Registers, Calm
  <2>1. CASE d = c
    BY <1>1, <1>3, <1>8, <2>1
    DEF AddrSet, DataSet, WordBuilt, Built, Answered, WriteSteps, Exchange
  <2>2. CASE d # c
    BY <1>1, <2>2, OtherKeeps
  <2> QED BY <2>1, <2>2
<1>10. Polled' /\ MemMeant'
  BY <1>1, <1>8 DEF Polled, MemMeant, Calm
<1> QED BY <1>5, <1>6, <1>7, <1>9, <1>10

\* The caller is told that its word is written, and it is.
LEMMA PollWriteKeepsMemInv ==
  ASSUME MemInv, NEW c \in Users, Memory!PollWrite(c)
  PROVE  MemInv'
<1> USE DEF MemInv
<1>1. /\ cpc[c] = "wpoll" /\ ~busy /\ cpc'[c] = "idle"
      /\ \A d \in Users \ {c} :
           cpc'[d] = cpc[d] /\ access'[d] = access[d] /\ word'[d] = word[d]
      /\ UNCHANGED <<mem, addr, data, op, busy, mixed, gaveUp>>
      /\ ~Calm => UNCHANGED meant
  BY DEF Memory!PollWrite, Memory!Return, Memory!NotBusy, Memory!Step, AgentTypeOK,
         Memory!registers, Calm
<1>2. access[c] \in Memory!Accesses /\ access[c].kind \in {"write", "short"}
  BY <1>1 DEF Fits, WriteSteps
<1>3. ASSUME Calm
      PROVE  /\ word[c] = Built(c) /\ mem = [meant EXCEPT ![access[c].at] = word[c]]
             /\ meant' = mem
             /\ \A d \in Users \ {c} : cpc[d] \notin Exchange
                  /\ (cpc[d] = "waddr" => access[d].kind = "write")
  <2>1. /\ word[c] = Built(c) /\ mem = [meant EXCEPT ![access[c].at] = word[c]]
    BY <1>1, <1>3
    DEF Registers, AddrSet, DataSet, WordBuilt, Answered, WriteSteps, Exchange
  <2>2. meant' = [meant EXCEPT ![access[c].at] =
                    IF access[c].kind = "write" THEN word[c] ELSE Built(c)]
    <3>1. CASE access[c].kind = "write"
      BY <1>3, <3>1 DEF Memory!PollWrite, Calm
    <3>2. CASE access[c].kind # "write"
      BY <1>3, <3>2 DEF Memory!PollWrite, Calm, Built
    <3> QED BY <3>1, <3>2
  <2>3. \A d \in Users \ {c} : cpc[d] \notin Exchange
                  /\ (cpc[d] = "waddr" => access[d].kind = "write")
    BY <1>1, <1>3, Alone DEF Memory!InExchange
  <2> QED BY <2>1, <2>2, <2>3
<1>4. meant' \in [Words -> Contents]
  BY <1>1, <1>3 DEF AgentTypeOK
<1>5. AgentTypeOK'
  BY <1>1, <1>4, ZeroTyped
  DEF AgentTypeOK, Memory!PollWrite, Memory!Return, Memory!Step
<1>6. Fits'
  BY <1>1 DEF Fits, ReadSteps, WriteSteps
<1>7. OneExchange'
  BY <1>1 DEF OneExchange, Memory!InExchange
<1>8. Registers'
  <2> SUFFICES ASSUME Calm, NEW d \in Users
               PROVE  AddrSet(d)' /\ DataSet(d)' /\ WordBuilt(d)' /\ Answered(d)'
    BY <1>1 DEF Registers, Calm
  <2>1. CASE d = c
    BY <1>1, <2>1 DEF AddrSet, DataSet, WordBuilt, Answered, WriteSteps, Exchange
  <2>2. CASE d # c
    BY <1>1, <1>3, <2>2, OtherKeeps
  <2> QED BY <2>1, <2>2
<1>9. Polled' /\ MemMeant'
  BY <1>1, <1>3 DEF Polled, MemMeant, Calm
<1> QED BY <1>5, <1>6, <1>7, <1>8, <1>9

LEMMA GiveUpKeepsMemInv ==
  ASSUME MemInv, NEW c \in Users, Memory!GiveUp(c)
  PROVE  MemInv'
<1> USE DEF MemInv
<1>1. /\ cpc'[c] = "idle" /\ gaveUp' = gaveUp + 1
      /\ \A d \in Users \ {c} : cpc'[d] = cpc[d] /\ access'[d] = access[d]
      /\ UNCHANGED <<mem, addr, data, op, busy, meant, mixed>>
  BY DEF Memory!GiveUp, Memory!Return, Memory!Step, AgentTypeOK, Memory!registers
<1>2. AgentTypeOK'
  BY <1>1, ZeroTyped DEF AgentTypeOK, Memory!GiveUp, Memory!Return, Memory!Step
<1>3. Fits'
  BY <1>1 DEF Fits, ReadSteps, WriteSteps
<1>4. OneExchange'
  BY <1>1 DEF OneExchange, Memory!InExchange
<1>5. ~Calm'
  BY <1>1 DEF Calm, AgentTypeOK
<1> QED
  BY <1>2, <1>3, <1>4, <1>5 DEF Registers, Polled, MemMeant
-----------------------------------------------------------------------------
LEMMA NextMemInv ==
  ASSUME MemInv, [Memory!AgentNext]_memVars
  PROVE  MemInv'
BY StutterKeepsMemInv, AgentKeepsMemInv, MemAccessKeepsMemInv, SetAddrKeepsMemInv,
   SetDataKeepsMemInv, StartKeepsMemInv, PollReadKeepsMemInv, ReadDataKeepsMemInv,
   PollWriteKeepsMemInv, GiveUpKeepsMemInv
DEF Memory!AgentNext
-----------------------------------------------------------------------------
\* The three invariants side by side: on each map only one family moves.
CardInv == RegInv /\ LegacyInv /\ MemInv

LEMMA InitCardInv == XInit => CardInv
BY InitRegInv, InitLegacyInv, InitMemInv DEF XInit, CardInit, CardInv

\* Whichever driver is loaded, its functions are those of the map: nx_xport
\* has copies of them, and one read of its own.
LEMMA XStep ==
  ASSUME XNext
  PROVE  \/ [Next]_vars /\ UNCHANGED legacyVars /\ UNCHANGED memVars
         \/ LegacyNext /\ UNCHANGED vars /\ UNCHANGED memVars
         \/ [Memory!AgentNext]_memVars /\ UNCHANGED vars /\ UNCHANGED legacyVars
<1>1. CASE CardNext
  BY <1>1 DEF CardNext, Registers2M, Card128M, Memory2M, LegacyNext
<1>2. CASE XRegisters2M
  <2>1. PICK t \in Users :
          \/ \E k \in Kinds, r \in Regs : XGetCrbAddr(t, k, r)
          \/ Lock(t) \/ XCrbWinLock(t) \/ XSetCrbWindow(t)
          \/ XReadWx(t) \/ XWriteWx(t) \/ XReadIoctl(t) \/ XWriteIoctl(t)
          \/ XCrbWinUnlock(t) \/ Unlock(t)
    BY <1>2 DEF XRegisters2M
  <2>2. t \in Threads
    BY MemoryAssumption
  <2>3. Next
    BY <2>1, <2>2
    DEF Next, Acts, XGetCrbAddr, XCrbWinLock, XSetCrbWindow, XReadWx, XWriteWx,
        XReadIoctl, XWriteIoctl, XCrbWinUnlock
  <2> QED BY <1>2, <2>3 DEF XRegisters2M, Registers2M
<1>3. CASE XMemory2M
  <2>1. Memory!AgentNext
    BY <1>3 DEF XMemory2M, Memory!AgentNext, XMemRead2M, XMemWrite2M
  <2> QED BY <1>3, <2>1 DEF XMemory2M, Memory2M
<1>4. CASE XCard128M
  <2>1. LegacyNext
    <3>1. PICK t \in Users :
            \/ \E j \in Legacy!Jobs : Legacy!Begin(t, j)
            \/ XReadWx128M(t) \/ XWriteWx128M(t) \/ XChangeCrbWindow(t)
            \/ XReadIoctl128M(t) \/ XWriteIoctl128M(t)
            \/ XMemDirectRead(t) \/ XMemDirectWrite(t) \/ XSetWindow(t)
            \/ XMemWrite128M(t) \/ XMemRead128M(t)
            \/ ReadNormalize(t) \/ NormalizeDone(t)
      BY <1>4 DEF XCard128M
    <3>2. t \in Threads
      BY MemoryAssumption
    <3> QED
      BY <3>1, <3>2
      DEF LegacyNext, Legacy!Next, XReadWx128M, XWriteWx128M, XChangeCrbWindow,
          XReadIoctl128M, XWriteIoctl128M, XMemDirectRead, XMemDirectWrite,
          XSetWindow, XMemWrite128M, XMemRead128M
  <2> QED BY <1>4, <2>1 DEF XCard128M, Card128M
<1> QED BY <1>1, <1>2, <1>3, <1>4 DEF XNext

LEMMA RegIdle == RegInv /\ UNCHANGED vars => RegInv'
BY NextRegInv

LEMMA LegacyIdle == LegacyInv /\ UNCHANGED legacyVars => LegacyInv'
BY LegacyStep DEF LegacyNext

LEMMA MemIdle == MemInv /\ UNCHANGED memVars => MemInv'
BY NextMemInv

LEMMA NextCardInv ==
  CardInv /\ [XNext]_<<driver, memmap, vars, legacyVars, memVars>> => CardInv'
<1> SUFFICES ASSUME CardInv, [XNext]_<<driver, memmap, vars, legacyVars, memVars>>
             PROVE  CardInv'
  OBVIOUS
<1> USE DEF CardInv
<1>1. CASE UNCHANGED <<driver, memmap, vars, legacyVars, memVars>>
  BY <1>1, RegIdle, LegacyIdle, MemIdle
<1>2. CASE [Next]_vars /\ UNCHANGED legacyVars /\ UNCHANGED memVars
  BY <1>2, NextRegInv, LegacyIdle, MemIdle
<1>3. CASE LegacyNext /\ UNCHANGED vars /\ UNCHANGED memVars
  BY <1>3, LegacyStep, RegIdle, MemIdle
<1>4. CASE [Memory!AgentNext]_memVars /\ UNCHANGED vars /\ UNCHANGED legacyVars
  BY <1>4, NextMemInv, RegIdle, LegacyIdle
<1> QED BY <1>1, <1>2, <1>3, <1>4, XStep

LEMMA XSpecInv == XSpec => []CardInv
BY InitCardInv, NextCardInv, PTL DEF XSpec

\* Whatever the number of functions, threads and registers, and whichever driver
\* is loaded: until a wait for semaphore 7 is given up, every access through the
\* aperture reaches the register that the thread means (the functions _2M).
THEOREM RegistersReached == XSpec => []RightRegister
<1>1. RegInv => RightRegister
  BY DEF RegInv, WindowSet, RightRegister, Touches, ByWindow
<1> QED BY XSpecInv, <1>1, PTL DEF CardInv

\* On a large map, a register is only touched while the window of the function
\* shows its half of the register space, a QDR access goes to its own SN window,
\* a thread that waits for the agent waits for its own access, and the unlocked
\* read of nx_xport meets window 0 only under a writer (the functions _128M).
THEOREM LegacyRegistersReached == XSpec => []RightWindow
BY XSpecInv, LegacyInvRight, PTL DEF CardInv

\* Accesses to the memory of the card that do not overlap (unm_nic_pci_mem_read_2M
\* and _write_2M) read the words they are for, and the memory is what the writes
\* made of it: for any number of threads, words and parts.
THEOREM MemoryWritten == XSpec => []MemoryAsWritten
<1>1. MemInv => MemoryAsWritten
  <2> SUFFICES ASSUME MemInv, Calm PROVE MemoryAsWritten
    BY DEF MemoryAsWritten, Memory!MemoryAsWritten, Calm
  <2>1. \A c \in Users : cpc[c] = "rddata" => data = mem[access[c].at]
    BY DEF MemInv, Registers, Answered, AddrSet, Exchange
  <2>2. (\A c \in Users : cpc[c] = "idle") => mem = meant
    BY DEF MemInv, MemMeant
  <2> QED BY <2>1, <2>2 DEF MemoryAsWritten, Memory!MemoryAsWritten
<1> QED BY XSpecInv, <1>1, PTL DEF CardInv
=============================================================================
