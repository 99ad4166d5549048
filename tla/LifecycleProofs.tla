--------------------------- MODULE LifecycleProofs ---------------------------
(***************************************************************************)
(* Proofs about what the two drivers hold of a card and of the kernel      *)
(* (NicLifecycle, XportTable).                                             *)
(*                                                                         *)
(* What a function of nx_nic can hold is bounded by how far its probe or   *)
(* its removal has come, and what a step acquires is not held at the time, *)
(* or an exception explains why it may be.  That needs what is_up says of  *)
(* rings, interrupts and PexQ memory, and where the walk of the recovery   *)
(* over the bus is.                                                        *)
(***************************************************************************)
EXTENDS MCLifecycle, TLAPS

Early == {"pci", "regions", "netdev", "aer"}
Mapped == Early \cup {"bars", "doorbell"}
Started == Mapped \cup {"fwfile", "dummy"}
Ready == Started \cup {"dev", "sds", "msi", "lro"}
Things == Ready \cup RingContext \cup {"registered", "irq", "pexq"}
Phases == {"unbound", "enabled", "mapped", "started", "ready", "bound", "flushed",
           "untimed", "detached", "cleaned"}
Probing == {"enabled", "mapped", "started", "ready"}
Bound == {"bound", "flushed", "untimed"}
Works == {"idle", "queued", "detach", "heated", "dead", "attach"}

NicTypes ==
  /\ phase \in [Functions -> Phases]
  /\ held \in [Functions -> SUBSET Things]
  /\ lost \in [Functions -> SUBSET Things]
  /\ drvdata \in [Functions -> {"null", "own", "stale"}]
  /\ up \in [Functions -> {"down", "up", "dead"}]
  /\ open \in [Functions -> BOOLEAN]
  /\ present \in [Functions -> BOOLEAN]
  /\ asleep \in [Functions -> BOOLEAN]
  /\ timer \in BOOLEAN /\ late \in BOOLEAN
  /\ work \in Works /\ todo \subseteq Functions
  /\ excused \in [Functions -> SUBSET {"probe", "dead", "pexq", "both"}]

\* The driver data of a function says of it what its probe came to.
Own ==
  \A f \in Functions :
    drvdata[f] = "own" <=> phase[f] \in {"ready", "detached", "cleaned"} \cup Bound
WithBars ==
  \A f \in Functions :
    phase[f] \in {"mapped", "started", "ready", "detached"} \cup Bound => "bars" \in held[f]

\* The timer and the work of the firmware watchdog belong to a bound port 0.
Watched ==
  /\ phase[Port0] \in Probing => ~timer /\ work = "idle"
  /\ phase[Port0] = "flushed" /\ ~late => work = "idle"
  /\ WatchdogOfTheBound

\* What a function may hold, by how far it has come.
Bounded(f) ==
  /\ phase[f] = "unbound" => held[f] = {}
  /\ phase[f] = "enabled" => held[f] \subseteq Early
  /\ phase[f] = "mapped" => held[f] \subseteq Mapped
  /\ phase[f] = "started" => held[f] \subseteq Started
  /\ phase[f] = "ready" => held[f] \subseteq Ready
  /\ phase[f] = "detached" => held[f] \subseteq (Ready \ {"dummy"}) \cup {"irq"}
  /\ phase[f] = "cleaned" => held[f] \subseteq {"netdev", "irq"}

\* An interface that runs belongs to a function that is bound.
OpenBound(f) == open[f] => phase[f] \in Bound

\* Rings, interrupts and PexQ memory are held by an interface that is up.
UpHolds(f) ==
  /\ up[f] = "down" => held[f] \cap RingContext = {}
  /\ "irq" \in held[f] =>
       (up[f] # "down" /\ "rings" \in held[f]) \/ "dead" \in excused[f]
  /\ "pexq" \in held[f] /\ up[f] = "down" => "pexq" \in excused[f]

\* LRO tables and the dummy DMA area are not held where they will be acquired.
NoLro(f) == "lro" \in held[f] => "both" \in excused[f]
NoDummy(f) == "dummy" \in held[f] => "both" \in excused[f]
Asleep(f) ==
  asleep[f] => /\ phase[f] \in {"detached", "cleaned"} \cup Bound
               /\ "pci" \notin held[f] /\ NoLro(f)
               /\ f = Port0 => NoDummy(f) \/ (work = "attach" /\ f \in todo)
Visited(f) ==
  /\ work = "detach" /\ f \notin todo => NoLro(f) /\ (f = Port0 => NoDummy(f))
  /\ work = "attach" /\ f \in todo => NoLro(f)

Account(f) ==
  /\ lost[f] \subseteq Explained(f)
  /\ Bounded(f) /\ OpenBound(f) /\ UpHolds(f) /\ Asleep(f) /\ Visited(f)

\* A recovery that runs while port 0 is removed is the exception of GivenBack.
Excepted(f) == f = Port0 /\ late

NicInv ==
  /\ NicTypes /\ Own /\ WithBars /\ Watched
  /\ RecoveryOnMapped
  /\ \A f \in Functions : Excepted(f) \/ Account(f)
-----------------------------------------------------------------------------
\* Where an entry is found: two entries just exchanged have each other's index.
Place(sw, j, n) ==
  IF sw /\ n = j THEN j + 1 ELSE IF sw /\ n = j + 1 THEN j ELSE n

XportTypes ==
  /\ module \in {"out", "hollow", "probing", "sorting", "in", "unloading"}
  /\ table \in Seq(Devices \cup {Empty})
  /\ adapterIndex \in [Devices -> Nat]
  /\ mapped \subseteq Devices
  /\ sortAt \in Nat \X Nat /\ swapped \in BOOLEAN
  /\ files \in {0, 1} /\ using \in Devices \cup {Empty}
  /\ hot \subseteq Devices /\ disturbed \in BOOLEAN

Modules ==
  /\ swapped => module = "sorting" /\ sortAt[2] + 1 < Len(table)
  /\ module \in {"out", "hollow"} => mapped = {}
  /\ module \in {"out", "hollow", "unloading"} => files = 0
  /\ files = 0 => using = Empty

Indexed ==
  ~disturbed =>
    /\ \A d \in mapped : /\ adapterIndex[d] < Len(table)
                         /\ table[Place(swapped, sortAt[2], adapterIndex[d]) + 1] = d
    /\ \A n \in 1..Len(table) : table[n] # Empty =>
         table[n] \in mapped /\ Place(swapped, sortAt[2], adapterIndex[table[n]]) + 1 = n
    /\ swapped => table[sortAt[2] + 1] # Empty /\ table[sortAt[2] + 2] # Empty

InUse == ~disturbed => (using # Empty => using \in mapped \cup hot)

TableInv == XportTypes /\ Modules /\ Indexed /\ InUse
-----------------------------------------------------------------------------
LEMMA InitNicInv == NicInit => NicInv
<1> SUFFICES ASSUME NicInit PROVE NicInv
  OBVIOUS
<1>1. NicTypes
  BY DEF NicInit, NicTypes, Phases, Works
<1>2. Own /\ WithBars /\ Watched /\ RecoveryOnMapped
  BY LifecycleAssumption
  DEF NicInit, Own, WithBars, Watched, RecoveryOnMapped, Bound, Probing,
      WatchdogOfTheBound
<1>3. \A f \in Functions : Account(f)
  BY DEF NicInit, Account, Bounded, OpenBound, UpHolds, Asleep, Visited, NoLro, NoDummy
<1> QED BY <1>1, <1>2, <1>3 DEF NicInv

\* A set of things that is stored for a function.
LEMMA NowTyped ==
  ASSUME NicTypes, NEW f \in Functions, NEW h \in SUBSET Things, NEW l \in SUBSET Things,
         Now(f, h, l)
  PROVE  /\ held' \in [Functions -> SUBSET Things] /\ lost' \in [Functions -> SUBSET Things]
         /\ held'[f] = h /\ lost'[f] = l
         /\ \A g \in Functions \ {f} : held'[g] = held[g] /\ lost'[g] = lost[g]
BY DEF Now, NicTypes

LEMMA AcquireTyped ==
  ASSUME NicTypes, NEW f \in Functions, NEW S \in SUBSET Things, Acquire(f, S)
  PROVE  /\ held' \in [Functions -> SUBSET Things] /\ lost' \in [Functions -> SUBSET Things]
         /\ held'[f] = held[f] \cup S
         /\ lost'[f] = lost[f] \cup (held[f] \cap S)
         /\ \A g \in Functions \ {f} : held'[g] = held[g] /\ lost'[g] = lost[g]
<1>1. held[f] \cup S \in SUBSET Things /\ lost[f] \cup (held[f] \cap S) \in SUBSET Things
  BY DEF NicTypes
<1> QED BY <1>1, NowTyped DEF Acquire

\* What an attachment that fails leaves is of what there was.
LEMMA AttachTyped ==
  ASSUME NicTypes, NEW f \in Functions, AttachFails(f) \/ AttachWorks(f)
  PROVE  /\ held' \in [Functions -> SUBSET Things] /\ lost' \in [Functions -> SUBSET Things]
         /\ up' \in [Functions -> {"down", "up", "dead"}]
         /\ \A g \in Functions \ {f} :
              held'[g] = held[g] /\ lost'[g] = lost[g] /\ up'[g] = up[g]
<1>1. CASE UNCHANGED <<held, lost>>
  BY <1>1 DEF AttachFails, AttachWorks, NicTypes
<1>2. CASE AttachWorks(f) /\ Acquire(f, Attached)
  <2>1. Attached \in SUBSET Things
    BY DEF Attached, Things
  <2> QED BY <1>2, <2>1, AcquireTyped DEF AttachWorks, NicTypes
<1>3. ASSUME NEW p \in SUBSET (Has \cap {"pexq"}), UNCHANGED up,
             Now(f, (held[f] \ RingContext) \cup p, lost[f] \cup (held[f] \cap p))
      PROVE  /\ held' \in [Functions -> SUBSET Things] /\ lost' \in [Functions -> SUBSET Things]
             /\ up' \in [Functions -> {"down", "up", "dead"}]
             /\ \A g \in Functions \ {f} :
                  held'[g] = held[g] /\ lost'[g] = lost[g] /\ up'[g] = up[g]
  <2>1. /\ (held[f] \ RingContext) \cup p \in SUBSET Things
        /\ lost[f] \cup (held[f] \cap p) \in SUBSET Things
    BY DEF NicTypes, Things
  <2>2. up' \in [Functions -> {"down", "up", "dead"}] /\ up' = up
    BY <1>3 DEF NicTypes
  <2>3. /\ held' \in [Functions -> SUBSET Things] /\ lost' \in [Functions -> SUBSET Things]
        /\ \A g \in Functions \ {f} : held'[g] = held[g] /\ lost'[g] = lost[g]
    <3>1. Now(f, (held[f] \ RingContext) \cup p, lost[f] \cup (held[f] \cap p))
      BY <1>3
    <3> QED BY SMTT(30), <2>1, <3>1, NowTyped
  <2> QED BY <2>2, <2>3
<1>4. ASSUME UNCHANGED up,
             Now(f, held[f] \ RingContext, lost[f] \cup (held[f] \cap {"txbufs", "dma"}))
      PROVE  /\ held' \in [Functions -> SUBSET Things] /\ lost' \in [Functions -> SUBSET Things]
             /\ up' \in [Functions -> {"down", "up", "dead"}]
             /\ \A g \in Functions \ {f} :
                  held'[g] = held[g] /\ lost'[g] = lost[g] /\ up'[g] = up[g]
  <2>1. /\ held[f] \ RingContext \in SUBSET Things
        /\ lost[f] \cup (held[f] \cap {"txbufs", "dma"}) \in SUBSET Things
    BY DEF NicTypes, Things
  <2>2. up' \in [Functions -> {"down", "up", "dead"}] /\ up' = up
    BY <1>4 DEF NicTypes
  <2>3. /\ held' \in [Functions -> SUBSET Things] /\ lost' \in [Functions -> SUBSET Things]
        /\ \A g \in Functions \ {f} : held'[g] = held[g] /\ lost'[g] = lost[g]
    <3>1. Now(f, held[f] \ RingContext, lost[f] \cup (held[f] \cap {"txbufs", "dma"}))
      BY <1>4
    <3> QED BY ZenonT(60), <2>1, <3>1, NowTyped
  <2> QED BY <2>2, <2>3
<1> QED BY <1>1, <1>2, <1>3, <1>4 DEF AttachFails, AttachWorks

LEMMA SmallSets ==
  /\ Attached \in SUBSET Things /\ RingContext \subseteq Things
  /\ \A f : \A S \in FirmwareThings(f) :
       /\ S \subseteq {"fwfile", "dummy"} /\ S \in SUBSET Things
       /\ f # Port0 => S = {}
       /\ "fwfile" \in S => "fwfile" \notin held[f]
BY DEF Attached, FirmwareThings, Things, Ready, Started, RingContext

LEMMA NicTypesStep == NicInv /\ [NicNext]_nicVars => NicTypes'
<1> SUFFICES ASSUME NicInv, [NicNext]_nicVars PROVE NicTypes'
  OBVIOUS
<1>0. NicTypes
  BY DEF NicInv
<1> USE DEF Go, At, Excuse, Phases, Works, walk, iface
<1>1. ASSUME NEW f \in Functions, ProbeEnable(f) PROVE NicTypes'
  <2>1. PICK aer \in SUBSET (Has \cap {"aer"}) :
          \/ /\ Now(f, {"pci", "regions", "netdev"} \cup aer, lost[f])
             /\ Go(f, "enabled")
             /\ UNCHANGED <<drvdata, excused, faults>>
          \/ /\ Fault /\ Now(f, {}, lost[f] \cup aer)
             /\ drvdata' = [drvdata EXCEPT ![f] = "null"]
             /\ Excuse(f, "probe")
             /\ UNCHANGED phase
    BY <1>1 DEF ProbeEnable
  <2>2. /\ {"pci", "regions", "netdev"} \cup aer \in SUBSET Things
        /\ {} \in SUBSET Things /\ lost[f] \cup aer \in SUBSET Things
        /\ lost[f] \in SUBSET Things
    BY <1>0 DEF NicTypes, Things, Ready, Started, Mapped, Early
  <2>3. held' \in [Functions -> SUBSET Things] /\ lost' \in [Functions -> SUBSET Things]
    BY <1>0, <2>1, <2>2, NowTyped
  <2> QED BY <1>0, <1>1, <2>1, <2>3 DEF NicTypes, ProbeEnable
<1>2. ASSUME NEW f \in Functions, NEW h \in SUBSET Things, NEW gone \in SUBSET Things,
             ProbeFails(f, h, gone)
      PROVE  NicTypes'
  <2>1. /\ lost[f] \cup gone \cup CleanupAdapter(h \ {"fwfile"}) \in SUBSET Things
        /\ {} \in SUBSET Things
    BY <1>0 DEF NicTypes, CleanupAdapter
  <2>2. held' \in [Functions -> SUBSET Things] /\ lost' \in [Functions -> SUBSET Things]
    BY <1>0, <1>2, <2>1, NowTyped DEF ProbeFails
  <2> QED BY <1>0, <1>2, <2>2 DEF NicTypes, ProbeFails
<1>3. ASSUME NEW f \in Functions, ProbeMap(f) PROVE NicTypes'
  <2>1. CASE Acquire(f, {"bars", "doorbell"})
             /\ Go(f, "mapped")
             /\ UNCHANGED <<drvdata, iface, walk, strays, excused, faults>>
    <3>1. {"bars", "doorbell"} \in SUBSET Things
      BY DEF Things, Ready, Started, Mapped
    <3>2. held' \in [Functions -> SUBSET Things] /\ lost' \in [Functions -> SUBSET Things]
      BY <1>0, <2>1, <3>1, AcquireTyped
    <3> QED BY <1>0, <2>1, <3>2 DEF NicTypes
  <2>2. CASE \E gone \in {{}, {"bars"}} : ProbeFails(f, held[f], gone)
    <3>1. \A gone \in {{}, {"bars"}} : gone \in SUBSET Things
      BY DEF Things, Ready, Started, Mapped
    <3> QED BY <1>0, <1>2, <2>2, <3>1 DEF NicTypes
  <2> QED BY <1>3, <2>1, <2>2 DEF ProbeMap
<1>4. ASSUME NEW f \in Functions, ProbeFirmware(f) PROVE NicTypes'
  <2>1. CASE ProbeFails(f, held[f], {})
    <3>1. held[f] \in SUBSET Things /\ {} \in SUBSET Things
      BY <1>0 DEF NicTypes
    <3> QED BY <1>2, <2>1, <3>1
  <2>2. ASSUME NEW S \in FirmwareThings(f), Acquire(f, S), Go(f, "started"),
               UNCHANGED <<drvdata, iface, walk, strays, excused, faults>>
        PROVE  NicTypes'
    <3>1. held' \in [Functions -> SUBSET Things] /\ lost' \in [Functions -> SUBSET Things]
      BY <1>0, <2>2, SmallSets, AcquireTyped
    <3> QED BY <1>0, <2>2, <3>1 DEF NicTypes
  <2>3. ASSUME NEW S \in FirmwareThings(f), ProbeFails(f, held[f] \cup S, {})
        PROVE  NicTypes'
    <3>1. held[f] \cup S \in SUBSET Things /\ {} \in SUBSET Things
      BY <1>0, SmallSets DEF NicTypes
    <3> QED BY <1>2, <2>3, <3>1
  <2> QED BY <1>4, <2>1, <2>2, <2>3 DEF ProbeFirmware
<1>5. ASSUME NEW f \in Functions, ProbeAlloc(f) PROVE NicTypes'
  <2>1. CASE \E S \in {{}, {"dev", "sds"}} :
               ProbeFails(f, held[f] \cup S \cup (Has \cap {"msi"}), {})
    <3>1. \A S \in {{}, {"dev", "sds"}} :
            held[f] \cup S \cup (Has \cap {"msi"}) \in SUBSET Things
      BY <1>0 DEF NicTypes, Things, Ready
    <3>2. {} \in SUBSET Things
      OBVIOUS
    <3> QED BY <1>2, <2>1, <3>1, <3>2
  <2>2. CASE Acquire(f, (Has \cap {"msi", "lro"}) \cup {"dev", "sds"})
    <3>1. (Has \cap {"msi", "lro"}) \cup {"dev", "sds"} \in SUBSET Things
      BY DEF Things, Ready
    <3>2. held' \in [Functions -> SUBSET Things] /\ lost' \in [Functions -> SUBSET Things]
      BY <1>0, <2>2, <3>1, AcquireTyped
    <3>3. CASE ~ \E S \in {{}, {"dev", "sds"}} :
               ProbeFails(f, held[f] \cup S \cup (Has \cap {"msi"}), {})
      <4>1. excused' \in [Functions -> SUBSET {"probe", "dead", "pexq", "both"}]
        BY <1>0, <1>5, <3>3 DEF NicTypes, ProbeAlloc
      <4> QED BY <1>0, <1>5, <3>2, <3>3, <4>1 DEF NicTypes, ProbeAlloc
    <3> QED BY <2>1, <3>3
  <2> QED BY <1>5, <2>1, <2>2 DEF ProbeAlloc
<1>6. ASSUME NEW f \in Functions, ProbeRegister(f) PROVE NicTypes'
  <2>1. CASE ProbeFails(f, held[f], {})
    <3>1. held[f] \in SUBSET Things /\ {} \in SUBSET Things
      BY <1>0 DEF NicTypes
    <3> QED BY <1>2, <2>1, <3>1
  <2>2. CASE ~ProbeFails(f, held[f], {})
    <3>1. {"registered"} \in SUBSET Things
      BY DEF Things
    <3>2. held' \in [Functions -> SUBSET Things] /\ lost' \in [Functions -> SUBSET Things]
      BY <1>0, <1>6, <2>2, <3>1, AcquireTyped DEF ProbeRegister
    <3> QED BY <1>0, <1>6, <2>2, <3>2 DEF NicTypes, ProbeRegister
  <2> QED BY <2>1, <2>2
<1>7. ASSUME NEW f \in Functions, Open(f) PROVE NicTypes'
  <2>1. /\ held' \in [Functions -> SUBSET Things] /\ lost' \in [Functions -> SUBSET Things]
        /\ up' \in [Functions -> {"down", "up", "dead"}]
    BY <1>0, <1>7, AttachTyped DEF Open
  <2>2. excused' \in [Functions -> SUBSET {"probe", "dead", "pexq", "both"}]
    BY <1>0, <1>7 DEF Open, NicTypes
  <2> QED BY <1>0, <1>7, <2>1, <2>2 DEF NicTypes, Open
<1>8. ASSUME NEW f \in Functions, Suspend(f) PROVE NicTypes'
  <2>1. Detach(f) \ {"lro", "pci"} \in SUBSET Things /\ lost[f] \in SUBSET Things
    BY <1>0 DEF NicTypes, Detach
  <2>2. held' \in [Functions -> SUBSET Things] /\ lost' \in [Functions -> SUBSET Things]
    BY <1>0, <1>8, <2>1, NowTyped DEF Suspend
  <2> QED BY <1>0, <1>8, <2>2 DEF NicTypes, Suspend
<1>9. ASSUME NEW f \in Functions, Resume(f) PROVE NicTypes'
  <2>1. held' \in [Functions -> SUBSET Things] /\ lost' \in [Functions -> SUBSET Things]
    <3>1. CASE UNCHANGED <<held, lost>>
      BY <1>0, <3>1 DEF NicTypes
    <3>2. ASSUME NEW S \in FirmwareThings(f), Acquire(f, S \cup {"pci"})
          PROVE  /\ held' \in [Functions -> SUBSET Things]
                 /\ lost' \in [Functions -> SUBSET Things]
      <4>1. S \cup {"pci"} \in SUBSET Things
        BY SmallSets DEF Things, Ready, Started, Mapped, Early
      <4> QED BY <1>0, <3>2, <4>1, AcquireTyped
    <3>3. ASSUME NEW S \in FirmwareThings(f), NEW l \in SUBSET (Has \cap {"lro"}),
                 Acquire(f, S \cup l \cup {"pci"}
                              \cup IF open[f] /\ up[f] = "down" THEN Attached ELSE {})
          PROVE  /\ held' \in [Functions -> SUBSET Things]
                 /\ lost' \in [Functions -> SUBSET Things]
      <4>1. S \cup l \cup {"pci"} \in SUBSET Things /\ Attached \in SUBSET Things
        BY SmallSets DEF Things, Ready, Started, Mapped, Early
      <4>2. S \cup l \cup {"pci"}
              \cup (IF open[f] /\ up[f] = "down" THEN Attached ELSE {}) \in SUBSET Things
        BY <4>1
      <4> QED BY <1>0, <3>3, <4>2, AcquireTyped
    <3> QED BY <1>9, <3>1, <3>2, <3>3 DEF Resume
  <2>2. /\ up' \in [Functions -> {"down", "up", "dead"}]
        /\ asleep' \in [Functions -> BOOLEAN] /\ present' \in [Functions -> BOOLEAN]
    BY <1>0, <1>9 DEF NicTypes, Resume
  <2>3. excused' \in [Functions -> SUBSET {"probe", "dead", "pexq", "both"}]
    BY <1>0, <1>9 DEF NicTypes, Resume
  <2> QED BY <1>0, <1>9, <2>1, <2>2, <2>3 DEF NicTypes, Resume
<1>10. ASSUME NEW f \in Functions, Close(f) \/ RemoveFlushes(f) \/ RemoveTimer(f)
       PROVE  NicTypes'
  BY <1>0, <1>10 DEF NicTypes, Close, RemoveFlushes, RemoveTimer
<1>11. CASE WatchdogFires \/ WatchdogRuns \/ WalkEnds
  BY <1>0, <1>11 DEF NicTypes, WatchdogFires, WatchdogRuns, WalkEnds
<1>12. ASSUME NEW f \in Functions, Skip(f) \/ VisitDead(f) PROVE NicTypes'
  BY <1>0, <1>12 DEF NicTypes, Visit, Skip, VisitDead
<1>13. ASSUME NEW f \in Functions, VisitDetach(f) PROVE NicTypes'
  <2>1. Detach(f) \ {"lro"} \in SUBSET Things /\ lost[f] \in SUBSET Things
    BY <1>0 DEF NicTypes, Detach
  <2>2. held' \in [Functions -> SUBSET Things] /\ lost' \in [Functions -> SUBSET Things]
    BY <1>0, <1>13, <2>1, NowTyped DEF VisitDetach
  <2> QED BY <1>0, <1>13, <2>2 DEF NicTypes, Visit, VisitDetach
<1>14. ASSUME NEW f \in Functions, VisitAttach(f) PROVE NicTypes'
  <2>1. PICK l \in SUBSET (Has \cap {"lro"}), a \in {{}, Attached} :
          /\ Acquire(f, l \cup a)
          /\ up' = [up EXCEPT ![f] = IF a # {} THEN "up" ELSE @]
    BY <1>14 DEF VisitAttach
  <2>2. l \cup a \in SUBSET Things
    BY SmallSets DEF Things, Ready
  <2>3. held' \in [Functions -> SUBSET Things] /\ lost' \in [Functions -> SUBSET Things]
    BY <1>0, <2>1, <2>2, AcquireTyped
  <2>4. excused' \in [Functions -> SUBSET {"probe", "dead", "pexq", "both"}]
    BY <1>0, <1>14 DEF NicTypes, VisitAttach
  <2> QED BY <1>0, <1>14, <2>1, <2>3, <2>4 DEF NicTypes, Visit, VisitAttach
<1>15. CASE RestartFirmware
  <2>1. held' \in [Functions -> SUBSET Things] /\ lost' \in [Functions -> SUBSET Things]
    <3>1. CASE UNCHANGED <<held, lost>>
      BY <1>0, <3>1 DEF NicTypes
    <3>2. ASSUME NEW S \in FirmwareThings(Port0), Acquire(Port0, S)
          PROVE  /\ held' \in [Functions -> SUBSET Things]
                 /\ lost' \in [Functions -> SUBSET Things]
      BY <1>0, <3>2, LifecycleAssumption, SmallSets, AcquireTyped
    <3> QED BY <1>15, <3>1, <3>2 DEF RestartFirmware
  <2> QED BY <1>0, <1>15, <2>1 DEF NicTypes, RestartFirmware
<1>16. ASSUME NEW f \in Functions, RemoveDetaches(f) PROVE NicTypes'
  <2>1. Detach(f) \ {"registered"} \in SUBSET Things /\ lost[f] \in SUBSET Things
    BY <1>0 DEF NicTypes, Detach
  <2>2. held' \in [Functions -> SUBSET Things] /\ lost' \in [Functions -> SUBSET Things]
    BY <1>0, <1>16, <2>1, NowTyped DEF RemoveDetaches
  <2> QED BY <1>0, <1>16, <2>2 DEF NicTypes, RemoveDetaches
<1>17. ASSUME NEW f \in Functions, RemoveCleans(f) PROVE NicTypes'
  <2>1. CleanupAdapter(held[f] \ {"fwfile"}) \in SUBSET Things /\ lost[f] \in SUBSET Things
    BY <1>0 DEF NicTypes, CleanupAdapter
  <2>2. held' \in [Functions -> SUBSET Things] /\ lost' \in [Functions -> SUBSET Things]
    BY <1>0, <1>17, <2>1, NowTyped DEF RemoveCleans
  <2> QED BY <1>0, <1>17, <2>2 DEF NicTypes, RemoveCleans
<1>18. ASSUME NEW f \in Functions, RemoveEnds(f) PROVE NicTypes'
  <2>1. {} \in SUBSET Things /\ lost[f] \cup (held[f] \ {"netdev"}) \in SUBSET Things
    BY <1>0 DEF NicTypes
  <2>2. held' \in [Functions -> SUBSET Things] /\ lost' \in [Functions -> SUBSET Things]
    BY <1>0, <1>18, <2>1, NowTyped DEF RemoveEnds
  <2> QED BY <1>0, <1>18, <2>2 DEF NicTypes, RemoveEnds
<1>19. CASE UNCHANGED nicVars
  BY <1>0, <1>19 DEF NicTypes, nicVars
<1> QED
  BY <1>1, <1>3, <1>4, <1>5, <1>6, <1>7, <1>8, <1>9, <1>10, <1>11, <1>12, <1>13, <1>14,
     <1>15, <1>16, <1>17, <1>18, <1>19 DEF NicNext

\* Driver data, mappings and watchdog, and what the recovery visits.
LEMMA OwnStep == NicInv /\ [NicNext]_nicVars => Own' /\ WithBars'
<1> SUFFICES ASSUME NicInv, [NicNext]_nicVars PROVE Own' /\ WithBars'
  OBVIOUS
<1>0. NicTypes /\ Own /\ WithBars
  BY DEF NicInv
<1> USE DEF Own, WithBars, Bound, Go, At, walk, iface, Now, Acquire
<1>1. ASSUME NEW f \in Functions, ProbeEnable(f) PROVE Own' /\ WithBars'
  BY <1>0, <1>1 DEF NicTypes, ProbeEnable
<1>2. ASSUME NEW f \in Functions, NEW h, NEW gone, phase[f] # "unbound",
             ProbeFails(f, h, gone)
      PROVE  Own' /\ WithBars'
  BY <1>0, <1>2 DEF NicTypes, ProbeFails
<1>3. ASSUME NEW f \in Functions,
             ProbeMap(f) \/ ProbeFirmware(f) \/ ProbeAlloc(f) \/ ProbeRegister(f)
      PROVE  Own' /\ WithBars'
  <2>1. CASE \E h, gone : ProbeFails(f, h, gone)
    BY <1>2, <1>3, <2>1 DEF ProbeMap, ProbeFirmware, ProbeAlloc, ProbeRegister
  <2>2. CASE ProbeMap(f) /\ ~ \E h, gone : ProbeFails(f, h, gone)
    BY <1>0, <2>2 DEF NicTypes, ProbeMap
  <2>3. ASSUME NEW S, At(f, "mapped"), Acquire(f, S), Go(f, "started"), UNCHANGED drvdata
        PROVE  Own' /\ WithBars'
    BY <1>0, <2>3 DEF NicTypes
  <2>4. CASE ProbeAlloc(f) /\ ~ \E h, gone : ProbeFails(f, h, gone)
    BY <1>0, <2>4 DEF NicTypes, ProbeAlloc
  <2>5. CASE ProbeRegister(f) /\ ~ \E h, gone : ProbeFails(f, h, gone)
    BY <1>0, <2>5 DEF NicTypes, ProbeRegister
  <2>6. CASE ProbeFirmware(f) /\ ~ \E h, gone : ProbeFails(f, h, gone)
    <3>1. \E S : Acquire(f, S) /\ Go(f, "started") /\ UNCHANGED drvdata
      BY <2>6 DEF ProbeFirmware
    <3> QED BY <2>3, <2>6, <3>1 DEF ProbeFirmware
  <2> QED BY <1>3, <2>1, <2>2, <2>4, <2>5, <2>6
<1>4. ASSUME NEW f \in Functions, Open(f) PROVE Own' /\ WithBars'
  BY <1>0, <1>4
  DEF NicTypes, Open, AttachWorks, AttachFails, RingContext, Attached
<1>5. ASSUME NEW f \in Functions, Suspend(f) \/ VisitDetach(f) PROVE Own' /\ WithBars'
  BY <1>0, <1>5 DEF NicTypes, Suspend, VisitDetach, Visit, Detach, RingContext
<1>6. ASSUME NEW f \in Functions, Resume(f) \/ VisitAttach(f) PROVE Own' /\ WithBars'
  BY <1>0, <1>6 DEF NicTypes, Resume, VisitAttach, Visit
<1>7. CASE RestartFirmware
  BY <1>0, <1>7, LifecycleAssumption DEF NicTypes, RestartFirmware
<1>8. ASSUME NEW f \in Functions,
             Close(f) \/ RemoveFlushes(f) \/ RemoveTimer(f) \/ Skip(f) \/ VisitDead(f)
      PROVE  Own' /\ WithBars'
  BY <1>0, <1>8
  DEF NicTypes, Close, RemoveFlushes, RemoveTimer, Skip, Visit, VisitDead
<1>9. ASSUME NEW f \in Functions,
             RemoveDetaches(f) \/ RemoveCleans(f) \/ RemoveEnds(f)
      PROVE  Own' /\ WithBars'
  BY <1>0, <1>9
  DEF NicTypes, RemoveDetaches, RemoveCleans, RemoveEnds, Detach, RingContext
<1>10. CASE WatchdogFires \/ WatchdogRuns \/ WalkEnds \/ UNCHANGED nicVars
  BY <1>0, <1>10 DEF WatchdogFires, WatchdogRuns, WalkEnds, nicVars
<1> QED
  BY <1>1, <1>3, <1>4, <1>5, <1>6, <1>7, <1>8, <1>9, <1>10 DEF NicNext

LEMMA WatchedStep == NicInv /\ [NicNext]_nicVars => Watched'
<1> SUFFICES ASSUME NicInv, [NicNext]_nicVars PROVE Watched'
  OBVIOUS
<1>0. NicTypes /\ Watched /\ Port0 \in Functions
  BY LifecycleAssumption DEF NicInv
<1> USE DEF Watched, WatchdogOfTheBound, Probing, Phases, Go, At, walk, iface
<1>1. ASSUME NEW f \in Functions, ProbeEnable(f) PROVE Watched'
  BY <1>0, <1>1 DEF NicTypes, ProbeEnable
<1>2. ASSUME NEW f \in Functions, NEW h, NEW gone, phase[f] \in Probing,
             ProbeFails(f, h, gone)
      PROVE  Watched'
  BY <1>0, <1>2 DEF NicTypes, ProbeFails
<1>3. ASSUME NEW f \in Functions,
             ProbeMap(f) \/ ProbeFirmware(f) \/ ProbeAlloc(f) \/ ProbeRegister(f)
      PROVE  Watched'
  <2>1. CASE \E h, gone : ProbeFails(f, h, gone)
    BY <1>2, <1>3, <2>1 DEF ProbeMap, ProbeFirmware, ProbeAlloc, ProbeRegister
  <2>2. CASE ~ \E h, gone : ProbeFails(f, h, gone)
    <3>1. /\ phase[f] \in Probing
          /\ UNCHANGED <<work, late>>
          /\ \/ /\ timer' = (timer \/ f = Port0)
                /\ phase' = [phase EXCEPT ![f] = "bound"]
             \/ /\ UNCHANGED timer
                /\ \E p \in Probing : phase' = [phase EXCEPT ![f] = p]
      BY <1>3, <2>2 DEF ProbeMap, ProbeFirmware, ProbeAlloc, ProbeRegister
    <3> QED BY <1>0, <3>1 DEF NicTypes
  <2> QED BY <2>1, <2>2
<1>4. ASSUME NEW f \in Functions,
             \/ Open(f) \/ Close(f) \/ Suspend(f) \/ Resume(f) \/ Skip(f) \/ VisitDead(f)
             \/ VisitDetach(f) \/ VisitAttach(f)
      PROVE  Watched'
  BY <1>0, <1>4
  DEF Open, Close, Suspend, Resume, Visit, Skip, VisitDead, VisitDetach, VisitAttach
<1>5. CASE RestartFirmware
  BY <1>0, <1>5 DEF NicTypes, RestartFirmware
<1>6. ASSUME NEW f \in Functions, RemoveFlushes(f) \/ RemoveTimer(f) PROVE Watched'
  BY <1>0, <1>6 DEF NicTypes, RemoveFlushes, RemoveTimer
<1>7. ASSUME NEW f \in Functions,
             RemoveDetaches(f) \/ RemoveCleans(f) \/ RemoveEnds(f)
      PROVE  Watched'
  BY <1>0, <1>7 DEF NicTypes, RemoveDetaches, RemoveCleans, RemoveEnds
<1>8. CASE WatchdogFires \/ WatchdogRuns \/ WalkEnds \/ UNCHANGED nicVars
  BY <1>0, <1>8 DEF NicTypes, WatchdogFires, WatchdogRuns, WalkEnds, nicVars
<1> QED
  BY <1>1, <1>3, <1>4, <1>5, <1>6, <1>7, <1>8 DEF NicNext

LEMMA RecoveryStep == NicInv /\ [NicNext]_nicVars => RecoveryOnMapped'
<1> SUFFICES ASSUME NicInv, [NicNext]_nicVars PROVE RecoveryOnMapped'
  OBVIOUS
<1>1. ASSUME NEW g \in Functions, Visit(g) PROVE RecoveryOnMapped'
  <2>1. drvdata[g] # "null" /\ ~Visible(g) => drvdata[g] = "stale" \/ phase[g] = "cleaned"
    BY DEF NicInv, NicTypes, Own, WithBars, Visible, Bound
  <2> QED BY <1>1, <2>1 DEF NicInv, RecoveryOnMapped, Visit
<1>2. CASE UNCHANGED strays
  BY <1>2 DEF NicInv, RecoveryOnMapped
<1>3. (\E g \in Functions : Visit(g)) \/ UNCHANGED strays
  <2>1. CASE WatchdogFires \/ WatchdogRuns \/ RestartFirmware \/ WalkEnds \/ UNCHANGED nicVars
    BY <2>1 DEF WatchdogFires, WatchdogRuns, RestartFirmware, WalkEnds, nicVars
  <2>2. ASSUME NEW f \in Functions,
               \/ ProbeEnable(f) \/ ProbeMap(f) \/ ProbeFirmware(f) \/ ProbeAlloc(f)
               \/ ProbeRegister(f)
        PROVE  UNCHANGED strays
    BY <2>2 DEF ProbeEnable, ProbeMap, ProbeFirmware, ProbeAlloc, ProbeRegister, ProbeFails
  <2>3. ASSUME NEW f \in Functions,
               \/ Open(f) \/ Close(f) \/ Suspend(f) \/ Resume(f)
               \/ RemoveFlushes(f) \/ RemoveTimer(f) \/ RemoveDetaches(f) \/ RemoveCleans(f)
               \/ RemoveEnds(f)
        PROVE  UNCHANGED strays
    BY <2>3
    DEF Open, Close, Suspend, Resume, RemoveFlushes, RemoveTimer, RemoveDetaches,
        RemoveCleans, RemoveEnds
  <2>4. ASSUME NEW f \in Functions,
               Skip(f) \/ VisitDetach(f) \/ VisitDead(f) \/ VisitAttach(f)
        PROVE  Visit(f)
    BY <2>4 DEF Skip, VisitDetach, VisitDead, VisitAttach
  <2> QED BY <2>1, <2>2, <2>3, <2>4 DEF NicNext
<1> QED BY <1>1, <1>2, <1>3
-----------------------------------------------------------------------------
LEMMA ExplainedMeans ==
  ASSUME NEW f \in Functions
  PROVE  /\ "probe" \in excused[f] => {"netdev", "dummy", "aer", "bars"} \subseteq Explained(f)
         /\ "dead" \in excused[f] => {"txbufs", "dma", "irq"} \subseteq Explained(f)
         /\ "pexq" \in excused[f] => "pexq" \in Explained(f)
         /\ "both" \in excused[f] => {"lro", "dummy"} \subseteq Explained(f)
BY DEF Explained

LEMMA ExplainedMeansNext ==
  ASSUME NEW f \in Functions
  PROVE  /\ "probe" \in excused'[f] => {"netdev", "dummy", "aer", "bars"} \subseteq Explained(f)'
         /\ "dead" \in excused'[f] => {"txbufs", "dma", "irq"} \subseteq Explained(f)'
         /\ "pexq" \in excused'[f] => "pexq" \in Explained(f)'
         /\ "both" \in excused'[f] => {"lro", "dummy"} \subseteq Explained(f)'
BY DEF Explained

LEMMA ExplainedGrows ==
  ASSUME NEW f \in Functions, excused[f] \subseteq excused'[f]
  PROVE  Explained(f) \subseteq Explained(f)'
BY DEF Explained

LEMMA ExcuseAdds ==
  ASSUME NicTypes, NEW f \in Functions, NEW why, Excuse(f, why)
  PROVE  /\ excused'[f] = excused[f] \cup {why}
         /\ \A g \in Functions \ {f} : excused'[g] = excused[g]
BY DEF NicTypes, Excuse

\* What the account of a function speaks of.
Untouched(g) ==
  /\ phase'[g] = phase[g] /\ held'[g] = held[g] /\ lost'[g] = lost[g]
  /\ up'[g] = up[g] /\ open'[g] = open[g] /\ asleep'[g] = asleep[g]
  /\ excused'[g] = excused[g]

LEMMA OtherAccounted ==
  ASSUME NEW g \in Functions, Account(g), Untouched(g), UNCHANGED work,
         g \in todo' <=> g \in todo
  PROVE  Account(g)'
<1>1. Explained(g)' = Explained(g)
  BY DEF Untouched, Explained
<1> QED
  BY <1>1 DEF Untouched, Account, Bounded, OpenBound, UpHolds, Asleep, Visited, NoLro, NoDummy

\* A function that is being probed: it holds little, and no walk needs it.
LEMMA ProbedAccounted ==
  ASSUME NEW f \in Functions, ~open'[f], ~asleep'[f], Bounded(f)',
         phase'[f] \in {"unbound"} \cup Probing, Watched',
         phase'[f] = "ready" => (work' \in {"detach", "attach"} => "both" \in excused'[f]),
         lost'[f] \subseteq Explained(f)'
  PROVE  Account(f)'
<1>1. OpenBound(f)' /\ Asleep(f)'
  BY DEF OpenBound, Asleep
<1>2. held'[f] \subseteq Ready
  BY DEF Bounded, Probing, Early, Mapped, Started, Ready
<1>3. UpHolds(f)'
  BY <1>2 DEF UpHolds, Ready, Started, Mapped, Early, RingContext
<1>4. Visited(f)'
  BY LifecycleAssumption
  DEF Visited, NoLro, NoDummy, Bounded, Watched, Probing, Early, Mapped, Started
<1> QED BY <1>1, <1>3, <1>4 DEF Account

LEMMA ProbeFailsAccounted ==
  ASSUME NicInv, NEW f \in Functions, Account(f), phase[f] \in Probing,
         NEW h \in SUBSET Ready, NEW gone \in SUBSET {"bars"}, ProbeFails(f, h, gone), Watched'
  PROVE  Account(f)'
<1>0. NicTypes
  BY DEF NicInv
<1>1. /\ phase'[f] = "unbound" /\ held'[f] = {} /\ excused'[f] = excused[f] \cup {"probe"}
      /\ lost'[f] = lost[f] \cup gone \cup CleanupAdapter(h \ {"fwfile"})
      /\ UNCHANGED <<open, asleep>>
  BY <1>0 DEF ProbeFails, NicTypes, Go, Now, Excuse, iface
<1>2. CleanupAdapter(h \ {"fwfile"}) \subseteq {"netdev", "dummy"}
  BY DEF CleanupAdapter, Cleaned, Ready, Started, Mapped, Early
<1>3. lost'[f] \subseteq Explained(f)'
  BY ZenonT(60), <1>1, <1>2, ExplainedMeansNext, ExplainedGrows DEF Account
<1>4. ~open[f] /\ ~asleep[f]
  BY <1>0 DEF Account, OpenBound, Asleep, Probing, Bound, NicTypes
<1> QED
  BY <1>1, <1>3, <1>4, ProbedAccounted DEF Bounded

LEMMA ProbeAccounted ==
  ASSUME NicInv, NEW f \in Functions, Account(f), Watched',
         ProbeEnable(f) \/ ProbeMap(f) \/ ProbeFirmware(f) \/ ProbeAlloc(f)
           \/ ProbeRegister(f)
  PROVE  Account(f)'
<1>0. NicTypes
  BY DEF NicInv
<1>1. /\ phase[f] \in {"unbound"} \cup Probing
      /\ ~open[f] /\ ~asleep[f]
  BY <1>0
  DEF Account, OpenBound, Asleep, Bound, Probing, NicTypes, At, ProbeEnable, ProbeMap,
      ProbeFirmware, ProbeAlloc, ProbeRegister
<1>2. CASE ProbeEnable(f)
  <2>1. UNCHANGED <<open, asleep>> /\ held[f] = {}
    BY <1>2 DEF ProbeEnable, iface, Account, Bounded, At
  <2>2. PICK aer \in SUBSET (Has \cap {"aer"}) :
          \/ /\ Now(f, {"pci", "regions", "netdev"} \cup aer, lost[f])
             /\ Go(f, "enabled")
             /\ UNCHANGED <<drvdata, excused, faults>>
          \/ /\ Fault /\ Now(f, {}, lost[f] \cup aer)
             /\ drvdata' = [drvdata EXCEPT ![f] = "null"]
             /\ Excuse(f, "probe")
             /\ UNCHANGED phase
    BY <1>2 DEF ProbeEnable
  <2>3. CASE /\ Now(f, {"pci", "regions", "netdev"} \cup aer, lost[f])
             /\ Go(f, "enabled")
             /\ UNCHANGED <<drvdata, excused, faults>>
    <3>1. /\ held'[f] = {"pci", "regions", "netdev"} \cup aer /\ lost'[f] = lost[f]
          /\ phase'[f] = "enabled" /\ excused'[f] = excused[f]
      BY <1>0, <2>3 DEF NicTypes, Now, Go
    <3>2. Bounded(f)'
      BY <3>1 DEF Bounded, Early
    <3>3. lost'[f] \subseteq Explained(f)'
      BY <3>1, ExplainedGrows DEF Account
    <3> QED BY <1>1, <2>1, <3>1, <3>2, <3>3, ProbedAccounted DEF Probing
  <2>4. CASE Fault /\ Now(f, {}, lost[f] \cup aer) /\ Excuse(f, "probe") /\ UNCHANGED phase
    <3>1. /\ held'[f] = {} /\ lost'[f] = lost[f] \cup aer
          /\ phase'[f] = "unbound" /\ excused'[f] = excused[f] \cup {"probe"}
      BY <1>0, <1>2, <2>4 DEF NicTypes, Now, Excuse, At, ProbeEnable
    <3>2. lost'[f] \subseteq Explained(f)'
      BY <3>1, ExplainedGrows, ExplainedMeansNext DEF Account
    <3> QED BY <1>1, <2>1, <3>1, <3>2, ProbedAccounted DEF Bounded
  <2> QED BY <2>2, <2>3, <2>4
<1>3. CASE ProbeMap(f)
  <2>1. held[f] \subseteq Early
    BY <1>3 DEF ProbeMap, At, Account, Bounded
  <2>2. CASE /\ Acquire(f, {"bars", "doorbell"}) /\ Go(f, "mapped")
             /\ UNCHANGED <<drvdata, iface, walk, strays, excused, faults>>
    <3>1. /\ held'[f] = held[f] \cup {"bars", "doorbell"}
          /\ lost'[f] = lost[f] \cup (held[f] \cap {"bars", "doorbell"})
          /\ phase'[f] = "mapped" /\ excused'[f] = excused[f] /\ UNCHANGED <<open, asleep>>
      BY <1>0, <2>2 DEF NicTypes, Acquire, Now, Go, iface
    <3>2. Bounded(f)' /\ lost'[f] = lost[f]
      BY <2>1, <3>1 DEF Bounded, Early, Mapped
    <3>3. lost'[f] \subseteq Explained(f)'
      BY <3>1, <3>2, ExplainedGrows DEF Account
    <3> QED BY <1>1, <3>1, <3>2, <3>3, ProbedAccounted DEF Probing
  <2>3. CASE \E gone \in {{}, {"bars"}} : ProbeFails(f, held[f], gone)
    <3>1. held[f] \in SUBSET Ready /\ phase[f] \in Probing
      BY <1>3, <2>1 DEF ProbeMap, At, Probing, Ready, Started, Mapped
    <3>2. \A gone \in {{}, {"bars"}} : gone \in SUBSET {"bars"}
      OBVIOUS
    <3> QED BY <2>3, <3>1, <3>2, ProbeFailsAccounted
  <2> QED BY <1>3, <2>2, <2>3 DEF ProbeMap
<1>4. CASE ProbeFirmware(f)
  <2>1. held[f] \subseteq Mapped /\ phase[f] = "mapped"
    BY <1>4 DEF ProbeFirmware, At, Account, Bounded
  <2>2. \A S \in FirmwareThings(f) \cup {{}} :
          held[f] \cup S \in SUBSET Ready /\ held[f] \cap S = {}
    BY <2>1, SmallSets DEF Ready, Started, Mapped, Early
  <2>3. ASSUME NEW S \in FirmwareThings(f), Acquire(f, S), Go(f, "started"),
               UNCHANGED <<drvdata, iface, walk, strays, excused, faults>>
        PROVE  Account(f)'
    <3>1. /\ held'[f] = held[f] \cup S
          /\ lost'[f] = lost[f] \cup (held[f] \cap S)
          /\ phase'[f] = "started" /\ excused'[f] = excused[f] /\ UNCHANGED <<open, asleep>>
      BY <1>0, <2>3 DEF NicTypes, Acquire, Now, Go, iface
    <3>2. Bounded(f)' /\ lost'[f] = lost[f]
      BY <2>1, <2>2, <3>1, SmallSets DEF Bounded, Started
    <3>3. lost'[f] \subseteq Explained(f)'
      BY <3>1, <3>2, ExplainedGrows DEF Account
    <3> QED BY <1>1, <3>1, <3>2, <3>3, ProbedAccounted DEF Probing
  <2>4. ASSUME NEW S \in FirmwareThings(f) \cup {{}}, ProbeFails(f, held[f] \cup S, {})
        PROVE  Account(f)'
    BY <2>1, <2>2, <2>4, ProbeFailsAccounted DEF Probing
  <2>5. ProbeFails(f, held[f], {}) => Account(f)'
    BY <2>4
  <2> QED BY <1>4, <2>3, <2>4, <2>5 DEF ProbeFirmware
<1>5. CASE ProbeAlloc(f)
  <2>1. held[f] \subseteq Started /\ phase[f] = "started"
    BY <1>5 DEF ProbeAlloc, At, Account, Bounded
  <2>2. ASSUME NEW S \in {{}, {"dev", "sds"}},
               ProbeFails(f, held[f] \cup S \cup (Has \cap {"msi"}), {})
        PROVE  Account(f)'
    <3>1. held[f] \cup S \cup (Has \cap {"msi"}) \in SUBSET Ready
      BY <2>1 DEF Ready
    <3> QED BY <2>1, <2>2, <3>1, ProbeFailsAccounted DEF Probing
  <2>3. CASE ~ \E S \in {{}, {"dev", "sds"}} :
               ProbeFails(f, held[f] \cup S \cup (Has \cap {"msi"}), {})
    <3> DEFINE T == (Has \cap {"msi", "lro"}) \cup {"dev", "sds"}
    <3>1. /\ Acquire(f, T) /\ Go(f, "ready") /\ UNCHANGED <<open, asleep, work>>
          /\ IF Walking THEN Excuse(f, "both") ELSE UNCHANGED excused
      BY <1>5, <2>3 DEF ProbeAlloc, walk
    <3>2. /\ held'[f] = held[f] \cup T
          /\ lost'[f] = lost[f] \cup (held[f] \cap T)
          /\ phase'[f] = "ready"
      BY <1>0, <3>1 DEF NicTypes, Acquire, Now, Go
    <3>3. /\ excused[f] \subseteq excused'[f]
          /\ work' \in {"detach", "attach"} => "both" \in excused'[f]
      BY <1>0, <3>1 DEF NicTypes, Excuse, Walking
    <3>4. Bounded(f)' /\ lost'[f] = lost[f]
      BY <2>1, <3>2 DEF Bounded, Early, Mapped, Started, Ready
    <3>5. lost'[f] \subseteq Explained(f)'
      BY <3>3, <3>4, ExplainedGrows DEF Account
    <3> QED BY <1>1, <3>1, <3>2, <3>3, <3>4, <3>5, ProbedAccounted DEF Probing
  <2> QED BY <1>5, <2>2, <2>3
<1>6. CASE ProbeRegister(f)
  <2>1. held[f] \subseteq Ready /\ phase[f] = "ready"
    BY <1>6 DEF ProbeRegister, At, Account, Bounded
  <2>2. CASE ProbeFails(f, held[f], {})
    BY <2>1, <2>2, ProbeFailsAccounted DEF Probing
  <2>3. CASE ~ProbeFails(f, held[f], {})
    <3>1. /\ held'[f] = held[f] \cup {"registered"}
          /\ lost'[f] = lost[f] \cup (held[f] \cap {"registered"})
          /\ phase'[f] = "bound"
          /\ UNCHANGED <<up, open, asleep, work, todo, excused>>
      BY <1>0, <1>6, <2>3 DEF NicTypes, ProbeRegister, Acquire, Now, Go, iface
    <3>2. lost'[f] = lost[f] /\ Explained(f)' = Explained(f)
      BY <2>1, <3>1 DEF Ready, Started, Mapped, Early, Explained
    <3> QED
      BY <1>1, <3>1, <3>2
      DEF Account, Bounded, OpenBound, UpHolds, Asleep, Visited, NoLro, NoDummy, RingContext
  <2> QED BY <2>2, <2>3
<1> QED BY <1>2, <1>3, <1>4, <1>5, <1>6 DEF ProbeEnable

\* What the account of a function needs of a step of its own.
LEMMA BoundAccounted ==
  ASSUME NEW f \in Functions, phase'[f] \in {"detached"} \cup Bound,
         open'[f] => phase'[f] \in Bound,
         lost'[f] \subseteq Explained(f)',
         phase'[f] = "detached" => held'[f] \subseteq (Ready \ {"dummy"}) \cup {"irq"},
         UpHolds(f)', Asleep(f)', Visited(f)'
  PROVE  Account(f)'
BY DEF Account, Bounded, OpenBound, Bound

\* Opening: what is acquired again was left by an open that failed, or by one of an
\* interface whose firmware is dead.
LEMMA OpenAccounted ==
  ASSUME NicInv, NEW f \in Functions, Account(f), Open(f)
  PROVE  Account(f)'
<1>0. NicTypes
  BY DEF NicInv
<1>1. /\ phase'[f] = "bound" /\ phase[f] = "bound"
      /\ UNCHANGED <<asleep, work, todo>>
  BY <1>0 DEF Open, At, NicTypes, walk
<1>2. excused[f] \subseteq excused'[f] /\ (up[f] = "dead" => "dead" \in excused'[f])
  BY <1>0 DEF Open, Excuse, NicTypes
<1>3. up[f] = "down" /\ up'[f] = "down" /\ "pexq" \in held'[f] => "pexq" \in excused'[f]
  BY <1>0 DEF Open, Excuse, NicTypes
<1>4. ASSUME held'[f] \cap {"pci", "lro", "dummy"} = held[f] \cap {"pci", "lro", "dummy"}
      PROVE  Asleep(f)' /\ Visited(f)'
  BY <1>1, <1>2, <1>4 DEF Account, Asleep, Visited, NoLro, NoDummy, Bound
<1>5. CASE UNCHANGED <<held, lost>> /\ up' = up
  <2>1. UpHolds(f)'
    BY <1>2, <1>5 DEF Account, UpHolds
  <2>2. lost'[f] \subseteq Explained(f)'
    BY <1>2, <1>5, ExplainedGrows DEF Account
  <2> QED BY <1>1, <1>4, <1>5, <2>1, <2>2, BoundAccounted DEF Bound
<1>6. CASE Acquire(f, Attached) /\ up[f] = "down" /\ up'[f] = "up"
  <2>1. /\ held'[f] = held[f] \cup Attached
        /\ lost'[f] = lost[f] \cup (held[f] \cap Attached)
    BY <1>0, <1>6, SmallSets, AcquireTyped
  <2>2. held[f] \cap Attached \subseteq Explained(f)'
    BY <1>2, <1>6, ExplainedMeansNext DEF Account, UpHolds, Attached, RingContext
  <2>3. UpHolds(f)'
    BY <1>6, <2>1 DEF UpHolds, Attached, RingContext
  <2>4. held'[f] \cap {"pci", "lro", "dummy"} = held[f] \cap {"pci", "lro", "dummy"}
    BY <2>1 DEF Attached, RingContext
  <2>5. lost'[f] \subseteq Explained(f)'
    BY <1>2, <2>1, <2>2, ExplainedGrows DEF Account
  <2> QED BY <1>1, <1>4, <2>3, <2>4, <2>5, BoundAccounted DEF Bound
<1>7. CASE AttachFails(f) /\ ~UNCHANGED <<held, lost>> /\ up[f] = "down"
  <2>1. PICK p \in SUBSET (Has \cap {"pexq"}) :
          Now(f, (held[f] \ RingContext) \cup p, lost[f] \cup (held[f] \cap p))
    BY <1>7 DEF AttachFails
  <2>2. /\ held'[f] = (held[f] \ RingContext) \cup p /\ up'[f] = "down"
        /\ lost'[f] = lost[f] \cup (held[f] \cap p)
    BY <1>0, <1>7, <2>1 DEF NicTypes, Now, AttachFails
  <2>3. held[f] \cap p \subseteq Explained(f)'
    BY <1>2, <1>7, ExplainedMeansNext DEF Account, UpHolds
  <2>4. UpHolds(f)'
    BY <1>2, <1>3, <1>7, <2>2 DEF Account, UpHolds, RingContext
  <2>5. held'[f] \cap {"pci", "lro", "dummy"} = held[f] \cap {"pci", "lro", "dummy"}
    BY <2>2 DEF RingContext
  <2>6. lost'[f] \subseteq Explained(f)'
    BY <1>2, <2>2, <2>3, ExplainedGrows DEF Account
  <2> QED BY <1>1, <1>4, <2>4, <2>5, <2>6, BoundAccounted DEF Bound
<1>8. CASE AttachFails(f) /\ ~UNCHANGED <<held, lost>> /\ up[f] = "dead"
  <2>1. /\ held'[f] = held[f] \ RingContext /\ up'[f] = "dead"
        /\ lost'[f] = lost[f] \cup (held[f] \cap {"txbufs", "dma"})
    BY <1>0, <1>8 DEF NicTypes, Now, AttachFails
  <2>2. UpHolds(f)'
    BY <1>2, <1>8, <2>1 DEF Account, UpHolds, RingContext
  <2>3. held'[f] \cap {"pci", "lro", "dummy"} = held[f] \cap {"pci", "lro", "dummy"}
    BY <2>1 DEF RingContext
  <2>4. lost'[f] \subseteq Explained(f)'
    BY <1>2, <1>8, <2>1, ExplainedGrows, ExplainedMeansNext DEF Account
  <2> QED BY <1>1, <1>4, <2>2, <2>3, <2>4, BoundAccounted DEF Bound
<1>9. AttachFails(f) \/ AttachWorks(f)
  BY DEF Open
<1> QED
  BY ZenonT(60), <1>0, <1>5, <1>6, <1>7, <1>8, <1>9 DEF AttachFails, AttachWorks, NicTypes

\* Detaching lets go of what an interface that is up holds.
LEMMA DetachLeaves ==
  ASSUME NEW f \in Functions, Account(f), NEW h, h \subseteq Detach(f), held'[f] = h,
         up'[f] = "down", excused'[f] = excused[f]
  PROVE  /\ UpHolds(f)' /\ "dummy" \notin h
         /\ h \cap (RingContext \cup {"pexq"}) = {} /\ h \subseteq held[f]
BY DEF Account, UpHolds, Detach, RingContext

LEMMA SuspendAccounted ==
  ASSUME NicInv, NEW f \in Functions, Account(f), Suspend(f)
  PROVE  Account(f)'
<1>0. NicTypes
  BY DEF NicInv
<1>1. /\ phase'[f] = "bound" /\ held'[f] = Detach(f) \ {"lro", "pci"}
      /\ lost'[f] = lost[f] /\ up'[f] = "down" /\ excused'[f] = excused[f]
  BY <1>0 DEF Suspend, At, NicTypes, Now
<1>2. UpHolds(f)' /\ held'[f] \cap {"lro", "pci", "dummy"} = {}
  BY <1>1, DetachLeaves
<1>3. lost'[f] \subseteq Explained(f)'
  BY <1>1, ExplainedGrows DEF Account
<1>4. Asleep(f)' /\ Visited(f)'
  BY <1>1, <1>2 DEF Asleep, Visited, NoLro, NoDummy, Bound
<1> QED BY <1>1, <1>2, <1>3, <1>4, BoundAccounted DEF Bound

\* Resuming acquires what suspending gave back; what else may be there crossed a recovery.
LEMMA ResumeAccounted ==
  ASSUME NicInv, NEW f \in Functions, Account(f), Resume(f)
  PROVE  Account(f)'
<1>0. NicTypes
  BY DEF NicInv
<1>1. /\ phase'[f] = "bound" /\ asleep[f] /\ UNCHANGED <<work, todo, open>>
  BY <1>0 DEF Resume, At, NicTypes, walk
<1>2. excused[f] \subseteq excused'[f] /\ (Walking => "both" \in excused'[f])
  BY <1>0 DEF Resume, Excuse, NicTypes
<1>3. /\ "pci" \notin held[f] /\ NoLro(f)
      /\ f = Port0 => ("dummy" \in held[f] => "both" \in excused'[f])
  BY <1>1, <1>2 DEF Account, Asleep, NoDummy, Walking
<1>4. Visited(f)'
  BY <1>1, <1>2 DEF Visited, NoLro, NoDummy, Walking
<1>5. CASE UNCHANGED <<held, lost, up, asleep>>
  <2>1. UpHolds(f)' /\ Asleep(f)'
    BY <1>1, <1>2, <1>5 DEF Account, UpHolds, Asleep, NoLro, NoDummy, Bound
  <2>2. lost'[f] \subseteq Explained(f)'
    BY <1>2, <1>5, ExplainedGrows DEF Account
  <2> QED BY <1>1, <1>4, <2>1, <2>2, BoundAccounted DEF Bound
<1>6. ASSUME NEW S \in FirmwareThings(f), NEW l \in SUBSET (Has \cap {"lro"}),
             NEW a \in {{}, Attached}, Acquire(f, S \cup l \cup {"pci"} \cup a),
             asleep'[f] = FALSE, up'[f] \in {up[f], "up"},
             a # {} => up[f] = "down" /\ up'[f] = "up"
      PROVE  Account(f)'
  <2> DEFINE T == S \cup l \cup {"pci"} \cup a
  <2>1. T \in SUBSET Things
    BY SmallSets DEF Things, Ready, Started, Mapped, Early
  <2>2. held'[f] = held[f] \cup T /\ lost'[f] = lost[f] \cup (held[f] \cap T)
    BY <1>0, <1>6, <2>1, AcquireTyped
  <2>3. held[f] \cap S \subseteq Explained(f)'
    BY <1>3, SmallSets, ExplainedMeansNext
  <2>4. held[f] \cap l \subseteq Explained(f)'
    BY <1>2, <1>3, ExplainedMeansNext DEF NoLro
  <2>5. held[f] \cap a \subseteq Explained(f)'
    BY <1>2, <1>6, ExplainedMeansNext DEF Account, UpHolds, Attached, RingContext
  <2>6. lost'[f] \subseteq Explained(f)'
    BY <1>2, <1>3, <2>2, <2>3, <2>4, <2>5, ExplainedGrows DEF Account
  <2>7. UpHolds(f)'
    <3>1. CASE a = {}
      <4>1. held'[f] \cap (RingContext \cup {"irq", "pexq"})
              = held[f] \cap (RingContext \cup {"irq", "pexq"})
        BY <2>2, <3>1, SmallSets DEF RingContext
      <4> QED BY <1>2, <1>6, <4>1 DEF Account, UpHolds, RingContext
    <3>2. CASE a = Attached /\ a # {}
      BY <1>6, <2>2, <3>2 DEF UpHolds, Attached, RingContext
    <3> QED BY <3>1, <3>2
  <2>8. Asleep(f)'
    BY <1>6 DEF Asleep
  <2> QED BY <1>1, <1>4, <2>6, <2>7, <2>8, BoundAccounted DEF Bound
<1>7. ASSUME NEW S \in FirmwareThings(f), Acquire(f, S \cup {"pci"}),
             asleep' = [asleep EXCEPT ![f] = FALSE], up' = up
      PROVE  Account(f)'
  <2>1. S \cup {"pci"} = S \cup {} \cup {"pci"} \cup {}
    OBVIOUS
  <2>2. asleep'[f] = FALSE /\ up'[f] = up[f]
    BY <1>0, <1>7 DEF NicTypes
  <2> QED BY <1>6, <1>7, <2>1, <2>2
<1>8. ASSUME NEW S \in FirmwareThings(f), NEW l \in SUBSET (Has \cap {"lro"}),
             Acquire(f, S \cup l \cup {"pci"}
                          \cup IF open[f] /\ up[f] = "down" THEN Attached ELSE {}),
             up' = [up EXCEPT ![f] = IF open[f] THEN "up" ELSE @],
             asleep' = [asleep EXCEPT ![f] = FALSE]
      PROVE  Account(f)'
  <2>1. asleep'[f] = FALSE /\ up'[f] = IF open[f] THEN "up" ELSE up[f]
    BY <1>0, <1>8 DEF NicTypes
  <2>2. CASE open[f] /\ up[f] = "down"
    <3>1. Acquire(f, S \cup l \cup {"pci"} \cup Attached)
      BY <1>8, <2>2
    <3> QED BY <1>6, <2>1, <2>2, <3>1
  <2>3. CASE ~(open[f] /\ up[f] = "down")
    <3>1. Acquire(f, S \cup l \cup {"pci"} \cup {})
      BY <1>8, <2>3
    <3> QED BY <1>6, <2>1, <2>3, <3>1
  <2> QED BY <2>2, <2>3
<1> QED BY <1>5, <1>7, <1>8 DEF Resume

\* The walk of the recovery.
LEMMA VisitAccounted ==
  ASSUME NicInv, NEW f \in Functions, Account(f), ~Excepted(f),
         Skip(f) \/ VisitDetach(f) \/ VisitDead(f) \/ VisitAttach(f)
  PROVE  Account(f)'
<1>0. NicTypes
  BY DEF NicInv
<1>1. /\ f \in todo /\ todo' = todo \ {f} /\ phase[Port0] # "unbound"
      /\ UNCHANGED <<phase, open, asleep, work>>
  BY DEF Skip, VisitDetach, VisitDead, VisitAttach, Visit
<1>2. f = Port0 /\ work \in {"attach", "detach"} => phase[f] \in Bound
  BY <1>0, <1>1
  DEF NicInv, Watched, WatchdogOfTheBound, Excepted, NicTypes, Probing, Phases, Bound
<1>3. Visible(f) <=> phase[f] \in {"ready", "detached"} \cup Bound
  BY <1>0 DEF NicInv, Own, WithBars, Visible, NicTypes, Account, Bounded, Bound
<1>4. CASE Skip(f)
  <2>1. UNCHANGED <<held, lost, up, excused>>
    BY <1>4 DEF Skip
  <2>2. phase[f] \notin {"ready", "detached"} \cup Bound
    BY <1>3, <1>4 DEF Skip
  <2>3. f = Port0 => work \notin {"attach", "detach"}
    BY <1>2, <2>2
  <2>5. held[f] \subseteq Started \cup {"irq"}
    <3>1. phase[f] \in {"unbound", "enabled", "mapped", "started", "cleaned"}
      BY <1>0, <2>2 DEF NicTypes, Phases, Bound
    <3> QED BY <3>1 DEF Account, Bounded, Early, Mapped, Started
  <2>6. "lro" \notin held[f]
    BY <2>5 DEF Started, Mapped, Early
  <2>4. Asleep(f)' /\ Visited(f)'
    BY <1>1, <2>1, <2>3, <2>6 DEF Account, Asleep, Visited, NoLro, NoDummy
  <2> QED
    BY <1>1, <2>1, <2>4 DEF Account, Bounded, OpenBound, UpHolds, Explained
<1>5. CASE VisitDetach(f)
  <2>1. /\ held'[f] = Detach(f) \ {"lro"} /\ lost'[f] = lost[f] /\ up'[f] = "down"
        /\ excused'[f] = excused[f] /\ work # "attach"
        /\ phase[f] \in {"ready", "detached"} \cup Bound
    BY <1>0, <1>3, <1>5 DEF VisitDetach, NicTypes, Now
  <2>2. UpHolds(f)' /\ held'[f] \cap {"lro", "dummy"} = {} /\ held'[f] \subseteq held[f]
    BY <2>1, DetachLeaves
  <2>3. lost'[f] \subseteq Explained(f)'
    BY <2>1, ExplainedGrows DEF Account
  <2>4. Asleep(f)' /\ Visited(f)'
    BY <1>1, <2>1, <2>2 DEF Account, Asleep, Visited, NoLro, NoDummy
  <2>5. Bounded(f)' /\ OpenBound(f)'
    BY <1>1, <2>1, <2>2 DEF Account, Bounded, OpenBound, Bound
  <2> QED BY <2>2, <2>3, <2>4, <2>5 DEF Account
<1>6. CASE VisitDead(f)
  <2>1. /\ UNCHANGED <<held, lost, excused>> /\ up'[f] = "dead" /\ work = "dead"
    BY <1>0, <1>6 DEF VisitDead, NicTypes
  <2>2. UpHolds(f)'
    BY <2>1 DEF Account, UpHolds
  <2> QED
    BY <1>1, <2>1, <2>2
    DEF Account, Bounded, OpenBound, Explained, Asleep, Visited, NoLro, NoDummy
<1>7. CASE VisitAttach(f)
  <2>1. PICK l \in SUBSET (Has \cap {"lro"}), a \in {{}, Attached} :
          /\ a # {} => open[f] /\ up[f] = "down"
          /\ Acquire(f, l \cup a)
          /\ up' = [up EXCEPT ![f] = IF a # {} THEN "up" ELSE @]
    BY <1>7 DEF VisitAttach
  <2>2. /\ excused[f] \subseteq excused'[f] /\ (asleep[f] => "both" \in excused'[f])
        /\ work = "attach" /\ phase[f] \in {"ready", "detached"} \cup Bound
    BY <1>0, <1>3, <1>7 DEF VisitAttach, Excuse, NicTypes
  <2>3. l \cup a \in SUBSET Things
    BY SmallSets DEF Things, Ready
  <2>4. /\ held'[f] = held[f] \cup l \cup a
        /\ lost'[f] = lost[f] \cup (held[f] \cap l) \cup (held[f] \cap a)
        /\ up'[f] = IF a # {} THEN "up" ELSE up[f]
    BY <1>0, <2>1, <2>3, AcquireTyped DEF NicTypes
  <2>5. held[f] \cap l \subseteq Explained(f)'
    BY <1>1, <2>2, ExplainedMeansNext DEF Account, Visited, NoLro
  <2>6. held[f] \cap a \subseteq Explained(f)'
    BY <2>1, <2>2, ExplainedMeansNext DEF Account, UpHolds, Attached, RingContext
  <2>7. lost'[f] \subseteq Explained(f)'
    BY <2>2, <2>4, <2>5, <2>6, ExplainedGrows DEF Account
  <2>8. UpHolds(f)'
    <3>1. CASE a = {}
      BY <2>2, <2>4, <3>1 DEF Account, UpHolds, RingContext
    <3>2. CASE a = Attached /\ a # {}
      BY <2>4, <3>2 DEF UpHolds, Attached, RingContext
    <3> QED BY <3>1, <3>2
  <2>9. Asleep(f)'
    <3>1. "pci" \in held'[f] => "pci" \in held[f]
      BY <2>4 DEF Attached, RingContext
    <3> QED BY <1>1, <2>2, <3>1 DEF Account, Asleep, NoLro, NoDummy
  <2>10. Visited(f)'
    BY <1>1, <2>2 DEF Visited
  <2>11. Bounded(f)' /\ OpenBound(f)'
    <3>1. phase[f] \notin Bound => a = {}
      BY <2>1 DEF Account, OpenBound
    <3> QED
      BY <1>1, <2>2, <2>4, <3>1 DEF Account, Bounded, OpenBound, Bound, Ready
  <2> QED BY <2>7, <2>8, <2>9, <2>10, <2>11 DEF Account
<1> QED BY <1>4, <1>5, <1>6, <1>7

\* Removal, and an interface that is closed.
LEMMA RemoveAccounted ==
  ASSUME NicInv, NEW f \in Functions, Account(f),
         \/ Close(f) \/ RemoveFlushes(f) \/ RemoveTimer(f) \/ RemoveDetaches(f)
         \/ RemoveCleans(f) \/ RemoveEnds(f)
  PROVE  Account(f)'
<1>0. NicTypes
  BY DEF NicInv
<1>1. UNCHANGED <<work, todo, excused>> /\ Explained(f)' = Explained(f)
  BY DEF Close, RemoveFlushes, RemoveTimer, RemoveDetaches, RemoveCleans, RemoveEnds, walk,
     Explained
<1>2. CASE Close(f) \/ RemoveFlushes(f) \/ RemoveTimer(f)
  <2>1. /\ UNCHANGED <<held, lost, up, asleep>> /\ {phase[f], phase'[f]} \subseteq Bound
    BY <1>0, <1>2 DEF Close, RemoveFlushes, RemoveTimer, NicTypes, At, Go, iface, Bound
  <2> QED
    BY <1>1, <2>1
    DEF Account, Bounded, OpenBound, UpHolds, Asleep, Visited, NoLro, NoDummy, Bound
<1>3. CASE RemoveDetaches(f)
  <2>1. /\ phase[f] = "untimed" /\ phase'[f] = "detached" /\ open'[f] = FALSE
        /\ held'[f] = Detach(f) \ {"registered"} /\ lost'[f] = lost[f] /\ up'[f] = "down"
        /\ asleep' = asleep
    BY <1>0, <1>3 DEF RemoveDetaches, NicTypes, At, Go, Now
  <2>2. /\ UpHolds(f)' /\ "dummy" \notin held'[f] /\ held'[f] \subseteq held[f]
        /\ held'[f] \cap (RingContext \cup {"pexq"}) = {}
    BY <1>1, <2>1, DetachLeaves
  <2>3. held'[f] \subseteq (Ready \ {"dummy"}) \cup {"irq"}
    BY <1>0, <2>1, <2>2 DEF NicTypes, Things
  <2> QED
    BY <1>1, <2>1, <2>2, <2>3
    DEF Account, Bounded, OpenBound, Asleep, Visited, NoLro, NoDummy, Bound
<1>4. CASE RemoveCleans(f)
  <2>1. /\ phase[f] = "detached" /\ phase'[f] = "cleaned"
        /\ held'[f] = CleanupAdapter(held[f] \ {"fwfile"}) /\ lost'[f] = lost[f]
        /\ UNCHANGED <<up, open, asleep>>
    BY <1>0, <1>4 DEF RemoveCleans, NicTypes, At, Go, Now, iface
  <2>2. held[f] \subseteq (Ready \ {"dummy"}) \cup {"irq"}
    BY <2>1 DEF Account, Bounded
  <2>3. held'[f] \subseteq held[f] /\ held'[f] \subseteq {"netdev", "irq"}
    BY <2>1, <2>2 DEF CleanupAdapter, Cleaned, Ready, Started, Mapped, Early
  <2>4. UpHolds(f)'
    BY <1>1, <2>1, <2>2, <2>3
    DEF Account, UpHolds, RingContext, Ready, Started, Mapped, Early
  <2> QED
    BY <1>1, <2>1, <2>3, <2>4
    DEF Account, Bounded, OpenBound, Asleep, Visited, NoLro, NoDummy, Bound
<1>5. CASE RemoveEnds(f)
  <2>1. /\ phase[f] = "cleaned" /\ phase'[f] = "unbound" /\ held'[f] = {}
        /\ lost'[f] = lost[f] \cup (held[f] \ {"netdev"})
        /\ asleep'[f] = FALSE /\ UNCHANGED <<up, open>>
    BY <1>0, <1>5 DEF RemoveEnds, NicTypes, At, Go, Now
  <2>2. held[f] \ {"netdev"} \subseteq Explained(f)
    BY <2>1, ExplainedMeans DEF Account, Bounded, UpHolds
  <2> QED
    BY <1>1, <2>1, <2>2
    DEF Account, Bounded, OpenBound, UpHolds, Asleep, Visited, NoLro, NoDummy, Bound
<1> QED BY <1>2, <1>3, <1>4, <1>5

\* A step of the walk as a whole.
LEMMA WalkAccounted ==
  ASSUME NEW g \in Functions, Account(g), Untouched(g),
         ~(work = "attach" /\ g \in todo),
         work' = "detach" => g \in todo',
         work' = "attach" => NoLro(g)
  PROVE  Account(g)'
<1>1. Explained(g)' = Explained(g)
  BY DEF Untouched, Explained
<1> QED
  BY <1>1 DEF Untouched, Account, Bounded, OpenBound, UpHolds, Asleep, Visited, NoLro, NoDummy

LEMMA RestartAccounted ==
  ASSUME NicInv, RestartFirmware, NEW g \in Functions, Account(g), ~Excepted(g)
  PROVE  Account(g)'
<1>0. NicTypes /\ Port0 \in Functions
  BY LifecycleAssumption DEF NicInv
<1>1. /\ work = "detach" /\ todo = {} /\ work' \in {"attach", "idle"}
      /\ UNCHANGED <<phase, up, open, asleep, excused>>
      /\ NoLro(g) /\ (g = Port0 => NoDummy(g))
  BY DEF RestartFirmware, iface, Account, Visited
<1>2. CASE Untouched(g)
  BY <1>1, <1>2, WalkAccounted
<1>3. CASE ~Untouched(g)
  <2>1. PICK S \in FirmwareThings(Port0) : Acquire(Port0, S) /\ work' = "attach"
                                           /\ todo' = Functions
    BY <1>1, <1>3 DEF RestartFirmware, Untouched
  <2>2. g = Port0
    BY <1>0, <1>1, <1>3, <2>1, SmallSets, AcquireTyped DEF Untouched
  <2>3. held'[g] = held[g] \cup S /\ lost'[g] = lost[g] \cup (held[g] \cap S)
    BY <1>0, <2>1, <2>2, SmallSets, AcquireTyped
  <2>4. phase[g] = "bound"
    BY <1>0, <1>1, <2>2
    DEF NicInv, RestartFirmware, Watched, WatchdogOfTheBound, Excepted, NicTypes, Probing,
        Phases
  <2>5. lost'[g] \subseteq Explained(g)'
    BY <1>1, <2>2, <2>3, SmallSets, ExplainedMeansNext, ExplainedGrows DEF Account, NoDummy
  <2>6. UpHolds(g)'
    BY <1>1, <2>3, SmallSets DEF Account, UpHolds, RingContext
  <2>7. "lro" \in held'[g] => "lro" \in held[g]
    BY <2>3, SmallSets
  <2>8. Asleep(g)' /\ Visited(g)'
    BY <1>1, <2>1, <2>3, <2>7, SmallSets DEF Account, Asleep, Visited, NoLro, NoDummy
  <2> QED BY <1>1, <2>4, <2>5, <2>6, <2>8, BoundAccounted DEF Bound
<1> QED BY <1>2, <1>3

\* A step of one function leaves the others alone.
LEMMA UntouchedByOthers ==
  ASSUME NicTypes, NEW f \in Functions, NEW g \in Functions, f # g,
         \/ ProbeEnable(f) \/ ProbeMap(f) \/ ProbeFirmware(f) \/ ProbeAlloc(f)
         \/ ProbeRegister(f) \/ Open(f) \/ Close(f) \/ Suspend(f) \/ Resume(f)
         \/ RemoveFlushes(f) \/ RemoveTimer(f) \/ RemoveDetaches(f) \/ RemoveCleans(f)
         \/ RemoveEnds(f)
  PROVE  Untouched(g) /\ UNCHANGED <<work, todo>>
<1> USE DEF Untouched, NicTypes, Go, Now, Acquire, Excuse, iface, walk
<1>1. ASSUME NEW h, NEW gone, ProbeFails(f, h, gone)
      PROVE  Untouched(g) /\ UNCHANGED <<work, todo>>
  BY <1>1 DEF ProbeFails
<1>2. CASE ProbeEnable(f)
  BY <1>2 DEF ProbeEnable
<1>3. CASE ProbeMap(f)
  BY <1>1, <1>3 DEF ProbeMap
<1>4. CASE ProbeFirmware(f)
  BY <1>1, <1>4 DEF ProbeFirmware
<1>5. CASE ProbeAlloc(f)
  BY <1>1, <1>5 DEF ProbeAlloc
<1>6. CASE ProbeRegister(f)
  BY <1>1, <1>6 DEF ProbeRegister
<1>7. CASE Open(f)
  BY <1>7 DEF Open, AttachFails, AttachWorks
<1>8. CASE Suspend(f) \/ Close(f) \/ RemoveFlushes(f) \/ RemoveTimer(f)
  BY <1>8 DEF Suspend, Close, RemoveFlushes, RemoveTimer
<1>9. CASE Resume(f)
  BY <1>9 DEF Resume
<1>10. CASE RemoveDetaches(f) \/ RemoveCleans(f) \/ RemoveEnds(f)
  BY <1>10 DEF RemoveDetaches, RemoveCleans, RemoveEnds
<1> QED BY <1>2, <1>3, <1>4, <1>5, <1>6, <1>7, <1>8, <1>9, <1>10

LEMMA UntouchedByVisits ==
  ASSUME NicTypes, NEW f \in Functions, NEW g \in Functions, f # g,
         Skip(f) \/ VisitDetach(f) \/ VisitDead(f) \/ VisitAttach(f)
  PROVE  Untouched(g) /\ UNCHANGED work /\ todo' = todo \ {f}
<1> USE DEF Untouched, NicTypes, Now, Acquire, Excuse, Visit
<1>1. CASE Skip(f) \/ VisitDetach(f) \/ VisitDead(f)
  BY <1>1 DEF Skip, VisitDetach, VisitDead
<1>2. CASE VisitAttach(f)
  BY <1>2 DEF VisitAttach
<1> QED BY <1>1, <1>2

LEMMA AccountStep ==
  ASSUME NicInv, [NicNext]_nicVars
  PROVE  \A g \in Functions : Excepted(g)' \/ Account(g)'
<1>0. NicTypes /\ NicTypes' /\ Watched'
  BY NicTypesStep, WatchedStep DEF NicInv
<1>1. late => late'
  <2>1. CASE WatchdogFires \/ WatchdogRuns \/ RestartFirmware \/ WalkEnds \/ UNCHANGED nicVars
    BY <2>1 DEF WatchdogFires, WatchdogRuns, RestartFirmware, WalkEnds, nicVars, walk
  <2>2. ASSUME NEW f \in Functions,
               \/ ProbeEnable(f) \/ ProbeMap(f) \/ ProbeFirmware(f) \/ ProbeAlloc(f)
               \/ ProbeRegister(f)
        PROVE  UNCHANGED late
    BY <2>2
    DEF ProbeEnable, ProbeMap, ProbeFirmware, ProbeAlloc, ProbeRegister, ProbeFails, walk
  <2>3. ASSUME NEW f \in Functions,
               \/ Open(f) \/ Close(f) \/ Suspend(f) \/ Resume(f)
               \/ RemoveFlushes(f) \/ RemoveTimer(f) \/ RemoveDetaches(f) \/ RemoveCleans(f)
               \/ RemoveEnds(f)
        PROVE  UNCHANGED late
    BY <2>3
    DEF Open, Close, Suspend, Resume, RemoveFlushes, RemoveTimer, RemoveDetaches,
        RemoveCleans, RemoveEnds, walk
  <2>4. ASSUME NEW f \in Functions,
               Skip(f) \/ VisitDetach(f) \/ VisitDead(f) \/ VisitAttach(f)
        PROVE  UNCHANGED late
    BY <2>4 DEF Skip, VisitDetach, VisitDead, VisitAttach, Visit
  <2> QED BY <2>1, <2>2, <2>3, <2>4 DEF NicNext
<1> SUFFICES ASSUME NEW g \in Functions, ~Excepted(g)' PROVE Account(g)'
  OBVIOUS
<1>2. ~Excepted(g) /\ Account(g)
  BY <1>1 DEF Excepted, NicInv
<1>8. CASE WatchdogFires /\ UNCHANGED work
  BY <1>2, <1>8, OtherAccounted DEF WatchdogFires, Untouched, iface
<1>3. CASE (WatchdogFires /\ work' = "queued") \/ WatchdogRuns \/ WalkEnds
  <2>1. Untouched(g)
    BY <1>3 DEF WatchdogFires, WatchdogRuns, WalkEnds, Untouched, iface
  <2>2. /\ ~(work = "attach" /\ g \in todo)
        /\ work' = "detach" => g \in todo'
        /\ work' # "attach"
    BY <1>3 DEF WatchdogFires, WatchdogRuns, WalkEnds
  <2> QED BY <1>2, <2>1, <2>2, WalkAccounted
<1>4. CASE RestartFirmware
  BY <1>2, <1>4, RestartAccounted
<1>5. CASE UNCHANGED nicVars
  BY <1>2, <1>5, OtherAccounted DEF nicVars, Untouched, iface, walk
<1>6. ASSUME NEW f \in Functions,
             \/ ProbeEnable(f) \/ ProbeMap(f) \/ ProbeFirmware(f) \/ ProbeAlloc(f)
             \/ ProbeRegister(f) \/ Open(f) \/ Close(f) \/ Suspend(f) \/ Resume(f)
             \/ RemoveFlushes(f) \/ RemoveTimer(f) \/ RemoveDetaches(f) \/ RemoveCleans(f)
             \/ RemoveEnds(f)
      PROVE  Account(g)'
  <2>1. CASE f = g
    BY <1>0, <1>2, <1>6, <2>1, ProbeAccounted, OpenAccounted, SuspendAccounted,
       ResumeAccounted, RemoveAccounted
  <2>2. CASE f # g
    <3>1. Untouched(g) /\ UNCHANGED <<work, todo>>
      BY <1>0, <1>6, <2>2, UntouchedByOthers
    <3> QED BY <1>2, <3>1, OtherAccounted
  <2> QED BY <2>1, <2>2
<1>7. ASSUME NEW f \in Functions,
             Skip(f) \/ VisitDetach(f) \/ VisitDead(f) \/ VisitAttach(f)
      PROVE  Account(g)'
  <2>1. CASE f = g
    BY <1>2, <1>7, <2>1, VisitAccounted
  <2>2. CASE f # g
    <3>1. Untouched(g) /\ UNCHANGED work /\ todo' = todo \ {f}
      BY <1>0, <1>7, <2>2, UntouchedByVisits
    <3> QED BY <1>2, <2>2, <3>1, OtherAccounted
  <2> QED BY <2>1, <2>2
<1> QED BY <1>3, <1>4, <1>5, <1>6, <1>7, <1>8 DEF NicNext, WatchdogFires

LEMMA NextNicInv == NicInv /\ [NicNext]_nicVars => NicInv'
BY NicTypesStep, OwnStep, WatchedStep, RecoveryStep, AccountStep DEF NicInv
-----------------------------------------------------------------------------
LEMMA InitTableInv == XportInit => TableInv
<1> SUFFICES ASSUME XportInit PROVE TableInv
  OBVIOUS
<1>1. XportTypes
  <2>1. module = "out" /\ files \in {0, 1} /\ using = Empty /\ swapped \in BOOLEAN
        /\ disturbed \in BOOLEAN /\ mapped = {} /\ hot = {}
    BY DEF XportInit
  <2>2. table \in Seq(Devices \cup {Empty})
    BY DEF XportInit
  <2>3. adapterIndex \in [Devices -> Nat]
    BY DEF XportInit
  <2>4. sortAt \in Nat \X Nat
    BY DEF XportInit
  <2> QED BY <2>1, <2>2, <2>3, <2>4 DEF XportTypes
<1>2. Modules /\ InUse
  BY DEF XportInit, Modules, InUse
<1>3. Indexed
  <2>1. mapped = {} /\ Len(table) = 0 /\ ~swapped
    BY DEF XportInit
  <2> QED BY <2>1 DEF Indexed
<1> QED BY <1>1, <1>2, <1>3 DEF TableInv

\* The steps that leave table and indices alone.
LEMMA IndexedKept ==
  ASSUME Indexed, UNCHANGED <<table, adapterIndex, mapped, sortAt, swapped>>,
         disturbed => disturbed'
  PROVE  Indexed'
BY DEF Indexed

LEMMA ProbeIndexed ==
  ASSUME TableInv, NEW d \in Devices, Probe(d)
  PROVE  Indexed'
<1>0. XportTypes /\ Modules /\ Indexed
  BY DEF TableInv
<1>1. /\ table' = Append(table, d) /\ d \notin mapped /\ d # Empty
      /\ adapterIndex' = [adapterIndex EXCEPT ![d] = Len(table)]
      /\ mapped' = mapped \cup {d} /\ UNCHANGED <<sortAt, swapped, disturbed>>
  BY XportAssumption DEF Probe, others
<1>2. /\ Len(table) \in Nat /\ Len(table') = Len(table) + 1
      /\ table'[Len(table) + 1] = d
      /\ \A n \in 1..Len(table) : table'[n] = table[n]
  BY <1>0, <1>1 DEF XportTypes
<1>3. swapped => sortAt[2] \in Nat /\ sortAt[2] + 1 < Len(table)
  BY <1>0 DEF XportTypes, Modules
<1>4. /\ \A n \in Nat : Place(swapped', sortAt'[2], n) = Place(swapped, sortAt[2], n)
      /\ Place(swapped, sortAt[2], Len(table)) = Len(table)
      /\ \A n \in Nat : n < Len(table) =>
           Place(swapped, sortAt[2], n) \in Nat /\ Place(swapped, sortAt[2], n) < Len(table)
  BY <1>1, <1>2, <1>3 DEF Place
<1>5. /\ adapterIndex'[d] = Len(table)
      /\ \A e \in mapped : /\ e \in Devices /\ adapterIndex'[e] = adapterIndex[e]
                           /\ adapterIndex[e] \in Nat
  BY <1>0, <1>1 DEF XportTypes
<1> SUFFICES ASSUME ~disturbed
             PROVE  /\ \A e \in mapped' :
                         /\ adapterIndex'[e] < Len(table')
                         /\ table'[Place(swapped', sortAt'[2], adapterIndex'[e]) + 1] = e
                    /\ \A n \in 1..Len(table') : table'[n] # Empty =>
                         /\ table'[n] \in mapped'
                         /\ Place(swapped', sortAt'[2], adapterIndex'[table'[n]]) + 1 = n
                    /\ swapped' => /\ table'[sortAt[2] + 1] # Empty
                                   /\ table'[sortAt[2] + 2] # Empty
  BY <1>1 DEF Indexed
<1>6. ASSUME NEW e \in mapped'
      PROVE  /\ adapterIndex'[e] < Len(table')
             /\ table'[Place(swapped', sortAt'[2], adapterIndex'[e]) + 1] = e
  <2>1. CASE e = d
    BY <1>2, <1>4, <1>5, <2>1
  <2>2. CASE e \in mapped
    BY <1>0, <1>2, <1>4, <1>5, <2>2 DEF Indexed
  <2> QED BY <1>1, <2>1, <2>2
<1>7. ASSUME NEW n \in 1..Len(table'), table'[n] # Empty
      PROVE  table'[n] \in mapped' /\ Place(swapped', sortAt'[2], adapterIndex'[table'[n]]) + 1 = n
  <2>1. CASE n = Len(table) + 1
    BY <1>1, <1>2, <1>4, <1>5, <2>1
  <2>2. CASE n \in 1..Len(table)
    BY <1>0, <1>1, <1>2, <1>4, <1>5, <1>7, <2>2 DEF Indexed
  <2> QED BY <1>2, <2>1, <2>2
<1>8. swapped' => table'[sortAt[2] + 1] # Empty /\ table'[sortAt[2] + 2] # Empty
  BY <1>0, <1>1, <1>2, <1>3 DEF Indexed
<1> QED BY <1>6, <1>7, <1>8

LEMMA CompareIndexed ==
  ASSUME TableInv, SortCompare
  PROVE  Indexed'
<1>0. XportTypes /\ Modules /\ Indexed
  BY DEF TableInv
<1> DEFINE j == sortAt[2]
<1>1. /\ ~swapped /\ j \in Nat /\ j + 1 < Len(table) /\ Len(table) \in Nat
      /\ table[j + 1] # Empty /\ table[j + 2] # Empty
      /\ UNCHANGED <<adapterIndex, mapped, disturbed>>
  <2>1. sortAt[1] \in Nat /\ j \in Nat /\ Len(table) \in Nat
    BY <1>0 DEF XportTypes
  <2>2. sortAt[2] + 1 + sortAt[1] < Len(table) /\ Entry(j) # Empty /\ Entry(j + 1) # Empty
    BY DEF SortCompare
  <2>3. j + 1 + 1 = j + 2
    BY <2>1
  <2> QED BY <2>1, <2>2, <2>3 DEF SortCompare, Entry, others
<1>2. CASE UNCHANGED <<table, swapped>>
  <2> SUFFICES ASSUME ~disturbed PROVE Indexed'
    BY <1>1 DEF Indexed
  <2>1. ~swapped' /\ \A n \in Nat : Place(swapped', sortAt'[2], n) = Place(swapped, sortAt[2], n)
    BY <1>1, <1>2 DEF Place
  <2>2. /\ \A e \in mapped : adapterIndex[e] \in Nat
        /\ \A n \in 1..Len(table) : table[n] \in mapped => adapterIndex[table[n]] \in Nat
    BY <1>0 DEF XportTypes
  <2> QED BY <1>0, <1>1, <1>2, <2>1, <2>2 DEF Indexed
<1>3. CASE /\ table' = [table EXCEPT ![j + 1] = Entry(j + 1), ![j + 2] = Entry(j)]
           /\ swapped' = TRUE /\ UNCHANGED sortAt
  <2>1. /\ Len(table') = Len(table)
        /\ table'[j + 1] = table[j + 2] /\ table'[j + 2] = table[j + 1]
        /\ \A n \in 1..Len(table) : n \notin {j + 1, j + 2} => table'[n] = table[n]
    <3>1. Entry(j) = table[j + 1] /\ Entry(j + 1) = table[j + 2]
      BY <1>1 DEF Entry
    <3>2. j + 1 \in 1..Len(table) /\ j + 2 \in 1..Len(table) /\ j + 1 # j + 2
      BY <1>1
    <3> HIDE DEF j
    <3>3. table \in Seq(Devices \cup {Empty})
      BY <1>0 DEF XportTypes
    <3> QED BY <1>3, <3>1, <3>2, <3>3
  <2>2. /\ Place(swapped', sortAt'[2], j) = j + 1 /\ Place(swapped', sortAt'[2], j + 1) = j
        /\ \A n \in Nat : n \notin {j, j + 1} => Place(swapped', sortAt'[2], n) = n
    BY <1>1, <1>3 DEF Place
  <2> HIDE DEF j
  <2> SUFFICES ASSUME ~disturbed
               PROVE  /\ \A e \in mapped :
                           /\ adapterIndex[e] < Len(table')
                           /\ table'[Place(swapped', sortAt'[2], adapterIndex[e]) + 1] = e
                      /\ \A n \in 1..Len(table') : table'[n] # Empty =>
                           /\ table'[n] \in mapped
                           /\ Place(swapped', sortAt'[2], adapterIndex[table'[n]]) + 1 = n
                      /\ table'[j + 1] # Empty /\ table'[j + 2] # Empty
    BY <1>1, <1>3 DEF Indexed, j
  <2>3. /\ \A e \in mapped : /\ adapterIndex[e] \in Nat /\ adapterIndex[e] < Len(table)
                             /\ table[adapterIndex[e] + 1] = e
        /\ \A n \in 1..Len(table) : table[n] # Empty =>
             table[n] \in mapped /\ adapterIndex[table[n]] = n - 1
    BY <1>0, <1>1 DEF Indexed, Place, XportTypes
  <2>4. ASSUME NEW e \in mapped
        PROVE  /\ adapterIndex[e] < Len(table')
               /\ table'[Place(swapped', sortAt'[2], adapterIndex[e]) + 1] = e
    <3>1. CASE adapterIndex[e] = j
      BY <1>1, <2>1, <2>2, <2>3, <3>1
    <3>2. CASE adapterIndex[e] = j + 1
      BY <1>1, <2>1, <2>2, <2>3, <3>2
    <3>3. CASE adapterIndex[e] \notin {j, j + 1}
      <4>1. Place(swapped', sortAt'[2], adapterIndex[e]) = adapterIndex[e]
        BY <2>2, <2>3, <3>3
      <4>2. adapterIndex[e] + 1 \in 1..Len(table) /\ adapterIndex[e] + 1 \notin {j + 1, j + 2}
        BY <1>1, <2>3, <3>3
      <4> QED BY <2>1, <2>3, <4>1, <4>2
    <3> QED BY <3>1, <3>2, <3>3
  <2>5. ASSUME NEW n \in 1..Len(table'), table'[n] # Empty
        PROVE  table'[n] \in mapped /\ Place(swapped', sortAt'[2], adapterIndex[table'[n]]) + 1 = n
    <3>1. CASE n = j + 1
      BY <1>1, <2>1, <2>2, <2>3, <3>1
    <3>2. CASE n = j + 2
      BY <1>1, <2>1, <2>2, <2>3, <3>2
    <3>3. CASE n \notin {j + 1, j + 2}
      <4>1. table'[n] = table[n] /\ table[n] \in mapped /\ adapterIndex[table[n]] = n - 1
        BY <2>1, <2>3, <2>5, <3>3
      <4>2. n - 1 \in Nat /\ n - 1 \notin {j, j + 1}
        BY <1>1, <2>1, <3>3
      <4>3. Place(swapped', sortAt'[2], n - 1) = n - 1
        BY <2>2, <4>2
      <4> QED BY <2>1, <4>1, <4>3
    <3> QED BY <3>1, <3>2, <3>3
  <2> QED BY <1>1, <2>1, <2>4, <2>5
<1> QED BY <1>2, <1>3 DEF SortCompare

\* The indices follow, and nothing is exchanged any more.
LEMMA SwappedIndexed ==
  ASSUME TableInv, SortSwapped
  PROVE  Indexed'
<1>0. XportTypes /\ Modules /\ Indexed
  BY DEF TableInv
<1> DEFINE j == sortAt[2]
<1>1. /\ swapped /\ j \in Nat /\ j + 1 < Len(table) /\ Len(table) \in Nat
      /\ ~swapped' /\ UNCHANGED <<table, mapped, disturbed>>
  BY <1>0 DEF SortSwapped, XportTypes, Modules, others
<1>10. j \in Nat /\ j + 1 < Len(table) /\ Len(table) \in Nat
  BY <1>1
<1>2. \A e \in Devices :
        /\ e = table[j + 1] => adapterIndex'[e] = j
        /\ e # table[j + 1] /\ e = table[j + 2] => adapterIndex'[e] = j + 1
        /\ e # table[j + 1] /\ e # table[j + 2] => adapterIndex'[e] = adapterIndex[e]
  <2>1. Entry(j) = table[j + 1] /\ Entry(j + 1) = table[j + 2]
    BY <1>1 DEF Entry
  <2>2. adapterIndex' = [e \in Devices |->
          IF e = table[j + 1] THEN j ELSE IF e = table[j + 2] THEN j + 1 ELSE adapterIndex[e]]
    BY <2>1 DEF SortSwapped
  <2> HIDE DEF j
  <2> QED BY <2>2
<1>3. \A n \in Nat : Place(swapped', sortAt'[2], n) = n
  BY <1>1 DEF Place
<1> HIDE DEF j
<1>4. /\ Place(swapped, sortAt[2], j) = j + 1 /\ Place(swapped, sortAt[2], j + 1) = j
      /\ \A n \in Nat : n \notin {j, j + 1} => Place(swapped, sortAt[2], n) = n
  BY <1>1 DEF Place, j
<1> SUFFICES ASSUME ~disturbed
             PROVE  /\ \A e \in mapped : /\ adapterIndex'[e] < Len(table)
                                         /\ table[adapterIndex'[e] + 1] = e
                    /\ \A n \in 1..Len(table) : table[n] # Empty =>
                         table[n] \in mapped /\ adapterIndex'[table[n]] + 1 = n
  <2>1. \A e \in mapped : adapterIndex'[e] \in Nat
    <3> SUFFICES ASSUME NEW e \in mapped PROVE adapterIndex'[e] \in Nat
      OBVIOUS
    <3>1. e \in Devices /\ adapterIndex[e] \in Nat /\ j \in Nat /\ j + 1 \in Nat
      BY <1>0, <1>1 DEF XportTypes
    <3>2. CASE e = table[j + 1]
      BY <1>2, <3>1, <3>2
    <3>3. CASE e # table[j + 1] /\ e = table[j + 2]
      BY <1>2, <3>1, <3>3
    <3>4. CASE e # table[j + 1] /\ e # table[j + 2]
      BY <1>2, <3>1, <3>4
    <3> QED BY <3>2, <3>3, <3>4
  <2> QED BY <1>1, <1>3, <2>1 DEF Indexed
<1>5. /\ table[j + 1] # Empty /\ table[j + 2] # Empty
      /\ \A e \in mapped : /\ e \in Devices /\ adapterIndex[e] \in Nat
                           /\ adapterIndex[e] < Len(table)
                           /\ table[Place(swapped, sortAt[2], adapterIndex[e]) + 1] = e
      /\ \A n \in 1..Len(table) : table[n] # Empty =>
           table[n] \in mapped /\ Place(swapped, sortAt[2], adapterIndex[table[n]]) + 1 = n
  BY <1>0, <1>1 DEF Indexed, XportTypes, j
\* The two entries are functions that are there, each with the other's index.
<1>9. \A n \in Nat : /\ Place(swapped, sortAt[2], n) = j => n = j + 1
                     /\ Place(swapped, sortAt[2], n) = j + 1 => n = j
                     /\ Place(swapped, sortAt[2], n) \in Nat
  BY <1>1 DEF Place, j
<1>6. /\ table[j + 1] \in mapped /\ adapterIndex[table[j + 1]] = j + 1
      /\ table[j + 2] \in mapped /\ adapterIndex[table[j + 2]] = j
  <2>1. j + 1 \in 1..Len(table) /\ j + 2 \in 1..Len(table)
    BY <1>1
  <2>2. /\ table[j + 1] \in mapped /\ adapterIndex[table[j + 1]] \in Nat
        /\ Place(swapped, sortAt[2], adapterIndex[table[j + 1]]) = j
    <3>1. Place(swapped, sortAt[2], adapterIndex[table[j + 1]]) + 1 = j + 1
      BY <1>5, <2>1
    <3>2. table[j + 1] \in mapped /\ adapterIndex[table[j + 1]] \in Nat
      BY <1>5, <2>1
    <3> QED BY <1>1, <3>1, <3>2 DEF Place, j
  <2>3. /\ table[j + 2] \in mapped /\ adapterIndex[table[j + 2]] \in Nat
        /\ Place(swapped, sortAt[2], adapterIndex[table[j + 2]]) = j + 1
    <3>1. Place(swapped, sortAt[2], adapterIndex[table[j + 2]]) + 1 = j + 2
      BY <1>5, <2>1
    <3>2. table[j + 2] \in mapped /\ adapterIndex[table[j + 2]] \in Nat
      BY <1>5, <2>1
    <3> QED BY <1>1, <3>1, <3>2 DEF Place, j
  <2> QED BY <1>1, <1>4, <2>2, <2>3
<1>7. ASSUME NEW e \in mapped
      PROVE  adapterIndex'[e] < Len(table) /\ table[adapterIndex'[e] + 1] = e
  <2>4. e \in Devices
    BY <1>5
  <2>1. CASE e = table[j + 1]
    <3>1. adapterIndex'[e] = j
      BY <1>2, <2>1, <2>4
    <3> QED BY <1>10, <2>1, <3>1
  <2>3. CASE e # table[j + 1] /\ e = table[j + 2]
    <3>1. adapterIndex'[e] = j + 1
      BY <1>2, <2>3, <2>4
    <3>2. j + 1 + 1 = j + 2
      BY <1>10
    <3> QED BY <1>10, <2>3, <3>1, <3>2
  <2>2. CASE e \notin {table[j + 1], table[j + 2]}
    <3>1. adapterIndex'[e] = adapterIndex[e]
      BY <1>2, <1>5, <2>2
    <3>2. adapterIndex[e] \notin {j, j + 1}
      <4>1. table[Place(swapped, sortAt[2], adapterIndex[e]) + 1] = e
        BY <1>5
      <4>2. CASE adapterIndex[e] = j
        <5>1. Place(swapped, sortAt[2], adapterIndex[e]) + 1 = j + 2
          BY <1>10, <1>4, <4>2
        <5> QED BY <2>2, <4>1, <5>1
      <4>3. CASE adapterIndex[e] = j + 1
        <5>1. Place(swapped, sortAt[2], adapterIndex[e]) + 1 = j + 1
          BY <1>10, <1>4, <4>3
        <5> QED BY <2>2, <4>1, <5>1
      <4> QED BY <4>2, <4>3
    <3> QED BY <1>4, <1>5, <3>1, <3>2
  <2> QED BY <2>1, <2>2, <2>3
<1>8. ASSUME NEW n \in 1..Len(table), table[n] # Empty
      PROVE  table[n] \in mapped /\ adapterIndex'[table[n]] + 1 = n
  <2>1. CASE n = j + 1
    BY <1>1, <1>2, <1>5, <1>6, <2>1
  <2>2. CASE n = j + 2
    <3>1. table[n] # table[j + 1] /\ j + 1 + 1 = j + 2
      BY <1>1, <1>6, <2>2
    <3>2. table[n] = table[j + 2] /\ table[n] \in mapped /\ table[n] \in Devices
      BY <1>5, <1>6, <2>2
    <3>3. adapterIndex'[table[n]] = j + 1
      BY <1>2, <3>1, <3>2
    <3> QED BY <2>2, <3>1, <3>2, <3>3
  <2>3. CASE n \notin {j + 1, j + 2}
    <3>1. /\ table[n] \in mapped /\ table[n] \in Devices /\ adapterIndex[table[n]] \in Nat
          /\ Place(swapped, sortAt[2], adapterIndex[table[n]]) + 1 = n
      BY <1>5, <1>8
    <3>2. adapterIndex[table[n]] \notin {j, j + 1}
      <4> DEFINE a == adapterIndex[table[n]]
      <4>1. Place(swapped, sortAt[2], a) + 1 = n
        BY <3>1
      <4>2. a # j
        <5>1. ASSUME a = j PROVE n = j + 2
          <6>1. Place(swapped, sortAt[2], a) = j + 1
            BY <1>4, <5>1
          <6> QED BY <1>10, <4>1, <6>1
        <5> QED BY <2>3, <5>1
      <4>3. a # j + 1
        <5>1. ASSUME a = j + 1 PROVE n = j + 1
          <6>1. Place(swapped, sortAt[2], a) = j
            BY <1>4, <5>1
          <6> QED BY <1>10, <4>1, <6>1
        <5> QED BY <2>3, <5>1
      <4> QED BY <4>2, <4>3
    <3>3. table[n] # table[j + 1] /\ table[n] # table[j + 2]
      BY <1>6, <3>2
    <3> QED BY <1>2, <1>4, <3>1, <3>2, <3>3
  <2> QED BY <2>1, <2>2, <2>3
<1> QED BY <1>7, <1>8

LEMMA RemoveIndexed ==
  ASSUME TableInv, NEW d \in Devices, Remove(d), ~swapped, UNCHANGED disturbed
  PROVE  Indexed'
<1>0. XportTypes /\ Modules /\ Indexed
  BY DEF TableInv
<1>1. /\ d \in mapped /\ d # Empty /\ mapped' = mapped \ {d} /\ ~swapped'
      /\ UNCHANGED adapterIndex
  BY XportAssumption DEF Remove
<1>2. \A n \in Nat : /\ Place(swapped, sortAt[2], n) = n
                     /\ Place(swapped', sortAt'[2], n) = n
  BY <1>1 DEF Place
<1> SUFFICES ASSUME ~disturbed
             PROVE  /\ \A e \in mapped' : /\ adapterIndex[e] < Len(table')
                                          /\ table'[adapterIndex[e] + 1] = e
                    /\ \A n \in 1..Len(table') : table'[n] # Empty =>
                         table'[n] \in mapped' /\ adapterIndex[table'[n]] + 1 = n
  <2>1. /\ \A e \in mapped' : adapterIndex[e] \in Nat
        /\ \A n \in 1..Len(table') : table'[n] \in mapped' => adapterIndex[table'[n]] \in Nat
    BY <1>0, <1>1 DEF XportTypes
  <2> QED BY <1>1, <1>2, <2>1 DEF Indexed
<1>3. /\ \A e \in mapped : /\ adapterIndex[e] \in Nat /\ adapterIndex[e] < Len(table)
                           /\ table[adapterIndex[e] + 1] = e
      /\ \A n \in 1..Len(table) : table[n] # Empty =>
           /\ table[n] \in mapped /\ adapterIndex[table[n]] \in Nat
           /\ adapterIndex[table[n]] + 1 = n
  BY <1>0, <1>2 DEF Indexed, XportTypes
<1>4. /\ Len(table') = Len(table) /\ Len(table) \in Nat
      /\ \A n \in 1..Len(table) :
           table'[n] = IF n = adapterIndex[d] + 1 THEN Empty ELSE table[n]
  BY <1>0, <1>1, <1>3 DEF Remove, XportTypes
<1>5. ASSUME NEW e \in mapped'
      PROVE  adapterIndex[e] < Len(table') /\ table'[adapterIndex[e] + 1] = e
  <2>1. e \in mapped /\ e # d
    BY <1>1
  <2>2. adapterIndex[e] + 1 \in 1..Len(table) /\ table[adapterIndex[e] + 1] = e
    BY <1>3, <1>4, <2>1
  <2>3. adapterIndex[e] + 1 # adapterIndex[d] + 1
    BY <1>1, <1>3, <2>1
  <2> QED BY <1>3, <1>4, <2>1, <2>2, <2>3
<1>6. ASSUME NEW n \in 1..Len(table'), table'[n] # Empty
      PROVE  table'[n] \in mapped' /\ adapterIndex[table'[n]] + 1 = n
  <2>1. n \in 1..Len(table) /\ n # adapterIndex[d] + 1 /\ table'[n] = table[n]
    BY <1>4, <1>6
  <2>2. table[n] \in mapped /\ adapterIndex[table[n]] + 1 = n
    BY <1>3, <1>6, <2>1
  <2> QED BY <1>1, <2>1, <2>2
<1> QED BY <1>5, <1>6

LEMMA XportTypesStep == TableInv /\ [XportNext]_xportVars => XportTypes'
<1> SUFFICES ASSUME TableInv, [XportNext]_xportVars PROVE XportTypes'
  OBVIOUS
<1> USE DEF TableInv, XportTypes
<1>1. CASE LoadModule
  <2>1. table' \in Seq(Devices \cup {Empty}) /\ hot' \subseteq Devices
    BY <1>1 DEF LoadModule
  <2>2. disturbed' \in BOOLEAN
    BY <1>1 DEF LoadModule
  <2>3. module' \in {"probing", "hollow"}
    BY <1>1 DEF LoadModule
  <2> QED BY <1>1, <2>1, <2>2, <2>3 DEF LoadModule
<1>2. CASE Probed
  BY <1>2 DEF Probed, others
<1>3. CASE SortRow
  <2>1. sortAt'\in Nat \X Nat
    BY <1>3 DEF SortRow
  <2> QED BY <1>3, <2>1 DEF SortRow, others
<1>4. CASE SortCompare
  <2>1. /\ UNCHANGED <<module, adapterIndex, mapped, others>>
        /\ \/ /\ table' = [table EXCEPT ![sortAt[2] + 1] = Entry(sortAt[2] + 1),
                                      ![sortAt[2] + 2] = Entry(sortAt[2])]
              /\ swapped' = TRUE /\ sortAt' = sortAt
           \/ sortAt' = <<sortAt[1], sortAt[2] + 1>> /\ table' = table /\ swapped' = swapped
    BY <1>4 DEF SortCompare
  <2>2. sortAt[1] \in Nat /\ sortAt[2] \in Nat /\ Len(table) \in Nat
    OBVIOUS
  <2>3. sortAt' \in Nat \X Nat
    <3>1. <<sortAt[1], sortAt[2] + 1>> \in Nat \X Nat
      BY <2>2
    <3> QED BY <2>1, <3>1
  <2>4. swapped' \in BOOLEAN
    BY <2>1
  <2>5. table' \in Seq(Devices \cup {Empty})
    <3>1. sortAt[2] + 1 \in 1..Len(table) /\ sortAt[2] + 1 + 1 \in 1..Len(table)
      BY <1>4, <2>2 DEF SortCompare
    <3>2. /\ Entry(sortAt[2]) \in Devices \cup {Empty}
          /\ Entry(sortAt[2] + 1) \in Devices \cup {Empty}
      BY <3>1 DEF Entry
    <3>3. table \in Seq(Devices \cup {Empty})
      OBVIOUS
    <3> QED BY SMTT(30), <2>1, <2>2, <3>2, <3>3
  <2> QED BY <2>1, <2>3, <2>4, <2>5 DEF others
<1>5. CASE SortSwapped
  <2>1. sortAt' \in Nat \X Nat
    <3>1. sortAt[1] \in Nat /\ sortAt[2] + 1 \in Nat
      OBVIOUS
    <3>2. <<sortAt[1], sortAt[2] + 1>> \in Nat \X Nat
      BY <3>1
    <3> QED BY <1>5, <3>2 DEF SortSwapped
  <2>3. swapped' \in BOOLEAN
    BY <1>5 DEF SortSwapped
  <2>2. adapterIndex' \in [Devices -> Nat]
    <3>1. sortAt[2] \in Nat /\ sortAt[2] + 1 \in Nat
      OBVIOUS
    <3> QED BY <1>5, <3>1 DEF SortSwapped
  <2> QED BY <1>5, <2>1, <2>2, <2>3 DEF SortSwapped, others
<1>6. CASE Unload \/ Unloaded
  BY <1>6 DEF Unload, Unloaded, others
<1>7. CASE OpenFile \/ ReleaseFile \/ IoctlEnds
  BY <1>7 DEF OpenFile, ReleaseFile, IoctlEnds
<1>8. ASSUME NEW d \in Devices, Probe(d)
      PROVE  XportTypes'
  <2>1. table' \in Seq(Devices \cup {Empty}) /\ adapterIndex' \in [Devices -> Nat]
    BY <1>8 DEF Probe
  <2> QED BY <1>8, <2>1 DEF Probe, others
<1>9. ASSUME NEW d \in Devices, HotRemove(d) \/ UnloadRemoves(d)
      PROVE  XportTypes'
  <2>1. table' \in Seq(Devices \cup {Empty})
    <3>1. table' = [table EXCEPT ![adapterIndex[d] + 1] = Empty] /\ adapterIndex[d] \in Nat
      BY <1>9 DEF HotRemove, UnloadRemoves, Remove
    <3> HIDE DEF TableInv, XportTypes
    <3>2. table \in Seq(Devices \cup {Empty})
      BY DEF TableInv, XportTypes
    <3>3. CASE adapterIndex[d] + 1 \in 1..Len(table)
      BY <3>1, <3>2, <3>3
    <3>4. CASE adapterIndex[d] + 1 \notin 1..Len(table)
      <4>1. table' = table
        BY <3>1, <3>2, <3>4
      <4> QED BY <3>2, <4>1
    <3> QED BY <3>3, <3>4
  <2>2. disturbed' \in BOOLEAN /\ hot' \subseteq Devices
    BY <1>9 DEF HotRemove, UnloadRemoves
  <2>3. UNCHANGED <<module, adapterIndex, sortAt, swapped, files, using>> /\ mapped' \subseteq Devices
    BY <1>9 DEF HotRemove, UnloadRemoves, Remove
  <2> QED BY <2>1, <2>2, <2>3
<1>10. ASSUME NEW n \in 0..(MaxEntries - 1), IoctlBegins(n)
       PROVE  XportTypes'
  <2>1. using' \in Devices \cup {Empty}
    <3>1. n \in Nat /\ n + 1 \in 1..Len(table)
      BY <1>10 DEF IoctlBegins
    <3> QED BY <1>10, <3>1 DEF IoctlBegins, Entry
  <2> QED BY <1>10, <2>1 DEF IoctlBegins
<1>11. CASE UNCHANGED xportVars
  BY <1>11 DEF xportVars
<1> QED
  BY <1>1, <1>2, <1>3, <1>4, <1>5, <1>6, <1>7, <1>8, <1>9, <1>10, <1>11 DEF XportNext

LEMMA ModulesStep == TableInv /\ [XportNext]_xportVars => Modules' /\ InUse'
<1> SUFFICES ASSUME TableInv, [XportNext]_xportVars PROVE Modules' /\ InUse'
  OBVIOUS
<1>0. XportTypes /\ Modules /\ InUse /\ Indexed
  BY DEF TableInv
<1> USE DEF Modules, InUse
<1>1. CASE LoadModule \/ Probed
  BY <1>0, <1>1 DEF LoadModule, Probed, others
<1>2. CASE SortRow \/ SortSwapped
  BY <1>0, <1>2 DEF SortRow, SortSwapped, others
<1>3. CASE SortCompare
  <2>1. sortAt[1] \in Nat /\ sortAt[2] \in Nat /\ Len(table) \in Nat
    BY <1>0 DEF XportTypes
  <2>2. sortAt[2] + 1 < Len(table) /\ Len(table') = Len(table)
    BY <1>0, <1>3, <2>1 DEF SortCompare, XportTypes
  <2>3. /\ module = "sorting" /\ (swapped' => UNCHANGED sortAt)
        /\ UNCHANGED <<module, mapped, files, using, hot, disturbed>>
    BY <1>3 DEF SortCompare, others
  <2> QED BY <1>0, <2>2, <2>3
<1>4. CASE Unload \/ Unloaded
  BY <1>0, <1>4 DEF Unload, Unloaded, Unused, others
<1>5. CASE OpenFile \/ ReleaseFile \/ IoctlEnds
  BY <1>0, <1>5 DEF OpenFile, ReleaseFile, IoctlEnds, XportTypes
<1>6. ASSUME NEW d \in Devices, Probe(d)
      PROVE  Modules' /\ InUse'
  <2>1. Len(table') = Len(table) + 1 /\ Len(table) \in Nat /\ sortAt[2] \in Nat
    BY <1>0, <1>6 DEF Probe, XportTypes
  <2> QED BY <1>0, <1>6, <2>1 DEF Probe, others
<1>7. ASSUME NEW d \in Devices, HotRemove(d) \/ UnloadRemoves(d)
      PROVE  Modules' /\ InUse'
  <2>1. Len(table') = Len(table)
    BY <1>0, <1>7 DEF HotRemove, UnloadRemoves, Remove, XportTypes
  <2>2. module' = module /\ mapped' = mapped \ {d} /\ UNCHANGED <<sortAt, swapped, files, using>>
    BY <1>7 DEF HotRemove, UnloadRemoves, Remove
  <2>3. InUse'
    <3>1. CASE HotRemove(d)
      BY <1>0, <2>2, <3>1 DEF HotRemove
    <3>2. CASE UnloadRemoves(d)
      BY <1>0, <2>2, <3>2 DEF UnloadRemoves
    <3> QED BY <1>7, <3>1, <3>2
  <2> QED BY <1>0, <2>1, <2>2, <2>3
<1>8. ASSUME NEW n \in 0..(MaxEntries - 1), IoctlBegins(n)
      PROVE  Modules' /\ InUse'
  <2>1. n + 1 \in 1..Len(table) /\ table[n + 1] # Empty /\ using' = table[n + 1]
    BY <1>0, <1>8 DEF IoctlBegins, Entry, XportTypes
  <2>2. ~disturbed => using' \in mapped
    BY <1>0, <2>1 DEF Indexed
  <2> QED BY <1>0, <1>8, <2>2 DEF IoctlBegins
<1>9. CASE UNCHANGED xportVars
  BY <1>0, <1>9 DEF xportVars
<1> QED
  BY <1>1, <1>2, <1>3, <1>4, <1>5, <1>6, <1>7, <1>8, <1>9 DEF XportNext

LEMMA NextTableInv == TableInv /\ [XportNext]_xportVars => TableInv'
<1> SUFFICES ASSUME TableInv, [XportNext]_xportVars PROVE Indexed'
  BY XportTypesStep, ModulesStep DEF TableInv
<1>1. Indexed /\ Modules
  BY DEF TableInv
<1>2. CASE \/ Probed \/ SortRow \/ Unload \/ Unloaded \/ OpenFile \/ ReleaseFile \/ IoctlEnds
           \/ UNCHANGED xportVars
  <2>1. UNCHANGED <<table, adapterIndex, mapped, swapped, disturbed>>
    BY <1>2
    DEF Probed, SortRow, Unload, Unloaded, OpenFile, ReleaseFile, IoctlEnds, xportVars, others
  <2>2. swapped => sortAt' = sortAt
    BY <1>1, <1>2
    DEF Modules, Probed, SortRow, Unload, Unloaded, OpenFile, ReleaseFile, IoctlEnds, xportVars
  <2>3. CASE swapped
    BY <1>1, <2>1, <2>2, <2>3, IndexedKept
  <2>4. CASE ~swapped
    BY <1>1, <2>1, <2>4 DEF Indexed, Place
  <2> QED BY <2>3, <2>4
<1>3. CASE LoadModule
  <2>1. mapped' = {} /\ Len(table') = 0 /\ ~swapped'
    BY <1>1, <1>3 DEF LoadModule, Modules
  <2> QED BY <2>1 DEF Indexed
<1>4. CASE SortCompare \/ SortSwapped
  BY <1>4, CompareIndexed, SwappedIndexed
<1>5. ASSUME NEW d \in Devices, Probe(d)
      PROVE  Indexed'
  BY <1>5, ProbeIndexed
<1>6. ASSUME NEW d \in Devices, HotRemove(d) \/ UnloadRemoves(d)
      PROVE  Indexed'
  <2>1. CASE disturbed'
    BY <2>1 DEF Indexed
  <2>2. CASE ~disturbed'
    <3>1. Remove(d) /\ module # "sorting" /\ disturbed' = disturbed
      <4>1. CASE HotRemove(d)
        <5>1. disturbed \in BOOLEAN /\ disturbed' \in BOOLEAN
          BY XportTypesStep DEF TableInv, XportTypes
        <5> QED BY <2>2, <4>1, <5>1 DEF HotRemove
      <4>2. CASE UnloadRemoves(d)
        BY <4>2 DEF UnloadRemoves
      <4> QED BY <1>6, <4>1, <4>2
    <3>2. ~swapped
      BY <1>1, <3>1 DEF Modules
    <3> QED BY <3>1, <3>2, RemoveIndexed
  <2> QED BY <2>1, <2>2
<1>7. ASSUME NEW n \in 0..(MaxEntries - 1), IoctlBegins(n)
      PROVE  Indexed'
  BY <1>1, <1>7, IndexedKept DEF IoctlBegins
<1> QED BY <1>2, <1>3, <1>4, <1>5, <1>6, <1>7 DEF XportNext
-----------------------------------------------------------------------------
LEMMA Invariant == Spec => [](NicInv /\ TableInv)
<1>1. Init => NicInv /\ TableInv
  BY InitNicInv, InitTableInv DEF Init
<1>2. NicInv /\ TableInv /\ [Next]_vars => (NicInv /\ TableInv)'
  <2> SUFFICES ASSUME NicInv, TableInv, [Next]_vars PROVE NicInv' /\ TableInv'
    OBVIOUS
  <2>1. [NicNext]_nicVars /\ [XportNext]_xportVars
    BY DEF Next, vars
  <2> QED BY <2>1, NextNicInv, NextTableInv
<1> QED BY <1>1, <1>2, PTL DEF Spec

\* A function gives back all it acquired, however its probe failed and in whatever
\* order it was opened, suspended, recovered and removed - but for what the explained
\* exceptions lose and a recovery that runs while port 0 is removed
\* (cleanup_adapter, unm_nic_detach, unm_nic_remove).
THEOREM AllGivenBack == Spec => []GivenBack
<1>1. NicInv => GivenBack
  BY DEF NicInv, Account, Excepted, GivenBack
<1> QED BY <1>1, Invariant, PTL

\* Once port 0 is removed, its timer and its work are neither armed nor queued, as long
\* as the timer did not fire between the flush of the work and del_timer_sync
\* (unm_nic_remove).
THEOREM WatchdogStopped == Spec => []WatchdogOfTheBound
<1>1. NicInv => WatchdogOfTheBound
  BY DEF NicInv, Watched
<1> QED BY <1>1, Invariant, PTL

\* The recovery, which takes any driver data it finds on the bus for a net device,
\* visits no function whose registers are unmapped, unless its registration failed or
\* it is just being removed (netxen_nic_detach_all_ports, netxen_nic_attach_all_ports).
THEOREM RecoveryVisitsMapped == Spec => []RecoveryOnMapped
<1>1. NicInv => RecoveryOnMapped
  BY DEF NicInv
<1> QED BY <1>1, Invariant, PTL

\* The table of nx_xport leads to every function that is bound by the function's own
\* index, and to none that is gone, through every probe, sort and removal, unless one
\* is unplugged while the table is being sorted (nx_sort_adapters, nx_pci_remove).
THEOREM TableLeadsToTheBound == Spec => []TableTrue
<1>1. TableInv => TableTrue
  BY DEF TableInv, Indexed, InUse, Place, TableTrue, Entry
<1> QED BY <1>1, Invariant, PTL
=============================================================================
