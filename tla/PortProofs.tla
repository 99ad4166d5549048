----------------------------- MODULE PortProofs -----------------------------
(***************************************************************************)
(* Proofs about what sets a port.  Four inductive invariants: SettingsInv  *)
(* and FilterInv of Filters (what the card knows of IP addresses and MTU,  *)
(* and of MAC addresses, while a thread is telling it), PortInv of         *)
(* PortControl (each port's registers, mode and watchdog at every step of  *)
(* open, close, reset and set_multi, one port not touching another) and    *)
(* PhyInv of PhyTest (what the self test has still to write back to the    *)
(* PHY).  The specifications go on where the runs stop: when threads met,  *)
(* nothing is claimed of what they met in, but the rest of the invariant   *)
(* still holds.                                                            *)
(***************************************************************************)
EXTENDS Filters, PortControl, PhyTest, TLAPS

-----------------------------------------------------------------------------
(* What a P3 card knows of an interface.                                   *)

Fields == {"pc", "del", "add", "left", "mode", "new", "i", "attaching"}
Places ==
  {"idle", "take", "station", "bcast", "flags", "list", "send", "mtu", "end"}

WorkTypes ==
  /\ DOMAIN w = Setters
  /\ \A t \in Setters : /\ DOMAIN w[t] = Fields /\ w[t].pc \in Places
                        /\ w[t].i \in Nat \ {0} /\ w[t].attaching \in BOOLEAN
  /\ DOMAIN cardMtu = DOMAIN Ctxs
  /\ open \in BOOLEAN /\ attached \in BOOLEAN /\ resetting \in BOOLEAN
  /\ mtuBad \in BOOLEAN /\ raced \in BOOLEAN

\* Where a thread that attaches the port can be.
Attaching ==
  /\ \A t \in Setters : /\ w[t].pc = "end" => w[t].attaching
                        /\ w[t].pc = "idle" => ~w[t].attaching
                        /\ w[t].attaching => attached
                        /\ InMulti(t) => w[t].i = 1
  /\ ~w["stack"].attaching /\ w["stack"].pc # "mtu"
  /\ w["rtnl"].attaching => open
  /\ w["reset"].attaching \/ Resting("reset")

\* An open tells the addresses at its end, before anybody can change them.
IpsTold == cardIps \ ipLost = (IF open /\ ~w["rtnl"].attaching THEN ips ELSE {}) \ ipLost

\* The thread is to send the MTU to all contexts.
WillSend(t) == w[t].attaching /\ (InMulti(t) \/ (InMtu(t) /\ w[t].i = 1))

\* A thread that sends the MTU has sent it to the contexts before the one it is at, or the
\* card is gone, and whoever brings it back will send it anew.
MtuSending(t) ==
  InMtu(t) => \/ \A c \in DOMAIN Ctxs : c < w[t].i => cardMtu[c] = w[t].new
              \/ t = "rtnl" /\ ~w[t].attaching /\ (~attached \/ WillSend("reset"))

MtuKnown ==
  /\ \A t \in Setters : MtuSending(t)
  /\ attached /\ ~mtuBad /\ (\A t \in Setters : ~WillSend(t) /\ ~InMtu(t)) =>
       \A c \in DOMAIN Ctxs : cardMtu[c] = mtu

SettingsInv == WorkTypes /\ Attaching /\ IpsTold /\ (~raced => MtuKnown)
\* What the steps of set_multi do that matters here.
InnerStep(t) ==
  /\ DOMAIN w' = Setters /\ DOMAIN w'[t] = Fields /\ (\A u \in Setters \ {t} : w'[u] = w[u])
  /\ InMulti(t) /\ InMulti(t)' /\ w'[t].i = w[t].i /\ w'[t].attaching = w[t].attaching
  /\ UNCHANGED <<ips, mtu, open, attached, resetting, cardIps, cardMtu, ipLost, mtuBad>>
  /\ raced' \in BOOLEAN /\ (raced => raced')

\* What an addition leaves as it is of the work of its thread.
LEMMA AddMacWork ==
  ASSUME WorkTypes, NEW t \in Setters, NEW a, NEW r, DOMAIN r = Fields, AddMac(t, a, r)
  PROVE  /\ DOMAIN w' = Setters /\ DOMAIN w'[t] = Fields /\ \A u \in Setters \ {t} : w'[u] = w[u]
         /\ w'[t].pc = r.pc /\ w'[t].left = r.left /\ w'[t].mode = r.mode
         /\ w'[t].i = r.i /\ w'[t].attaching = r.attaching
<1>1. \/ Go(t, r) \/ Go(t, [r EXCEPT !.del[a] = @ - 1]) \/ Go(t, [r EXCEPT !.add[a] = @ + 1])
  BY DEF AddMac
<1>2. /\ DOMAIN w' = Setters /\ \A u \in Setters \ {t} : w'[u] = w[u]
      /\ w'[t] \in {r, [r EXCEPT !.del[a] = @ - 1], [r EXCEPT !.add[a] = @ + 1]}
  BY <1>1 DEF WorkTypes, Go
<1> QED BY <1>2 DEF Fields

\* The steps of set_multi before its last are such.
LEMMA AddInner ==
  ASSUME WorkTypes, NEW t \in Setters,
         AddStation(t) \/ AddBcast(t) \/ SeeFlags(t) \/ AddListed(t)
  PROVE  InnerStep(t)
<1>1. CASE AddStation(t)
  <2>1. DOMAIN [w[t] EXCEPT !.pc = "bcast"] = Fields /\ w[t].pc = "station"
    BY <1>1 DEF WorkTypes, AddStation
  <2> QED BY <1>1, <2>1, AddMacWork DEF WorkTypes, AddStation, InnerStep, InMulti, Within,
          Fields, wanted, cardState
<1>2. CASE AddBcast(t)
  <2>1. DOMAIN [w[t] EXCEPT !.pc = "flags"] = Fields /\ w[t].pc = "bcast"
    BY <1>2 DEF WorkTypes, AddBcast
  <2> QED BY <1>2, <2>1, AddMacWork DEF WorkTypes, AddBcast, InnerStep, InMulti, Within,
          Fields, wanted, cardState
<1>3. CASE SeeFlags(t)
  BY <1>3 DEF WorkTypes, SeeFlags, InnerStep, InMulti, Within, Go, Fields, wanted, cardState,
     notes
<1>4. CASE AddListed(t)
  <2>1. PICK a \in w[t].left : AddMac(t, a, [w[t] EXCEPT !.left = @ \ {a}])
    BY <1>4 DEF AddListed
  <2>2. DOMAIN [w[t] EXCEPT !.left = @ \ {a}] = Fields /\ w[t].pc = "list"
    BY <1>4 DEF WorkTypes, AddListed
  <2> QED BY <1>4, <2>1, <2>2, AddMacWork DEF WorkTypes, AddListed, InnerStep, InMulti, Within,
          Fields, wanted, cardState
<1> QED BY <1>1, <1>2, <1>3, <1>4

LEMMA TakeInner ==
  ASSUME WorkTypes, NEW t \in Setters, TakeList(t)
  PROVE  InnerStep(t)
BY DEF WorkTypes, TakeList, InnerStep, InMulti, Within, Go, Fields, wanted, cardState

LEMMA SendInner ==
  ASSUME WorkTypes, NEW t \in Setters, SendMode(t) \/ SendRemoval(t) \/ SendAddition(t)
  PROVE  InnerStep(t)
<1>1. CASE SendMode(t)
  BY <1>1 DEF WorkTypes, SendMode, InnerStep, InMulti, Within, Go, Fields, wanted
<1>2. CASE SendRemoval(t)
  BY <1>2 DEF WorkTypes, SendRemoval, InnerStep, InMulti, Within, Go, Fields, wanted
<1>3. CASE SendAddition(t)
  BY <1>3 DEF WorkTypes, SendAddition, InnerStep, InMulti, Within, Go, Fields, wanted
<1> QED BY <1>1, <1>2, <1>3

\* Such a step keeps all the invariant says.
LEMMA InnerSettings ==
  ASSUME SettingsInv, NEW t \in Setters, InnerStep(t)
  PROVE  SettingsInv'
<1>1. WorkTypes /\ Attaching /\ IpsTold /\ (~raced => MtuKnown)
  BY DEF SettingsInv
<1>2. WorkTypes'
  BY <1>1 DEF WorkTypes, InnerStep, InMulti, Within, Places
<1>3. Attaching'
  BY <1>1 DEF WorkTypes, Attaching, InMulti, Within, InnerStep, Setters, Resting
<1>4. IpsTold'
  BY <1>1 DEF WorkTypes, IpsTold, InnerStep, Setters
<1>5. ~raced' => MtuKnown'
  BY <1>1 DEF WorkTypes, Attaching, MtuKnown, MtuSending, WillSend, InMulti, Within, InMtu, Resting,
     InnerStep, Setters
<1> QED BY <1>2, <1>3, <1>4, <1>5 DEF SettingsInv

\* What an idle thread and one that begins looks like.

LEMMA IdleFields ==
  /\ DOMAIN Idle = Fields /\ Idle.pc = "idle" /\ Idle.i = 1 /\ Idle.attaching = FALSE
  /\ LET r == [Idle EXCEPT !.pc = "take"] IN
       DOMAIN r = Fields /\ r.pc = "take" /\ r.i = 1 /\ r.attaching = FALSE
  /\ LET r == [Idle EXCEPT !.pc = "take", !.attaching = TRUE] IN
       DOMAIN r = Fields /\ r.pc = "take" /\ r.i = 1 /\ r.attaching = TRUE
BY DEF Idle, Fields

\* The contexts are counted from 1.

LEMMA ContextNumbers ==
  /\ Len(Ctxs) \in Nat /\ DOMAIN Ctxs = 1 .. Len(Ctxs)
  /\ \A c \in DOMAIN Ctxs : c \in Nat /\ c >= 1
BY FilterAssumption

\* A step of one thread, given what its record becomes.

LEMMA GoChanges ==
  ASSUME WorkTypes, NEW t \in Setters, NEW r, Go(t, r)
  PROVE  DOMAIN w' = Setters /\ w'[t] = r /\ \A u \in Setters \ {t} : w'[u] = w[u]
BY DEF WorkTypes, Go

\* The parts of the invariant that a step of one thread disturbs.

LEMMA StepTypes ==
  ASSUME WorkTypes, NEW t \in Setters, DOMAIN w' = Setters, \A u \in Setters \ {t} : w'[u] = w[u],
         DOMAIN w'[t] = Fields, w'[t].pc \in Places, w'[t].i \in Nat \ {0},
         w'[t].attaching \in BOOLEAN, DOMAIN cardMtu' = DOMAIN cardMtu,
         open' \in BOOLEAN, attached' \in BOOLEAN, resetting' \in BOOLEAN,
         mtuBad' \in BOOLEAN, raced' \in BOOLEAN
  PROVE  WorkTypes'
BY DEF WorkTypes

\* A thread that is done with the MTU ends its attach or is idle.

LEMMA MtuEndsRight ==
  ASSUME WorkTypes, NEW t \in Setters, MtuEnds(t)
  PROVE  /\ DOMAIN w' = Setters /\ (\A u \in Setters \ {t} : w'[u] = w[u])
         /\ DOMAIN w'[t] = Fields /\ w'[t].i \in Nat \ {0} /\ w'[t].pc \in {"end", "idle"}
         /\ (w'[t].pc = "end" <=> w[t].attaching)
         /\ w'[t].attaching \in BOOLEAN /\ (w'[t].attaching <=> w[t].attaching)
<1>1. /\ DOMAIN w' = Setters /\ (\A u \in Setters \ {t} : w'[u] = w[u])
      /\ w'[t] = IF w[t].attaching THEN [w[t] EXCEPT !.pc = "end"] ELSE Idle
  BY GoChanges DEF MtuEnds
<1>2. CASE w[t].attaching
  BY <1>1, <1>2 DEF WorkTypes, Fields
<1>3. CASE ~w[t].attaching
  <2>1. w'[t] = Idle
    BY <1>1, <1>3
  <2>2. DOMAIN w'[t] = Fields /\ w'[t].pc = "idle" /\ w'[t].i = 1 /\ w'[t].attaching = FALSE
    BY <2>1, IdleFields
  <2>3. w'[t].attaching \in BOOLEAN /\ ~w'[t].attaching
    BY <2>2
  <2>4. w'[t].i \in Nat \ {0} /\ w'[t].pc \in {"end", "idle"} /\ w'[t].pc # "end"
    BY <2>2
  <2> QED BY <1>1, <1>3, <2>2, <2>3, <2>4
<1> QED BY <1>2, <1>3

\* One lemma for each of the other steps: what it makes of the thread, then each part of the
\* invariant.
LEMMA SetMultiDoneSettings ==
  ASSUME SettingsInv, NEW t \in Setters, SetMultiDone(t)
  PROVE  SettingsInv'
<1>1. WorkTypes /\ Attaching /\ IpsTold /\ (~raced => MtuKnown)
  BY DEF SettingsInv
<1>2. /\ w[t].pc = "send" /\ InMulti(t) /\ w[t].i = 1
      /\ DOMAIN w' = Setters /\ (\A u \in Setters \ {t} : w'[u] = w[u])
      /\ w'[t] = IF w[t].attaching THEN [w[t] EXCEPT !.pc = "mtu", !.new = mtu] ELSE Idle
  BY <1>1, GoChanges DEF SetMultiDone, Attaching, InMulti, Within, Resting
<1>3. /\ w[t].pc = "send" /\ DOMAIN w' = Setters /\ (\A u \in Setters \ {t} : w'[u] = w[u])
      /\ DOMAIN w'[t] = Fields /\ w'[t].i = 1
      /\ w'[t].attaching \in BOOLEAN /\ (w'[t].attaching <=> w[t].attaching)
      /\ w'[t].pc \in {"mtu", "idle"} /\ (w'[t].pc = "mtu" <=> w[t].attaching)
      /\ UNCHANGED <<ips, mtu, open, attached, resetting, cardIps, cardMtu, ipLost, mtuBad>>
      /\ UNCHANGED raced
  <2>1. CASE w[t].attaching
    BY <1>1, <1>2, <2>1 DEF WorkTypes, SetMultiDone, Fields, wanted, cardState, notes
  <2>2. CASE ~w[t].attaching
    BY <1>1, <1>2, <2>2, IdleFields DEF WorkTypes, SetMultiDone, wanted, cardState, notes
  <2> QED BY <2>1, <2>2
<1>4. WorkTypes'
  BY <1>1, <1>3, StepTypes DEF WorkTypes, Places
<1>5. Attaching'
  BY <1>1, <1>3 DEF WorkTypes, Attaching, InMulti, Within, Setters, Places, Resting
<1>6. IpsTold'
  BY <1>1, <1>3 DEF WorkTypes, Attaching, IpsTold, InMulti, Within, Setters, Resting
<1>7. ~raced' => MtuKnown'
  BY <1>1, <1>3, ContextNumbers DEF WorkTypes, Attaching, MtuKnown, MtuSending, WillSend,
     InMulti, Within, InMtu, Resting, Setters
<1> QED BY <1>4, <1>5, <1>6, <1>7 DEF SettingsInv

LEMMA SendMtuSettings ==
  ASSUME SettingsInv, NEW t \in Setters, SendMtu(t)
  PROVE  SettingsInv'
<1>1. WorkTypes /\ Attaching /\ IpsTold /\ (~raced => MtuKnown)
  BY DEF SettingsInv
<1>2. /\ InMtu(t) /\ w[t].i \in DOMAIN Ctxs /\ w[t].i \in Nat \ {0} /\ w[t].pc = "mtu"
      /\ UNCHANGED <<ips, open, attached, resetting, cardIps, ipLost, mtu>> /\ raced' \in BOOLEAN
      /\ ~raced' => ~raced /\ \A u \in Setters \ {t} : ~InMtu(u)
  BY <1>1 DEF SendMtu, WorkTypes, InMtu, wanted
<1>3. CASE /\ cardMtu' = (IF attached THEN [cardMtu EXCEPT ![w[t].i] = w[t].new] ELSE cardMtu)
           /\ Go(t, [w[t] EXCEPT !.i = @ + 1]) /\ UNCHANGED <<mtuBad, faults>>
  <2>1. /\ DOMAIN w' = Setters /\ (\A u \in Setters \ {t} : w'[u] = w[u])
        /\ DOMAIN w'[t] = Fields /\ w'[t].i = w[t].i + 1 /\ w'[t].pc = "mtu" /\ w'[t].new = w[t].new
        /\ w'[t].attaching \in BOOLEAN /\ (w'[t].attaching <=> w[t].attaching)
    <3>1. DOMAIN w' = Setters /\ (\A u \in Setters \ {t} : w'[u] = w[u]) /\ w'[t] = [w[t] EXCEPT !.i = @ + 1]
      BY <1>1, <1>3, GoChanges
    <3> QED BY <1>1, <1>2, <3>1 DEF WorkTypes, Fields
  <2>2. /\ DOMAIN cardMtu' = DOMAIN Ctxs /\ UNCHANGED mtuBad
        /\ \A c \in DOMAIN Ctxs : (c # w[t].i \/ ~attached) => cardMtu'[c] = cardMtu[c]
        /\ attached => cardMtu'[w[t].i] = w[t].new
    <3>1. CASE attached
      BY <1>1, <1>2, <1>3, <3>1 DEF WorkTypes
    <3>2. CASE ~attached
      BY <1>1, <1>2, <1>3, <3>2 DEF WorkTypes
    <3> QED BY <3>1, <3>2
  <2>3. \A c \in DOMAIN Ctxs : c < w[t].i + 1 => c < w[t].i \/ c = w[t].i
    BY <1>2, ContextNumbers
  <2>4. WorkTypes'
    BY <1>1, <1>2, <2>1, <2>2, <2>3, StepTypes DEF WorkTypes, Places
  <2>5. Attaching'
    BY <1>1, <1>2, <2>1, <2>2, <2>3 DEF WorkTypes, Attaching, InMulti, Within, Setters, Places, Resting
  <2>6. IpsTold'
    BY <1>1, <1>2, <2>1, <2>2, <2>3 DEF WorkTypes, Attaching, IpsTold, InMulti, Within, Setters, Resting
  <2>7. ~raced' => MtuKnown'
    BY <1>1, <1>2, <2>1, <2>2, <2>3, ContextNumbers DEF WorkTypes, Attaching, MtuKnown,
       MtuSending, WillSend, InMulti, Within, InMtu, Resting, Setters
  <2> QED BY <2>4, <2>5, <2>6, <2>7 DEF SettingsInv
<1>4. CASE attached /\ Fault /\ mtuBad' = TRUE /\ MtuEnds(t) /\ UNCHANGED cardMtu
  <2>1. /\ DOMAIN w' = Setters /\ (\A u \in Setters \ {t} : w'[u] = w[u])
        /\ DOMAIN w'[t] = Fields /\ w'[t].i \in Nat \ {0} /\ w'[t].pc \in {"end", "idle"}
        /\ (w'[t].pc = "end" <=> w[t].attaching)
        /\ w'[t].attaching \in BOOLEAN /\ (w'[t].attaching <=> w[t].attaching)
    BY <1>1, <1>2, <1>4, MtuEndsRight
  <2>2. mtuBad' = TRUE /\ UNCHANGED cardMtu /\ attached
    BY <1>4
  <2>4. WorkTypes'
    BY <1>1, <1>2, <2>1, <2>2, StepTypes DEF WorkTypes, Places
  <2>5. Attaching'
    BY <1>1, <1>2, <2>1, <2>2 DEF WorkTypes, Attaching, InMulti, Within, Setters, Places, Resting
  <2>6. IpsTold'
    BY <1>1, <1>2, <2>1, <2>2 DEF WorkTypes, Attaching, IpsTold, InMulti, Within, Setters, Resting
  <2>7. ~raced' => MtuKnown'
    BY <1>1, <1>2, <2>1, <2>2, ContextNumbers DEF WorkTypes, Attaching, MtuKnown, MtuSending,
       WillSend, InMulti, Within, InMtu, Resting, Setters
  <2> QED BY <2>4, <2>5, <2>6, <2>7 DEF SettingsInv
<1> QED BY <1>3, <1>4 DEF SendMtu

LEMMA SetMtuSettings ==
  ASSUME SettingsInv, NEW t \in Setters, SetMtu(t)
  PROVE  SettingsInv'
<1>1. WorkTypes /\ Attaching /\ IpsTold /\ (~raced => MtuKnown)
  BY DEF SettingsInv
<1>2. /\ InMtu(t) /\ w[t].i \notin DOMAIN Ctxs /\ w[t].i \in Nat \ {0} /\ w[t].pc = "mtu"
      /\ UNCHANGED <<ips, open, attached, resetting, cardIps, ipLost, cardMtu>>
      /\ UNCHANGED raced
      /\ mtu' = w[t].new /\ mtuBad' = FALSE /\ MtuEnds(t)
  BY <1>1 DEF SetMtu, WorkTypes, InMtu, cardState
<1>3. /\ DOMAIN w' = Setters /\ (\A u \in Setters \ {t} : w'[u] = w[u])
      /\ DOMAIN w'[t] = Fields /\ w'[t].i \in Nat \ {0} /\ w'[t].pc \in {"end", "idle"}
      /\ (w'[t].pc = "end" <=> w[t].attaching)
      /\ w'[t].attaching \in BOOLEAN /\ (w'[t].attaching <=> w[t].attaching)
  BY <1>1, <1>2, MtuEndsRight
<1>4. \A c \in DOMAIN Ctxs : c < w[t].i
  BY <1>2, ContextNumbers
<1>5. WorkTypes'
  BY <1>1, <1>2, <1>3, StepTypes DEF WorkTypes, Places
<1>6. Attaching'
  BY <1>1, <1>2, <1>3 DEF WorkTypes, Attaching, InMulti, Within, Setters, Places, Resting
<1>7. IpsTold'
  BY <1>1, <1>2, <1>3 DEF WorkTypes, Attaching, IpsTold, InMulti, Within, Setters, Resting
<1>8. ~raced' => MtuKnown'
  BY <1>1, <1>2, <1>3, <1>4, ContextNumbers DEF WorkTypes, Attaching, MtuKnown, MtuSending,
     WillSend, InMulti, Within, InMtu, Resting, Setters
<1> QED BY <1>5, <1>6, <1>7, <1>8 DEF SettingsInv

LEMMA SetMulticastListSettings ==
  ASSUME SettingsInv, SetMulticastList
  PROVE  SettingsInv'
<1>1. WorkTypes /\ Attaching /\ IpsTold /\ (~raced => MtuKnown)
  BY DEF SettingsInv
<1>2. /\ UNCHANGED <<ips, open, attached, resetting, cardIps, ipLost, mtu, cardMtu, mtuBad>>
      /\ w["stack"].pc = "idle"
      /\ raced' \in BOOLEAN /\ (raced => raced')
      /\ (w' = w \/ Go("stack", [Idle EXCEPT !.pc = "take"]))
  BY <1>1 DEF SetMulticastList, Resting, WorkTypes, cardState
<1>3. /\ DOMAIN w' = Setters /\ (\A u \in Setters \ {"stack"} : w'[u] = w[u])
      /\ DOMAIN w'["stack"] = Fields /\ w'["stack"].i \in Nat \ {0} /\ w'["stack"].pc \in {"idle", "take"}
      /\ w'["stack"].attaching = FALSE /\ (w'["stack"].pc = "take" => w'["stack"].i = 1)
  <2>1. CASE w' = w
    BY <1>1, <1>2, <2>1 DEF WorkTypes, Attaching, Setters, Resting
  <2>2. CASE Go("stack", [Idle EXCEPT !.pc = "take"])
    <3>1. DOMAIN w' = Setters /\ (\A u \in Setters \ {"stack"} : w'[u] = w[u]) /\ w'["stack"] = [Idle EXCEPT !.pc = "take"]
      BY <1>1, <2>2, GoChanges DEF Setters
    <3> QED BY <3>1, IdleFields
  <2> QED BY <1>2, <2>1, <2>2
<1>4. WorkTypes'
  BY <1>1, <1>2, <1>3, StepTypes DEF WorkTypes, Places, Setters
<1>5. Attaching'
  BY <1>1, <1>2, <1>3 DEF WorkTypes, Attaching, InMulti, Within, Setters, Places, Resting
<1>6. IpsTold'
  BY <1>1, <1>2, <1>3 DEF WorkTypes, Attaching, IpsTold, InMulti, Within, Setters, Resting
<1>7. ~raced' => MtuKnown'
  BY <1>1, <1>2, <1>3, ContextNumbers DEF WorkTypes, Attaching, MtuKnown, MtuSending,
     WillSend, InMulti, Within, InMtu, Resting, Setters
<1> QED BY <1>4, <1>5, <1>6, <1>7 DEF SettingsInv

LEMMA SetMacSettings ==
  ASSUME SettingsInv, SetMac
  PROVE  SettingsInv'
<1>1. WorkTypes /\ Attaching /\ IpsTold /\ (~raced => MtuKnown)
  BY DEF SettingsInv
<1>2. /\ UNCHANGED <<ips, open, attached, resetting, cardIps, ipLost, mtu, cardMtu, mtuBad>>
      /\ UNCHANGED raced /\ w["rtnl"].pc = "idle"
      /\ (w' = w \/ Go("rtnl", [Idle EXCEPT !.pc = "take"]))
  BY <1>1 DEF SetMac, Resting, WorkTypes, cardState, notes
<1>3. /\ DOMAIN w' = Setters /\ (\A u \in Setters \ {"rtnl"} : w'[u] = w[u])
      /\ DOMAIN w'["rtnl"] = Fields /\ w'["rtnl"].i \in Nat \ {0} /\ w'["rtnl"].pc \in {"idle", "take"}
      /\ w'["rtnl"].attaching = FALSE /\ w["rtnl"].attaching = FALSE
      /\ (w'["rtnl"].pc = "take" => w'["rtnl"].i = 1)
  <2>1. w["rtnl"].attaching = FALSE
    BY <1>1, <1>2 DEF WorkTypes, Attaching, Setters, Resting
  <2>2. CASE w' = w
    BY <1>1, <1>2, <2>1, <2>2 DEF WorkTypes, Setters
  <2>3. CASE Go("rtnl", [Idle EXCEPT !.pc = "take"])
    <3>1. DOMAIN w' = Setters /\ (\A u \in Setters \ {"rtnl"} : w'[u] = w[u]) /\ w'["rtnl"] = [Idle EXCEPT !.pc = "take"]
      BY <1>1, <2>3, GoChanges DEF Setters
    <3> QED BY <2>1, <3>1, IdleFields
  <2> QED BY <1>2, <2>2, <2>3
<1>4. WorkTypes'
  BY <1>1, <1>2, <1>3, StepTypes DEF WorkTypes, Places, Setters
<1>5. Attaching'
  BY <1>1, <1>2, <1>3 DEF WorkTypes, Attaching, InMulti, Within, Setters, Places, Resting
<1>6. IpsTold'
  BY <1>1, <1>2, <1>3 DEF WorkTypes, Attaching, IpsTold, InMulti, Within, Setters, Resting
<1>7. ~raced' => MtuKnown'
  BY <1>1, <1>2, <1>3, ContextNumbers DEF WorkTypes, Attaching, MtuKnown, MtuSending,
     WillSend, InMulti, Within, InMtu, Resting, Setters
<1> QED BY <1>4, <1>5, <1>6, <1>7 DEF SettingsInv

LEMMA OpenSettings ==
  ASSUME SettingsInv, OpenNic
  PROVE  SettingsInv'
<1>1. WorkTypes /\ Attaching /\ IpsTold /\ (~raced => MtuKnown)
  BY DEF SettingsInv
<1>2. WorkTypes'
  BY <1>1 DEF WorkTypes, OpenNic, Call, Resting, Go, Idle, Attach, Setters, Fields, Places, wanted,
     cardState, notes
<1>3. Attaching'
  BY <1>1 DEF WorkTypes, Attaching, InMulti, Within, OpenNic, Call, Resting, Go, Idle, Attach, Setters,
     Fields, Places, wanted, cardState, notes
<1>4. IpsTold'
  BY <1>1 DEF WorkTypes, Attaching, IpsTold, OpenNic, Call, Resting, Go, Idle, Attach, Setters,
     Fields, Places, wanted, cardState, notes
<1>5. ~raced' => MtuKnown'
  BY <1>1, FilterAssumption DEF WorkTypes, Attaching, MtuKnown, MtuSending, WillSend, InMulti, Within,
     InMtu, Resting, OpenNic, Call, Resting, Go, Idle, Attach, Setters, Fields, Places, wanted,
     cardState, notes
<1> QED BY <1>2, <1>3, <1>4, <1>5 DEF SettingsInv

LEMMA CloseSettings ==
  ASSUME SettingsInv, Close
  PROVE  SettingsInv'
<1>1. WorkTypes /\ Attaching /\ IpsTold /\ (~raced => MtuKnown)
  BY DEF SettingsInv
<1>2. WorkTypes'
  BY <1>1 DEF WorkTypes, Close, Call, Resting, Tell, Setters, Fields, Places, wanted, cardState,
     notes
<1>3. Attaching'
  BY <1>1 DEF WorkTypes, Attaching, InMulti, Within, Close, Call, Resting, Tell, Setters, Fields, Places,
     wanted, cardState, notes
<1>4. IpsTold'
  BY <1>1 DEF WorkTypes, Attaching, IpsTold, Close, Call, Resting, Tell, Setters, Fields, Places,
     wanted, cardState, notes
<1>5. ~raced' => MtuKnown'
  BY <1>1, FilterAssumption DEF WorkTypes, Attaching, MtuKnown, MtuSending, WillSend, InMulti, Within,
     InMtu, Resting, Close, Call, Resting, Tell, Setters, Fields, Places, wanted, cardState, notes
<1> QED BY <1>2, <1>3, <1>4, <1>5 DEF SettingsInv

LEMMA ChangeMtuSettings ==
  ASSUME SettingsInv, ChangeMtu
  PROVE  SettingsInv'
<1>1. WorkTypes /\ Attaching /\ IpsTold /\ (~raced => MtuKnown)
  BY DEF SettingsInv
<1>2. WorkTypes'
  BY <1>1 DEF WorkTypes, ChangeMtu, Call, Resting, Go, Idle, Setters, Fields, Places, wanted,
     cardState, notes
<1>3. Attaching'
  BY <1>1 DEF WorkTypes, Attaching, InMulti, Within, ChangeMtu, Call, Resting, Go, Idle, Setters, Fields,
     Places, wanted, cardState, notes
<1>4. IpsTold'
  BY <1>1 DEF WorkTypes, Attaching, IpsTold, ChangeMtu, Call, Resting, Go, Idle, Setters, Fields,
     Places, wanted, cardState, notes
<1>5. ~raced' => MtuKnown'
  BY <1>1, FilterAssumption DEF WorkTypes, Attaching, MtuKnown, MtuSending, WillSend, InMulti, Within,
     InMtu, Resting, ChangeMtu, Call, Resting, Go, Idle, Setters, Fields, Places, wanted, cardState,
     notes
<1> QED BY <1>2, <1>3, <1>4, <1>5 DEF SettingsInv

LEMMA NetdevUpSettings ==
  ASSUME SettingsInv, NetdevUp
  PROVE  SettingsInv'
<1>1. WorkTypes /\ Attaching /\ IpsTold /\ (~raced => MtuKnown)
  BY DEF SettingsInv
<1>2. /\ UNCHANGED <<ips, open, attached, resetting, mtu, cardMtu, mtuBad>>
      /\ UNCHANGED raced
      /\ w["rtnl"].pc = "end" /\ w["rtnl"].attaching = TRUE /\ attached = TRUE
      /\ w["stack"].pc = "idle"
      /\ Tell(TRUE, ips)
  BY <1>1 DEF NetdevUp, wanted, Resting, WorkTypes, Attaching, Setters
<1>3. /\ DOMAIN w' = Setters /\ (\A u \in Setters \ {"rtnl", "stack"} : w'[u] = w[u])
      /\ DOMAIN w'["rtnl"] = Fields /\ w'["rtnl"].i = 1 /\ w'["rtnl"].pc = "idle"
      /\ w'["rtnl"].attaching = FALSE
      /\ DOMAIN w'["stack"] = Fields /\ w'["stack"].i = 1 /\ w'["stack"].pc = "take"
      /\ w'["stack"].attaching = FALSE
  BY <1>1, IdleFields DEF WorkTypes, NetdevUp, Setters
<1>4. WorkTypes'
  <2>1. ASSUME NEW u \in Setters
        PROVE  /\ DOMAIN w'[u] = Fields /\ w'[u].pc \in Places /\ w'[u].i \in Nat \ {0}
               /\ w'[u].attaching \in BOOLEAN
    <3>1. CASE u = "rtnl" \/ u = "stack"
      <4>1. w'[u].pc \in {"idle", "take"} /\ w'[u].i = 1 /\ w'[u].attaching = FALSE
        BY <1>3, <3>1
      <4>2. DOMAIN w'[u] = Fields
        BY <1>3, <3>1
      <4>3. w'[u].attaching \in BOOLEAN
        BY <4>1
      <4>4. w'[u].pc \in Places /\ w'[u].i \in Nat \ {0}
        BY <4>1 DEF Places
      <4> QED BY <4>2, <4>3, <4>4
    <3>2. CASE u # "rtnl" /\ u # "stack"
      BY <1>1, <1>3, <3>2 DEF WorkTypes
    <3> QED BY <3>1, <3>2
  <2> QED BY <1>1, <1>2, <1>3, <2>1 DEF WorkTypes, Places, Setters
<1>5. Attaching'
  BY <1>1, <1>2, <1>3 DEF WorkTypes, Attaching, InMulti, Within, Setters, Places, Resting
<1>6. IpsTold'
  BY <1>1, <1>2, <1>3 DEF WorkTypes, Attaching, IpsTold, Tell, InMulti, Within, Setters, Resting
<1>7. ~raced' => MtuKnown'
  BY <1>1, <1>2, <1>3, ContextNumbers DEF WorkTypes, Attaching, MtuKnown, MtuSending,
     WillSend, InMulti, Within, InMtu, Resting, Setters
<1> QED BY <1>4, <1>5, <1>6, <1>7 DEF SettingsInv

LEMMA ChangeIpSettings ==
  ASSUME SettingsInv, ChangeIp
  PROVE  SettingsInv'
<1>1. WorkTypes /\ Attaching /\ IpsTold /\ (~raced => MtuKnown)
  BY DEF SettingsInv
<1>2. WorkTypes'
  BY <1>1 DEF WorkTypes, ChangeIp, Call, Resting, Notified, Tell, Setters, Fields, Places,
     wanted, cardState, notes
<1>3. Attaching'
  BY <1>1 DEF WorkTypes, Attaching, InMulti, Within, ChangeIp, Call, Resting, Notified, Tell, Setters,
     Fields, Places, wanted, cardState, notes
<1>4. IpsTold'
  BY <1>1 DEF WorkTypes, Attaching, IpsTold, ChangeIp, Call, Resting, Notified, Tell, Setters,
     Fields, Places, wanted, cardState, notes
<1>5. ~raced' => MtuKnown'
  BY <1>1, FilterAssumption DEF WorkTypes, Attaching, MtuKnown, MtuSending, WillSend, InMulti, Within,
     InMtu, Resting, ChangeIp, Call, Resting, Notified, Tell, Setters, Fields, Places, wanted,
     cardState, notes
<1> QED BY <1>2, <1>3, <1>4, <1>5 DEF SettingsInv

LEMMA SetRxRuleSettings ==
  ASSUME SettingsInv, SetRxRule
  PROVE  SettingsInv'
<1>1. WorkTypes /\ Attaching /\ IpsTold /\ (~raced => MtuKnown)
  BY DEF SettingsInv
<1>2. WorkTypes'
  BY <1>1 DEF WorkTypes, SetRxRule, Setters, Fields, Places, wanted, cardState, notes
<1>3. Attaching'
  BY <1>1 DEF WorkTypes, Attaching, InMulti, Within, SetRxRule, Setters, Fields, Places, wanted,
     cardState, notes, Resting
<1>4. IpsTold'
  BY <1>1 DEF WorkTypes, Attaching, IpsTold, SetRxRule, Setters, Fields, Places, wanted,
     cardState, notes, Resting
<1>5. ~raced' => MtuKnown'
  BY <1>1, FilterAssumption DEF WorkTypes, Attaching, MtuKnown, MtuSending, WillSend, InMulti, Within,
     InMtu, Resting, SetRxRule, Setters, Fields, Places, wanted, cardState, notes
<1> QED BY <1>2, <1>3, <1>4, <1>5 DEF SettingsInv

LEMMA RemoveRxRuleSettings ==
  ASSUME SettingsInv, RemoveRxRule
  PROVE  SettingsInv'
<1>1. WorkTypes /\ Attaching /\ IpsTold /\ (~raced => MtuKnown)
  BY DEF SettingsInv
<1>2. WorkTypes'
  BY <1>1 DEF WorkTypes, RemoveRxRule, Setters, Fields, Places, wanted, cardState, notes
<1>3. Attaching'
  BY <1>1 DEF WorkTypes, Attaching, InMulti, Within, RemoveRxRule, Setters, Fields, Places, wanted,
     cardState, notes, Resting
<1>4. IpsTold'
  BY <1>1 DEF WorkTypes, Attaching, IpsTold, RemoveRxRule, Setters, Fields, Places, wanted,
     cardState, notes, Resting
<1>5. ~raced' => MtuKnown'
  BY <1>1, FilterAssumption DEF WorkTypes, Attaching, MtuKnown, MtuSending, WillSend, InMulti, Within,
     InMtu, Resting, RemoveRxRule, Setters, Fields, Places, wanted, cardState, notes
<1> QED BY <1>2, <1>3, <1>4, <1>5 DEF SettingsInv

LEMMA ResetDetachesSettings ==
  ASSUME SettingsInv, ResetDetaches
  PROVE  SettingsInv'
<1>1. WorkTypes /\ Attaching /\ IpsTold /\ (~raced => MtuKnown)
  BY DEF SettingsInv
<1>2. WorkTypes'
  BY <1>1 DEF WorkTypes, ResetDetaches, Resting, Setters, Fields, Places, wanted, cardState, notes
<1>3. Attaching'
  BY <1>1 DEF WorkTypes, Attaching, InMulti, Within, ResetDetaches, Resting, Setters, Fields, Places,
     wanted, cardState, notes
<1>4. IpsTold'
  BY <1>1 DEF WorkTypes, Attaching, IpsTold, ResetDetaches, Resting, Setters, Fields, Places,
     wanted, cardState, notes
<1>5. ~raced' => MtuKnown'
  BY <1>1, FilterAssumption DEF WorkTypes, Attaching, MtuKnown, MtuSending, WillSend, InMulti, Within,
     InMtu, Resting, ResetDetaches, Resting, Setters, Fields, Places, wanted, cardState, notes
<1> QED BY <1>2, <1>3, <1>4, <1>5 DEF SettingsInv

LEMMA ResetAttachesSettings ==
  ASSUME SettingsInv, ResetAttaches
  PROVE  SettingsInv'
<1>1. WorkTypes /\ Attaching /\ IpsTold /\ (~raced => MtuKnown)
  BY DEF SettingsInv
<1>2. /\ UNCHANGED <<ips, open, cardIps, ipLost, mtu, cardMtu, mtuBad>>
      /\ UNCHANGED raced
      /\ resetting' = FALSE
      /\ \/ w' = w /\ attached' = attached
         \/ attached' = TRUE /\ Go("reset", [Idle EXCEPT !.pc = "take", !.attaching = TRUE])
  BY <1>1 DEF ResetAttaches, Attach, wanted, cardState, notes
<1>3. /\ DOMAIN w' = Setters /\ (\A u \in Setters \ {"reset"} : w'[u] = w[u])
      /\ attached' \in BOOLEAN /\ (attached => attached')
      /\ DOMAIN w'["reset"] = Fields /\ w'["reset"].pc \in Places /\ w'["reset"].i \in Nat \ {0}
      /\ w'["reset"].attaching \in BOOLEAN
      /\ \/ w'["reset"] = w["reset"] /\ attached' = attached
         \/ /\ attached' = TRUE
            /\ w'["reset"].pc = "take" /\ w'["reset"].i = 1 /\ w'["reset"].attaching = TRUE
  <2>1. CASE w' = w /\ attached' = attached
    BY <1>1, <2>1 DEF WorkTypes, Setters
  <2>2. CASE attached' = TRUE /\ Go("reset", [Idle EXCEPT !.pc = "take", !.attaching = TRUE])
    <3>1. DOMAIN w' = Setters /\ (\A u \in Setters \ {"reset"} : w'[u] = w[u])
          /\ w'["reset"] = [Idle EXCEPT !.pc = "take", !.attaching = TRUE]
      BY <1>1, <2>2, GoChanges DEF Setters
    <3>2. DOMAIN w'["reset"] = Fields /\ w'["reset"].pc = "take" /\ w'["reset"].i = 1
          /\ w'["reset"].attaching = TRUE
      BY <3>1, IdleFields
    <3>3. w'["reset"].attaching \in BOOLEAN /\ attached' \in BOOLEAN
      BY <2>2, <3>2
    <3>4. w'["reset"].pc \in Places /\ w'["reset"].i \in Nat \ {0}
      BY <3>2 DEF Places
    <3> QED BY <2>2, <3>1, <3>2, <3>3, <3>4
  <2> QED BY <1>2, <2>1, <2>2
<1>4. WorkTypes'
  BY <1>1, <1>2, <1>3, StepTypes DEF WorkTypes, Places, Setters
<1>5. Attaching'
  BY <1>1, <1>2, <1>3 DEF WorkTypes, Attaching, InMulti, Within, Setters, Places, Resting
<1>6. IpsTold'
  BY <1>1, <1>2, <1>3 DEF WorkTypes, Attaching, IpsTold, InMulti, Within, Setters, Resting
<1>7. ~raced' => MtuKnown'
  BY <1>1, <1>2, <1>3, ContextNumbers DEF WorkTypes, Attaching, MtuKnown, MtuSending,
     WillSend, InMulti, Within, InMtu, Resting, Setters
<1> QED BY <1>4, <1>5, <1>6, <1>7 DEF SettingsInv

LEMMA ResetEndsSettings ==
  ASSUME SettingsInv, ResetEnds
  PROVE  SettingsInv'
<1>1. WorkTypes /\ Attaching /\ IpsTold /\ (~raced => MtuKnown)
  BY DEF SettingsInv
<1>2. WorkTypes'
  BY <1>1 DEF WorkTypes, ResetEnds, Go, Idle, Setters, Fields, Places, wanted, cardState, notes
<1>3. Attaching'
  BY <1>1 DEF WorkTypes, Attaching, InMulti, Within, ResetEnds, Go, Idle, Setters, Fields, Places,
     wanted, cardState, notes, Resting
<1>4. IpsTold'
  BY <1>1 DEF WorkTypes, Attaching, IpsTold, ResetEnds, Go, Idle, Setters, Fields, Places,
     wanted, cardState, notes, Resting
<1>5. ~raced' => MtuKnown'
  BY <1>1, FilterAssumption DEF WorkTypes, Attaching, MtuKnown, MtuSending, WillSend, InMulti, Within,
     InMtu, Resting, ResetEnds, Go, Idle, Setters, Fields, Places, wanted, cardState, notes
<1> QED BY <1>2, <1>3, <1>4, <1>5 DEF SettingsInv

LEMMA WorkSettings ==
  ASSUME SettingsInv, NEW t \in Setters, Work(t)
  PROVE  SettingsInv'
<1>1. CASE TakeList(t) \/ AddStation(t) \/ AddBcast(t) \/ SeeFlags(t) \/ AddListed(t)
  BY <1>1, TakeInner, AddInner, InnerSettings DEF SettingsInv
<1>2. CASE SendMode(t) \/ SendRemoval(t) \/ SendAddition(t)
  BY <1>2, SendInner, InnerSettings DEF SettingsInv
<1> QED BY <1>1, <1>2, SetMultiDoneSettings, SendMtuSettings, SetMtuSettings DEF Work

\* Every step keeps the invariant.
LEMMA FilterSettings ==
  ASSUME SettingsInv, [FilterNext]_filterVars
  PROVE  SettingsInv'
<1>1. CASE \E t \in Setters : Work(t)
  BY <1>1, WorkSettings
<1>2. CASE SetMulticastList \/ SetMac \/ OpenNic \/ Close \/ ChangeMtu \/ NetdevUp \/ ChangeIp
  BY <1>2, SetMulticastListSettings, SetMacSettings, OpenSettings, CloseSettings,
     ChangeMtuSettings, NetdevUpSettings, ChangeIpSettings
<1>3. CASE SetRxRule \/ RemoveRxRule \/ ResetDetaches \/ ResetAttaches \/ ResetEnds
  BY <1>3, SetRxRuleSettings, RemoveRxRuleSettings, ResetDetachesSettings,
     ResetAttachesSettings, ResetEndsSettings
<1>4. CASE UNCHANGED filterVars
  BY <1>4 DEF filterVars, wanted, cardState, notes, SettingsInv, WorkTypes, Attaching, IpsTold,
     MtuKnown, MtuSending, WillSend, InMulti, Within, InMtu, Resting
<1> QED BY <1>1, <1>2, <1>3, <1>4 DEF FilterNext

\* The invariant holds at the beginning, and with it what is claimed.
LEMMA SettingsBegin ==
  ASSUME FilterInit
  PROVE  SettingsInv
<1>1. DOMAIN w = Setters /\ \A t \in Setters : w[t] = Idle
  BY DEF FilterInit
<1>2. \A t \in Setters : /\ DOMAIN w[t] = Fields /\ w[t].pc = "idle" /\ w[t].i = 1
                         /\ w[t].attaching = FALSE
  BY <1>1, IdleFields
<1>3. /\ open = FALSE /\ attached = FALSE /\ resetting = FALSE /\ cardIps = {}
      /\ cardMtu = [c \in DOMAIN Ctxs |-> mtu] /\ mtuBad = FALSE /\ raced = FALSE
  BY DEF FilterInit
<1>4. WorkTypes
  <2>1. \A t \in Setters : /\ DOMAIN w[t] = Fields /\ w[t].pc \in Places
                           /\ w[t].i \in Nat \ {0} /\ w[t].attaching \in BOOLEAN
    <3> SUFFICES ASSUME NEW t \in Setters
                 PROVE  /\ DOMAIN w[t] = Fields /\ w[t].pc \in Places
                        /\ w[t].i \in Nat \ {0} /\ w[t].attaching \in BOOLEAN
      OBVIOUS
    <3>1. w[t].attaching \in BOOLEAN
      BY <1>2
    <3>2. w[t].pc \in Places /\ w[t].i \in Nat \ {0}
      BY <1>2 DEF Places
    <3> QED BY <1>2, <3>1, <3>2
  <2>2. DOMAIN cardMtu = DOMAIN Ctxs
    BY <1>3
  <2> QED BY <1>1, <1>3, <2>1, <2>2 DEF WorkTypes
<1>5. Attaching
  BY <1>2 DEF Attaching, Setters, InMulti, Within, Resting
<1>6. IpsTold
  BY <1>3 DEF IpsTold
<1>7. MtuKnown
  BY <1>2, <1>3 DEF MtuKnown, MtuSending, InMtu
<1> QED BY <1>4, <1>5, <1>6, <1>7 DEF SettingsInv

LEMMA InvSettings == SettingsInv => SettingsKnown
BY DEF SettingsInv, SettingsKnown, Quiet, MtuKnown, IpsTold, Attaching, WorkTypes, WillSend,
   InMulti, Within, InMtu, Resting, Setters

\* When nobody holds the rtnl lock the card answers for the IP addresses of the interface, and
\* when nothing is under way all its contexts have the interface's MTU, whatever was refused,
\* however many contexts there are and wherever resets came between (nx_nic_netdev_event,
\* nx_nic_inetaddr_event, nx_nic_fw40_change_mtu, unm_nic_attach, unm_nic_detach).
THEOREM SettingsHold == FilterSpec => []SettingsKnown
<1>1. FilterInit => SettingsInv
  BY SettingsBegin
<1>2. SettingsInv /\ [FilterNext]_filterVars => SettingsInv'
  BY FilterSettings
<1> QED BY <1>1, <1>2, InvSettings, PTL DEF FilterSpec
-----------------------------------------------------------------------------
(* What a P3 card filters.                                                 *)

\* The steps of set_multi take what they work on out of mac_list and put it back.
ListTypes ==
  /\ macList \in [Macs -> Nat] /\ cardMacs \subseteq Macs
  /\ mc \subseteq Mcasts /\ station \in Stations
  /\ \A t \in Setters :
       /\ w[t].del \in [Macs -> Nat] /\ w[t].add \in [Macs -> Nat] /\ w[t].left \subseteq Mcasts
       /\ ~Within(t) => w[t].del = NoMacs /\ w[t].add = NoMacs
       /\ w[t].pc # "list" => w[t].left = {}

\* Between taking a port down and bringing it up the reset is alone with it.
ResetAlone == resetting => ~attached /\ \A t \in Setters : w[t].pc \in {"idle", "mtu"}

\* The list is to be gone through once more before all is quiet.
Pending == ~open \/ ~attached \/ w["rtnl"].attaching \/ \E t \in Setters : w[t].pc = "take"

Alone(t) == \A u \in Setters \ {t} : ~Within(u)

\* Entries of an address that the card was sent, and whether it has one or will have one.
Had(t, a) == macList[a] + w[t].del[a]
Has(t, a) == macList[a] > 0 \/ w[t].add[a] > 0

\* No address is there twice, be it in two lists, unless it was to be added twice.
Once(t) ==
  \A a \in Macs \ clashed :
    Had(t, a) <= 1 /\ w[t].add[a] <= 1 /\ (w[t].add[a] = 1 => Had(t, a) = 0)

\* The card has what was sent to it.
CardHas(t) == \A a \in Macs \ (lost \cup clashed) : a \in cardMacs <=> Had(t, a) = 1

\* What is still to be gone through is not to be added already.
Fresh(t) ==
  \A a \in Macs \ clashed :
    w[t].add[a] > 0 => /\ w[t].pc # "station" /\ a \notin w[t].left
                       /\ w[t].pc = "bcast" => a \in Stations

\* The addresses gone through so far.
Through(t) ==
  CASE w[t].pc = "station" -> {}
    [] w[t].pc = "bcast" -> {station}
    [] w[t].pc = "flags" -> {station, Bcast}
    [] OTHER -> {station, Bcast} \cup (Listed \ w[t].left)

\* These and no others are in the list or will be, unless the request was lost.
AsWanted(t) ==
  /\ w[t].left \subseteq Listed
  /\ \A a \in Macs : Has(t, a) => a \in Through(t)
  /\ \A a \in Macs \ clashed :
       a \in Through(t) => (Has(t, a) \/ a \in lost) /\ w[t].del[a] = 0

MissMode(t) ==
  /\ w[t].pc = "list" => w[t].mode = Mode
  /\ w[t].pc \notin {"station", "bcast", "flags", "list"} => "mode" \in lost \/ cardMode = Mode

ListsRight(t) ==
  Once(t) /\ CardHas(t) /\ Fresh(t) /\ (~Pending => AsWanted(t) /\ MissMode(t))

\* While the threads of set_multi have not met, one of them at a time is within it.
ListsKept ==
  /\ \A t, u \in Setters : Within(t) /\ Within(u) => t = u
  /\ \A t \in Setters : Alone(t) => ListsRight(t)

FilterInv == ListTypes /\ cardRule = rule /\ (~raced => ResetAlone /\ ListsKept)

\* The types, given what a step of one thread makes of its work.
LEMMA StepLists ==
  ASSUME ListTypes, NEW t \in Setters, \A u \in Setters \ {t} : w'[u] = w[u],
         macList' \in [Macs -> Nat], cardMacs' \subseteq Macs,
         mc' \subseteq Mcasts, station' \in Stations,
         w'[t].del \in [Macs -> Nat], w'[t].add \in [Macs -> Nat], w'[t].left \subseteq Mcasts,
         ~Within(t)' => w'[t].del = NoMacs /\ w'[t].add = NoMacs,
         w'[t].pc # "list" => w'[t].left = {}
  PROVE  ListTypes'
BY DEF ListTypes, Within, NoMacs, Macs

\* A thread that is idle or begins has none.
LEMMA IdleLists ==
  /\ Idle.del = NoMacs /\ Idle.add = NoMacs /\ Idle.left = {}
  /\ LET r == [Idle EXCEPT !.pc = "take"] IN r.del = NoMacs /\ r.add = NoMacs /\ r.left = {}
  /\ LET r == [Idle EXCEPT !.pc = "take", !.attaching = TRUE] IN
       r.del = NoMacs /\ r.add = NoMacs /\ r.left = {}
BY DEF Idle

\* What an addition does with the lists.
LEMMA AddMacLists ==
  ASSUME WorkTypes, ListTypes, NEW t \in Setters, NEW a \in Macs, NEW r, DOMAIN r = Fields,
         r.del = w[t].del, r.add = w[t].add, AddMac(t, a, r)
  PROVE  /\ macList' \in [Macs -> Nat] /\ w'[t].del \in [Macs -> Nat] /\ w'[t].add \in [Macs -> Nat]
         /\ \A b \in Macs \ {a} : /\ macList'[b] = macList[b] /\ w'[t].del[b] = w[t].del[b]
                                  /\ w'[t].add[b] = w[t].add[b] /\ (b \in lost' <=> b \in lost)
         /\ "mode" \in lost => "mode" \in lost'
         /\ \/ /\ w[t].del[a] > 0 /\ macList'[a] = macList[a] + 1
               /\ w'[t].del[a] = w[t].del[a] - 1 /\ w'[t].add[a] = w[t].add[a] /\ lost' = lost
            \/ /\ w[t].del[a] = 0 /\ macList[a] > 0 /\ macList'[a] = macList[a]
               /\ w'[t].del[a] = 0 /\ w'[t].add[a] = w[t].add[a] /\ lost' = lost
            \/ /\ w[t].del[a] = 0 /\ macList[a] = 0 /\ macList'[a] = 0 /\ w'[t].del[a] = 0
               /\ \/ w'[t].add[a] = w[t].add[a] + 1 /\ lost' = lost
                  \/ w'[t].add[a] = w[t].add[a] /\ a \in lost'
<1>1. w[t].del \in [Macs -> Nat] /\ w[t].add \in [Macs -> Nat] /\ macList \in [Macs -> Nat]
  BY DEF ListTypes
<1>2. CASE /\ w[t].del[a] > 0 /\ macList' = [macList EXCEPT ![a] = @ + 1]
           /\ Go(t, [r EXCEPT !.del[a] = @ - 1]) /\ UNCHANGED <<lost, faults>>
  <2>1. w'[t] = [r EXCEPT !.del[a] = @ - 1]
    BY <1>2 DEF WorkTypes, Go
  <2>2. w'[t].del = [w[t].del EXCEPT ![a] = @ - 1] /\ w'[t].add = w[t].add
    BY <2>1 DEF Fields
  <2> QED BY <1>1, <1>2, <2>2
<1>3. CASE w[t].del[a] = 0 /\ macList[a] > 0 /\ Go(t, r) /\ UNCHANGED <<macList, lost, faults>>
  <2>1. w'[t] = r
    BY <1>3 DEF WorkTypes, Go
  <2> QED BY <1>1, <1>3, <2>1
<1>4. CASE /\ w[t].del[a] = 0 /\ macList[a] = 0 /\ UNCHANGED macList
           /\ Go(t, [r EXCEPT !.add[a] = @ + 1]) /\ UNCHANGED <<lost, faults>>
  <2>1. w'[t] = [r EXCEPT !.add[a] = @ + 1]
    BY <1>4 DEF WorkTypes, Go
  <2>2. w'[t].add = [w[t].add EXCEPT ![a] = @ + 1] /\ w'[t].del = w[t].del
    BY <2>1 DEF Fields
  <2> QED BY <1>1, <1>4, <2>2
<1>5. CASE /\ w[t].del[a] = 0 /\ macList[a] = 0 /\ UNCHANGED macList
           /\ lost' = lost \cup {a} /\ Go(t, r)
  <2>1. w'[t] = r
    BY <1>5 DEF WorkTypes, Go
  <2> QED BY <1>1, <1>5, <2>1
<1> QED BY <1>2, <1>3, <1>4, <1>5 DEF AddMac

\* An address is in the list or will be, or it is lost.  Of one that is not to be added
\* already there is one entry at most, and it is right about the card.
LEMMA AddOne ==
  ASSUME WorkTypes, ListTypes, NEW t \in Setters, NEW a \in Macs, NEW r, DOMAIN r = Fields,
         r.del = w[t].del, r.add = w[t].add, AddMac(t, a, r), UNCHANGED <<cardMacs, clashed>>,
         Once(t), CardHas(t), a \in clashed \/ w[t].add[a] = 0
  PROVE  /\ Once(t)' /\ CardHas(t)'
         /\ \A b \in Macs \ {a} : /\ (Has(t, b)' <=> Has(t, b)) /\ w'[t].del[b] = w[t].del[b]
                                  /\ w'[t].add[b] = w[t].add[b] /\ (b \in lost' <=> b \in lost)
         /\ Has(t, a)' \/ a \in lost'
         /\ a \in clashed \/ w'[t].del[a] = 0
<1>1. w[t].del \in [Macs -> Nat] /\ w[t].add \in [Macs -> Nat] /\ macList \in [Macs -> Nat]
  BY DEF ListTypes
<1>2. a \notin clashed => Had(t, a)' = Had(t, a) /\ Had(t, a) <= 1
  BY <1>1, AddMacLists DEF Had, Once
<1>3. \A b \in Macs \ {a} : Had(t, b)' = Had(t, b)
  BY <1>1, AddMacLists DEF Had
<1>4. Once(t)'
  <2> SUFFICES ASSUME NEW b \in Macs \ clashed
               PROVE  Had(t, b)' <= 1 /\ w'[t].add[b] <= 1 /\ (w'[t].add[b] = 1 => Had(t, b)' = 0)
    BY DEF Once
  <2>1. CASE b = a
    BY <1>1, <1>2, <2>1, AddMacLists DEF Had
  <2>2. CASE b # a
    BY <1>1, <1>3, <2>2, AddMacLists DEF Once
  <2> QED BY <2>1, <2>2
<1>5. CardHas(t)'
  BY <1>2, <1>3, AddMacLists DEF CardHas
<1>6. \A b \in Macs \ {a} : /\ (Has(t, b)' <=> Has(t, b)) /\ w'[t].del[b] = w[t].del[b]
                            /\ w'[t].add[b] = w[t].add[b] /\ (b \in lost' <=> b \in lost)
  BY AddMacLists DEF Has
<1>7. Has(t, a)' \/ a \in lost'
  BY <1>1, AddMacLists DEF Has
<1>8. a \in clashed \/ w'[t].del[a] = 0
  BY <1>1, <1>2, AddMacLists DEF Had
<1> QED BY <1>4, <1>5, <1>6, <1>7, <1>8

\* A step of the one thread that is within set_multi, which may leave it: what holds of the
\* lists as the thread sees them holds for the others when it has left.
LEMMA InsideKeeps ==
  ASSUME ListsKept, ListTypes', NEW t \in Setters, Within(t),
         \A u \in Setters \ {t} : w'[u] = w[u], ListsRight(t)'
  PROVE  ListsKept'
<1>1. \A u \in Setters \ {t} : ~Within(u) /\ ~Within(u)'
  BY DEF ListsKept, Within
<1>2. \A v, u \in Setters : Within(v)' /\ Within(u)' => v = u
  BY <1>1
<1>3. ASSUME NEW u \in Setters, Alone(u)' PROVE ListsRight(u)'
  <2>1. CASE u = t
    BY <2>1
  <2>2. CASE u # t
    <3>1. ~Within(t)' /\ ~Within(u)'
      BY <1>1, <1>3, <2>2 DEF Alone
    <3>2. /\ w'[t].del = NoMacs /\ w'[t].add = NoMacs /\ w'[t].left = {}
          /\ w'[u].del = NoMacs /\ w'[u].add = NoMacs /\ w'[u].left = {}
          /\ w'[t].pc \notin {"station", "bcast", "flags", "list"}
          /\ w'[u].pc \notin {"station", "bcast", "flags", "list"}
      BY <3>1 DEF ListTypes, Within
    <3>3. Once(u)' /\ CardHas(u)' /\ Fresh(u)'
      BY <3>2 DEF ListsRight, Once, CardHas, Fresh, Had, Has
    <3>4. ~Pending' => AsWanted(u)' /\ MissMode(u)'
      BY <3>2 DEF ListsRight, AsWanted, MissMode, Through, Has
    <3> QED BY <3>3, <3>4 DEF ListsRight
  <2> QED BY <2>1, <2>2
<1> QED BY <1>2, <1>3 DEF ListsKept

\* The thread within set_multi is the only one, and its lists are right.
LEMMA InsideRight ==
  ASSUME ListsKept, NEW t \in Setters, Within(t)
  PROVE  ListsRight(t)
BY DEF ListsKept, Alone

\* The invariant at the beginning of a step.
LEMMA Parts ==
  ASSUME SettingsInv, FilterInv
  PROVE  /\ WorkTypes /\ Attaching /\ ListTypes /\ cardRule = rule
         /\ ~raced => ResetAlone /\ ListsKept
BY DEF SettingsInv, FilterInv

\* While a thread is within set_multi the port is not between its detaching and attaching.
LEMMA InsideReset ==
  ASSUME ResetAlone, NEW t \in Setters, Within(t), UNCHANGED resetting
  PROVE  ResetAlone'
BY DEF ResetAlone, Within

\* Whether the list is to be gone through again does not change.
LEMMA InsidePending ==
  ASSUME WorkTypes, NEW t \in Setters, \A u \in Setters \ {t} : w'[u] = w[u],
         w[t].pc # "take", w'[t].pc # "take", w'[t].attaching = w[t].attaching,
         UNCHANGED <<open, attached>>
  PROVE  Pending' <=> Pending
BY DEF Pending, Setters

LEMMA AddStationKeeps ==
  ASSUME SettingsInv, FilterInv, NEW t \in Setters, AddStation(t)
  PROVE  FilterInv'
<1> DEFINE r == [w[t] EXCEPT !.pc = "bcast"]
<1>1. /\ WorkTypes /\ ListTypes /\ cardRule = rule /\ (~raced => ResetAlone /\ ListsKept)
      /\ w[t].pc = "station" /\ Within(t) /\ AddMac(t, station, r)
      /\ UNCHANGED <<mc, flags, station, open, attached, resetting, rule, cardMacs, cardMode,
                     cardRule, raced, clashed>>
  BY Parts DEF AddStation, wanted, cardState, Within
<1>2. /\ DOMAIN r = Fields /\ r.del = w[t].del /\ r.add = w[t].add /\ r.pc = "bcast"
      /\ r.left = w[t].left /\ r.attaching = w[t].attaching /\ station \in Macs /\ station \in Stations
  BY <1>1 DEF WorkTypes, Fields, ListTypes, Macs
<1> HIDE DEF r
<1>3. /\ \A u \in Setters \ {t} : w'[u] = w[u]
      /\ w'[t].pc = "bcast" /\ w'[t].left = {} /\ w'[t].attaching = w[t].attaching
  BY <1>1, <1>2, AddMacWork DEF ListTypes
<1>4. /\ macList' \in [Macs -> Nat] /\ w'[t].del \in [Macs -> Nat] /\ w'[t].add \in [Macs -> Nat]
  BY <1>1, <1>2, AddMacLists
<1>5. ListTypes'
  BY <1>1, <1>3, <1>4, StepLists DEF ListTypes, Within
<1>6. ASSUME ~raced PROVE ListsKept'
  <2>1. ListsRight(t)
    BY <1>1, <1>6, InsideRight
  <2>2. (station \in clashed \/ w[t].add[station] = 0) /\ \A b \in Macs \ clashed : w[t].add[b] = 0
    BY <1>1, <1>2, <2>1 DEF ListsRight, Fresh, ListTypes
  <2>3. /\ Once(t)' /\ CardHas(t)' /\ (Has(t, station)' \/ station \in lost')
        /\ \A b \in Macs \ {station} : /\ (Has(t, b)' <=> Has(t, b))
                                       /\ w'[t].add[b] = w[t].add[b]
        /\ station \in clashed \/ w'[t].del[station] = 0
    BY <1>1, <1>2, <2>1, <2>2, AddOne DEF ListsRight
  <2>4. Fresh(t)'
    BY <1>1, <1>2, <1>3, <2>2, <2>3 DEF Fresh
  <2>5. ~Pending' => AsWanted(t)' /\ MissMode(t)'
    <3> SUFFICES ASSUME ~Pending' PROVE AsWanted(t)' /\ MissMode(t)'
      OBVIOUS
    <3>1. AsWanted(t)
      BY <1>1, <1>3, <2>1, InsidePending DEF ListsRight
    <3>2. Through(t) = {} /\ Through(t)' = {station}
      BY <1>1, <1>3 DEF Through
    <3> QED BY <1>1, <1>2, <1>3, <2>3, <3>1, <3>2 DEF AsWanted, MissMode
  <2>6. ListsRight(t)'
    BY <2>3, <2>4, <2>5 DEF ListsRight
  <2> QED BY <1>1, <1>3, <1>5, <1>6, <2>6, InsideKeeps
<1>7. ~raced => ResetAlone'
  BY <1>1, InsideReset
<1> QED BY <1>1, <1>5, <1>6, <1>7 DEF FilterInv

LEMMA AddBcastKeeps ==
  ASSUME SettingsInv, FilterInv, NEW t \in Setters, AddBcast(t)
  PROVE  FilterInv'
<1> DEFINE r == [w[t] EXCEPT !.pc = "flags"]
<1>1. /\ WorkTypes /\ ListTypes /\ cardRule = rule /\ (~raced => ResetAlone /\ ListsKept)
      /\ w[t].pc = "bcast" /\ Within(t) /\ AddMac(t, Bcast, r)
      /\ UNCHANGED <<mc, flags, station, open, attached, resetting, rule, cardMacs, cardMode,
                     cardRule, raced, clashed>>
  BY Parts DEF AddBcast, wanted, cardState, Within
<1>2. /\ DOMAIN r = Fields /\ r.del = w[t].del /\ r.add = w[t].add /\ r.pc = "flags"
      /\ r.left = w[t].left /\ r.attaching = w[t].attaching /\ Bcast \in Macs
      /\ Bcast \notin Stations /\ station \in Stations
  BY <1>1, FilterAssumption DEF WorkTypes, Fields, Macs, ListTypes
<1> HIDE DEF r
<1>3. /\ \A u \in Setters \ {t} : w'[u] = w[u]
      /\ w'[t].pc = "flags" /\ w'[t].left = {} /\ w'[t].attaching = w[t].attaching
  BY <1>1, <1>2, AddMacWork DEF ListTypes
<1>4. /\ macList' \in [Macs -> Nat] /\ w'[t].del \in [Macs -> Nat] /\ w'[t].add \in [Macs -> Nat]
  BY <1>1, <1>2, AddMacLists
<1>5. ListTypes'
  BY <1>1, <1>3, <1>4, StepLists DEF ListTypes, Within
<1>6. ASSUME ~raced PROVE ListsKept'
  <2>1. ListsRight(t)
    BY <1>1, <1>6, InsideRight
  <2>2. Bcast \in clashed \/ w[t].add[Bcast] = 0
    BY <1>1, <1>2, <2>1 DEF ListsRight, Fresh, ListTypes
  <2>3. /\ Once(t)' /\ CardHas(t)' /\ (Has(t, Bcast)' \/ Bcast \in lost')
        /\ \A b \in Macs \ {Bcast} : /\ (Has(t, b)' <=> Has(t, b)) /\ w'[t].del[b] = w[t].del[b]
                                     /\ w'[t].add[b] = w[t].add[b] /\ (b \in lost' <=> b \in lost)
        /\ Bcast \in clashed \/ w'[t].del[Bcast] = 0
    BY <1>1, <1>2, <2>1, <2>2, AddOne DEF ListsRight
  <2>4. Fresh(t)'
    BY <1>3 DEF Fresh
  <2>6. ~Pending' => AsWanted(t)' /\ MissMode(t)'
    <3> SUFFICES ASSUME ~Pending' PROVE AsWanted(t)' /\ MissMode(t)'
      OBVIOUS
    <3>1. AsWanted(t)
      BY <1>1, <1>3, <2>1, InsidePending DEF ListsRight
    <3>2. Through(t) = {station} /\ Through(t)' = {station, Bcast}
      BY <1>1, <1>3 DEF Through
    <3> QED BY <1>1, <1>2, <1>3, <2>3, <3>1, <3>2 DEF AsWanted, MissMode
  <2>7. ListsRight(t)'
    BY <2>3, <2>4, <2>6 DEF ListsRight
  <2> QED BY <1>1, <1>3, <1>5, <1>6, <2>7, InsideKeeps
<1>7. ~raced => ResetAlone'
  BY <1>1, InsideReset
<1> QED BY <1>1, <1>5, <1>6, <1>7 DEF FilterInv

LEMMA SeeFlagsKeeps ==
  ASSUME SettingsInv, FilterInv, NEW t \in Setters, SeeFlags(t)
  PROVE  FilterInv'
<1>1. /\ WorkTypes /\ ListTypes /\ cardRule = rule /\ (~raced => ResetAlone /\ ListsKept)
      /\ w[t].pc = "flags" /\ Within(t)
      /\ Go(t, [w[t] EXCEPT !.pc = "list", !.mode = Mode, !.left = Listed])
      /\ UNCHANGED <<mc, flags, station, open, attached, resetting, macList, rule, cardMacs,
                     cardMode, cardRule, lost, raced>>
      /\ clashed' = clashed \cup {a \in Listed : w[t].add[a] > 0}
  BY Parts DEF SeeFlags, wanted, cardState, Within
<1>2. /\ \A u \in Setters \ {t} : w'[u] = w[u]
      /\ w'[t].pc = "list" /\ w'[t].left = Listed /\ w'[t].mode = Mode
      /\ w'[t].del = w[t].del /\ w'[t].add = w[t].add /\ w'[t].attaching = w[t].attaching
  BY <1>1 DEF WorkTypes, Go, Fields
<1>3. Listed \subseteq mc /\ Listed' = Listed /\ Mode' = Mode /\ Asked' = Asked
  BY <1>1 DEF Listed, Mode, Asked
<1>4. ListTypes'
  BY <1>1, <1>2, <1>3, StepLists DEF ListTypes, Within
<1>5. ASSUME ~raced PROVE ListsKept'
  <2>1. ListsRight(t)
    BY <1>1, <1>5, InsideRight
  <2>2. Once(t)' /\ CardHas(t)' /\ \A b \in Macs : Has(t, b)' <=> Has(t, b)
    BY <1>1, <1>2, <2>1 DEF ListsRight, Once, CardHas, Had, Has
  <2>3. \A b \in Macs \ clashed' : w[t].add[b] > 0 => b \notin Listed
    BY <1>1
  <2>4. Fresh(t)'
    BY <1>2, <2>3 DEF Fresh
  <2>5. ~Pending' => AsWanted(t)' /\ MissMode(t)'
    <3> SUFFICES ASSUME ~Pending' PROVE AsWanted(t)' /\ MissMode(t)'
      OBVIOUS
    <3>1. AsWanted(t)
      BY <1>1, <1>2, <2>1, InsidePending DEF ListsRight
    <3>2. Through(t) = {station, Bcast} /\ Through(t)' = {station, Bcast}
      BY <1>1, <1>2, <1>3 DEF Through
    <3> QED BY <1>1, <1>2, <1>3, <2>2, <3>1, <3>2 DEF AsWanted, MissMode
  <2>6. ListsRight(t)'
    BY <2>2, <2>4, <2>5 DEF ListsRight
  <2> QED BY <1>1, <1>2, <1>4, <1>5, <2>6, InsideKeeps
<1>6. ~raced => ResetAlone'
  BY <1>1, InsideReset
<1> QED BY <1>1, <1>4, <1>5, <1>6 DEF FilterInv

LEMMA AddListedKeeps ==
  ASSUME SettingsInv, FilterInv, NEW t \in Setters, AddListed(t)
  PROVE  FilterInv'
<1>0. PICK a \in w[t].left : AddMac(t, a, [w[t] EXCEPT !.left = @ \ {a}])
  BY DEF AddListed
<1> DEFINE r == [w[t] EXCEPT !.left = @ \ {a}]
<1>1. /\ WorkTypes /\ ListTypes /\ cardRule = rule /\ (~raced => ResetAlone /\ ListsKept)
      /\ w[t].pc = "list" /\ Within(t) /\ AddMac(t, a, r)
      /\ UNCHANGED <<mc, flags, station, open, attached, resetting, rule, cardMacs, cardMode,
                     cardRule, raced, clashed>>
  BY <1>0, Parts DEF AddListed, wanted, cardState, Within
<1>2. /\ DOMAIN r = Fields /\ r.del = w[t].del /\ r.add = w[t].add /\ r.pc = "list"
      /\ r.left = w[t].left \ {a} /\ r.attaching = w[t].attaching /\ r.mode = w[t].mode
      /\ a \in Macs /\ w[t].left \subseteq Mcasts
  BY <1>0, <1>1 DEF WorkTypes, Fields, Macs, ListTypes
<1> HIDE DEF r
<1>3. /\ \A u \in Setters \ {t} : w'[u] = w[u]
      /\ w'[t].pc = "list" /\ w'[t].left = w[t].left \ {a} /\ w'[t].mode = w[t].mode
      /\ w'[t].attaching = w[t].attaching
  BY <1>1, <1>2, AddMacWork
<1>4. /\ macList' \in [Macs -> Nat] /\ w'[t].del \in [Macs -> Nat] /\ w'[t].add \in [Macs -> Nat]
  BY <1>1, <1>2, AddMacLists
<1>5. ListTypes'
  BY <1>1, <1>2, <1>3, <1>4, StepLists DEF ListTypes, Within
<1>6. ASSUME ~raced PROVE ListsKept'
  <2>1. ListsRight(t)
    BY <1>1, <1>6, InsideRight
  <2>2. a \in clashed \/ w[t].add[a] = 0
    BY <1>0, <1>1, <1>2, <2>1 DEF ListsRight, Fresh, ListTypes
  <2>3. /\ Once(t)' /\ CardHas(t)' /\ (Has(t, a)' \/ a \in lost')
        /\ \A b \in Macs \ {a} : /\ (Has(t, b)' <=> Has(t, b)) /\ w'[t].del[b] = w[t].del[b]
                                 /\ w'[t].add[b] = w[t].add[b] /\ (b \in lost' <=> b \in lost)
        /\ a \in clashed \/ w'[t].del[a] = 0
    BY <1>0, <1>1, <1>2, <2>1, <2>2, AddOne DEF ListsRight
  <2>4. Fresh(t)'
    BY <1>1, <1>2, <1>3, <2>1, <2>3 DEF ListsRight, Fresh
  <2>6. ~Pending' => AsWanted(t)' /\ MissMode(t)'
    <3> SUFFICES ASSUME ~Pending' PROVE AsWanted(t)' /\ MissMode(t)'
      OBVIOUS
    <3>1. AsWanted(t) /\ MissMode(t)
      BY <1>1, <1>3, <2>1, InsidePending DEF ListsRight
    <3>2. Listed' = Listed /\ Mode' = Mode /\ station' = station
      BY <1>1 DEF Listed, Mode
    <3>3. /\ Through(t) = {station, Bcast} \cup (Listed \ w[t].left)
          /\ Through(t)' = {station, Bcast} \cup (Listed \ (w[t].left \ {a}))
      BY <1>1, <1>3, <3>2 DEF Through
    <3>4. Through(t)' = Through(t) \cup {a}
      BY <1>0, <3>1, <3>3 DEF AsWanted
    <3>5. AsWanted(t)'
      BY <1>1, <1>2, <1>3, <2>3, <3>1, <3>2, <3>4 DEF AsWanted
    <3>6. MissMode(t)'
      BY <1>1, <1>3, <3>1, <3>2 DEF MissMode
    <3> QED BY <3>5, <3>6
  <2>7. ListsRight(t)'
    BY <2>3, <2>4, <2>6 DEF ListsRight
  <2> QED BY <1>1, <1>3, <1>5, <1>6, <2>7, InsideKeeps
<1>7. ~raced => ResetAlone'
  BY <1>1, InsideReset
<1> QED BY <1>1, <1>5, <1>6, <1>7 DEF FilterInv

LEMMA SendModeKeeps ==
  ASSUME SettingsInv, FilterInv, NEW t \in Setters, SendMode(t)
  PROVE  FilterInv'
<1>1. /\ WorkTypes /\ ListTypes /\ cardRule = rule /\ (~raced => ResetAlone /\ ListsKept)
      /\ w[t].pc = "list" /\ Within(t) /\ w[t].left = {} /\ Go(t, [w[t] EXCEPT !.pc = "send"])
      /\ (cardMode' = w[t].mode /\ lost' = lost \ {"mode"}) \/ (UNCHANGED cardMode /\ lost' = lost \cup {"mode"})
      /\ UNCHANGED <<mc, flags, station, open, attached, resetting, macList, rule, cardMacs,
                     cardRule, raced, clashed>>
  BY Parts DEF SendMode, Sent, Refused, wanted, Within
<1>2. /\ \A u \in Setters \ {t} : w'[u] = w[u]
      /\ w'[t].pc = "send" /\ w'[t].left = {} /\ w'[t].mode = w[t].mode
      /\ w'[t].del = w[t].del /\ w'[t].add = w[t].add /\ w'[t].attaching = w[t].attaching
  BY <1>1 DEF WorkTypes, Go, Fields
<1>3. Listed' = Listed /\ Mode' = Mode /\ Asked' = Asked
  BY <1>1 DEF Listed, Mode, Asked
<1>4. ListTypes'
  BY <1>1, <1>2, StepLists DEF ListTypes, Within
<1>5. ASSUME ~raced PROVE ListsKept'
  <2>1. ListsRight(t)
    BY <1>1, <1>5, InsideRight
  <2>2. \A b \in Macs : b \in lost' <=> b \in lost
    BY <1>1, FilterAssumption
  <2>3. Once(t)' /\ CardHas(t)' /\ \A b \in Macs : Has(t, b)' <=> Has(t, b)
    BY <1>1, <1>2, <2>1, <2>2 DEF ListsRight, Once, CardHas, Had, Has
  <2>4. Fresh(t)'
    BY <1>2 DEF Fresh
  <2>5. ~Pending' => AsWanted(t)' /\ MissMode(t)'
    <3> SUFFICES ASSUME ~Pending' PROVE AsWanted(t)' /\ MissMode(t)'
      OBVIOUS
    <3>1. AsWanted(t) /\ MissMode(t)
      BY <1>1, <1>2, <2>1, InsidePending DEF ListsRight
    <3>2. Through(t)' = Through(t)
      BY <1>1, <1>2, <1>3 DEF Through
    <3>3. AsWanted(t)'
      BY <1>1, <1>2, <1>3, <2>2, <2>3, <3>1, <3>2 DEF AsWanted
    <3>4. MissMode(t)'
      BY <1>1, <1>2, <1>3, <3>1 DEF MissMode
    <3> QED BY <3>3, <3>4
  <2>6. ListsRight(t)'
    BY <2>3, <2>4, <2>5 DEF ListsRight
  <2> QED BY <1>1, <1>2, <1>4, <1>5, <2>6, InsideKeeps
<1>6. ~raced => ResetAlone'
  BY <1>1, InsideReset
<1> QED BY <1>1, <1>4, <1>5, <1>6 DEF FilterInv

\* An address to be removed is none that was gone through, so that what the card makes of the
\* request does not matter to those that are wanted.
LEMMA SendRemovalKeeps ==
  ASSUME SettingsInv, FilterInv, NEW t \in Setters, SendRemoval(t)
  PROVE  FilterInv'
<1>0. PICK a \in Macs :
        /\ w[t].del[a] > 0 /\ Go(t, [w[t] EXCEPT !.del[a] = @ - 1])
        /\ \/ Sent(a) /\ cardMacs' = cardMacs \ {a} /\ UNCHANGED cardMode
           \/ Refused(a)
  BY DEF SendRemoval
<1>1. /\ WorkTypes /\ ListTypes /\ cardRule = rule /\ (~raced => ResetAlone /\ ListsKept)
      /\ w[t].pc = "send" /\ Within(t)
      /\ (cardMacs' = cardMacs \ {a} /\ lost' = lost \ {a}) \/ (UNCHANGED cardMacs /\ lost' = lost \cup {a})
      /\ UNCHANGED <<mc, flags, station, open, attached, resetting, macList, rule, cardMode,
                     cardRule, raced, clashed>>
  BY <1>0, Parts DEF SendRemoval, Sent, Refused, wanted, Within
<1>2. /\ w[t].del \in [Macs -> Nat] /\ w[t].add \in [Macs -> Nat] /\ macList \in [Macs -> Nat]
      /\ w[t].left = {} /\ cardMacs \subseteq Macs /\ a # "mode"
  BY <1>1, FilterAssumption DEF ListTypes
<1>3. /\ \A u \in Setters \ {t} : w'[u] = w[u]
      /\ w'[t].pc = "send" /\ w'[t].left = {} /\ w'[t].attaching = w[t].attaching
      /\ w'[t].del = [w[t].del EXCEPT ![a] = @ - 1] /\ w'[t].add = w[t].add
  BY <1>0, <1>1, <1>2 DEF WorkTypes, Go, Fields
<1>4. /\ w'[t].del \in [Macs -> Nat] /\ w'[t].del[a] = w[t].del[a] - 1
      /\ \A b \in Macs \ {a} : w'[t].del[b] = w[t].del[b] /\ (b \in lost' <=> b \in lost)
                               /\ (b \in cardMacs' <=> b \in cardMacs)
      /\ "mode" \in lost => "mode" \in lost'
  BY <1>0, <1>1, <1>2, <1>3
<1>5. ListTypes'
  BY <1>1, <1>2, <1>3, <1>4, StepLists DEF ListTypes, Within
<1>6. ASSUME ~raced PROVE ListsKept'
  <2>1. ListsRight(t)
    BY <1>1, <1>6, InsideRight
  <2>2. /\ a \in clashed \/ (Had(t, a) = 1 /\ Had(t, a)' = 0)
        /\ \A b \in Macs \ {a} : Had(t, b)' = Had(t, b)
    BY <1>0, <1>1, <1>2, <1>4, <2>1 DEF ListsRight, Once, Had
  <2>3. Once(t)' /\ CardHas(t)'
    BY <1>1, <1>3, <1>4, <2>1, <2>2 DEF ListsRight, Once, CardHas
  <2>4. Fresh(t)'
    BY <1>3 DEF Fresh
  <2>5. ~Pending' => AsWanted(t)' /\ MissMode(t)'
    <3> SUFFICES ASSUME ~Pending' PROVE AsWanted(t)' /\ MissMode(t)'
      OBVIOUS
    <3>1. AsWanted(t) /\ MissMode(t)
      BY <1>1, <1>3, <2>1, InsidePending DEF ListsRight
    <3>2. Listed' = Listed /\ Mode' = Mode /\ Through(t)' = Through(t)
      BY <1>1, <1>2, <1>3 DEF Through, Asked, Listed, Mode
    <3>3. (a \in clashed \/ a \notin Through(t)) /\ \A b \in Macs : Has(t, b)' <=> Has(t, b)
      BY <1>0, <1>1, <1>3, <3>1 DEF AsWanted, Has
    <3>4. AsWanted(t)'
      BY <1>1, <1>3, <1>4, <3>1, <3>2, <3>3 DEF AsWanted
    <3>5. MissMode(t)'
      BY <1>1, <1>3, <1>4, <3>1, <3>2 DEF MissMode
    <3> QED BY <3>4, <3>5
  <2>6. ListsRight(t)'
    BY <2>3, <2>4, <2>5 DEF ListsRight
  <2> QED BY <1>1, <1>3, <1>5, <1>6, <2>6, InsideKeeps
<1>7. ~raced => ResetAlone'
  BY <1>1, InsideReset
<1> QED BY <1>1, <1>5, <1>6, <1>7 DEF FilterInv

LEMMA SendAdditionKeeps ==
  ASSUME SettingsInv, FilterInv, NEW t \in Setters, SendAddition(t)
  PROVE  FilterInv'
<1>0. PICK a \in Macs :
        /\ w[t].add[a] > 0 /\ Go(t, [w[t] EXCEPT !.add[a] = @ - 1])
        /\ \/ Sent(a) /\ cardMacs' = cardMacs \cup {a} /\ UNCHANGED cardMode
           \/ Refused(a)
        /\ macList' = [macList EXCEPT ![a] = @ + 1]
  BY DEF SendAddition
<1>1. /\ WorkTypes /\ ListTypes /\ cardRule = rule /\ (~raced => ResetAlone /\ ListsKept)
      /\ w[t].pc = "send" /\ Within(t)
      /\ (cardMacs' = cardMacs \cup {a} /\ lost' = lost \ {a}) \/ (UNCHANGED cardMacs /\ lost' = lost \cup {a})
      /\ UNCHANGED <<mc, flags, station, open, attached, resetting, rule, cardMode,
                     cardRule, raced, clashed>>
  BY <1>0, Parts DEF SendAddition, Sent, Refused, wanted, Within
<1>2. /\ w[t].del \in [Macs -> Nat] /\ w[t].add \in [Macs -> Nat] /\ macList \in [Macs -> Nat]
      /\ w[t].left = {} /\ cardMacs \subseteq Macs /\ a # "mode"
  BY <1>1, FilterAssumption DEF ListTypes
<1>3. /\ \A u \in Setters \ {t} : w'[u] = w[u]
      /\ w'[t].pc = "send" /\ w'[t].left = {} /\ w'[t].attaching = w[t].attaching
      /\ w'[t].add = [w[t].add EXCEPT ![a] = @ - 1] /\ w'[t].del = w[t].del
  BY <1>0, <1>1, <1>2 DEF WorkTypes, Go, Fields
<1>4. /\ w'[t].add \in [Macs -> Nat] /\ w'[t].add[a] = w[t].add[a] - 1
      /\ macList' \in [Macs -> Nat] /\ macList'[a] = macList[a] + 1 /\ cardMacs' \subseteq Macs
      /\ \A b \in Macs \ {a} : /\ w'[t].add[b] = w[t].add[b] /\ macList'[b] = macList[b]
                               /\ (b \in lost' <=> b \in lost)
                               /\ (b \in cardMacs' <=> b \in cardMacs)
      /\ "mode" \in lost => "mode" \in lost'
  BY <1>0, <1>1, <1>2, <1>3
<1>5. ListTypes'
  BY <1>1, <1>2, <1>3, <1>4, StepLists DEF ListTypes, Within
<1>6. ASSUME ~raced PROVE ListsKept'
  <2>1. ListsRight(t)
    BY <1>1, <1>6, InsideRight
  <2>2. /\ a \in clashed \/ (w[t].add[a] = 1 /\ Had(t, a) = 0 /\ Had(t, a)' = 1)
        /\ \A b \in Macs \ {a} : Had(t, b)' = Had(t, b)
    BY <1>0, <1>1, <1>2, <1>3, <1>4, <2>1 DEF ListsRight, Once, Had
  <2>3. Once(t)' /\ CardHas(t)'
    BY <1>1, <1>4, <2>1, <2>2 DEF ListsRight, Once, CardHas
  <2>4. Fresh(t)'
    BY <1>3 DEF Fresh
  <2>5. ~Pending' => AsWanted(t)' /\ MissMode(t)'
    <3> SUFFICES ASSUME ~Pending' PROVE AsWanted(t)' /\ MissMode(t)'
      OBVIOUS
    <3>1. AsWanted(t) /\ MissMode(t)
      BY <1>1, <1>3, <2>1, InsidePending DEF ListsRight
    <3>2. Listed' = Listed /\ Mode' = Mode /\ Through(t)' = Through(t)
      BY <1>1, <1>2, <1>3 DEF Through, Asked, Listed, Mode
    <3>3. \A b \in Macs : Has(t, b)' <=> Has(t, b)
      BY <1>0, <1>2, <1>4 DEF Has
    <3>4. AsWanted(t)'
      BY <1>0, <1>1, <1>3, <1>4, <3>1, <3>2, <3>3 DEF AsWanted, Has
    <3>5. MissMode(t)'
      BY <1>1, <1>3, <1>4, <3>1, <3>2 DEF MissMode
    <3> QED BY <3>4, <3>5
  <2>6. ListsRight(t)'
    BY <2>3, <2>4, <2>5 DEF ListsRight
  <2> QED BY <1>1, <1>3, <1>5, <1>6, <2>6, InsideKeeps
<1>7. ~raced => ResetAlone'
  BY <1>1, InsideReset
<1> QED BY <1>1, <1>5, <1>6, <1>7 DEF FilterInv

LEMMA MultiDoneKeeps ==
  ASSUME SettingsInv, FilterInv, NEW t \in Setters, SetMultiDone(t)
  PROVE  FilterInv'
<1>1. /\ WorkTypes /\ ListTypes /\ cardRule = rule /\ (~raced => ResetAlone /\ ListsKept)
      /\ w[t].pc = "send" /\ Within(t) /\ w[t].del = NoMacs /\ w[t].add = NoMacs
      /\ Go(t, IF w[t].attaching THEN [w[t] EXCEPT !.pc = "mtu", !.new = mtu] ELSE Idle)
      /\ UNCHANGED <<mc, flags, station, open, attached, resetting, macList, rule, cardMacs,
                     cardMode, cardRule, lost, raced, clashed>>
  BY Parts DEF SetMultiDone, wanted, cardState, notes, Within
<1>2. /\ \A u \in Setters \ {t} : w'[u] = w[u]
      /\ w'[t] = IF w[t].attaching THEN [w[t] EXCEPT !.pc = "mtu", !.new = mtu] ELSE Idle
  BY <1>1, GoChanges
<1>3. /\ w'[t].pc \in {"mtu", "idle"} /\ w'[t].left = {} /\ w'[t].del = NoMacs
      /\ w'[t].add = NoMacs /\ w'[t].attaching = w[t].attaching
  <2>1. CASE w[t].attaching = TRUE
    BY <1>1, <1>2, <2>1 DEF WorkTypes, ListTypes, Fields
  <2>2. CASE w[t].attaching = FALSE
    BY <1>2, <2>2, IdleFields, IdleLists
  <2>3. w[t].attaching \in BOOLEAN
    BY <1>1 DEF WorkTypes
  <2> QED BY <2>1, <2>2, <2>3
<1>4. NoMacs \in [Macs -> Nat] /\ w[t].left = {}
  BY <1>1 DEF NoMacs, ListTypes
<1>5. ListTypes'
  BY <1>1, <1>2, <1>3, <1>4, StepLists DEF ListTypes, Within
<1>6. ASSUME ~raced PROVE ListsKept'
  <2>1. ListsRight(t)
    BY <1>1, <1>6, InsideRight
  <2>2. Once(t)' /\ CardHas(t)' /\ \A b \in Macs : Has(t, b)' <=> Has(t, b)
    BY <1>1, <1>3, <2>1 DEF ListsRight, Once, CardHas, Had, Has
  <2>3. Fresh(t)'
    BY <1>3 DEF Fresh
  <2>4. ~Pending' => AsWanted(t)' /\ MissMode(t)'
    <3> SUFFICES ASSUME ~Pending' PROVE AsWanted(t)' /\ MissMode(t)'
      OBVIOUS
    <3>1. AsWanted(t) /\ MissMode(t)
      BY <1>1, <1>2, <1>3, <2>1, InsidePending DEF ListsRight
    <3>2. Listed' = Listed /\ Mode' = Mode /\ Through(t)' = Through(t)
      BY <1>1, <1>3, <1>4 DEF Through, Asked, Listed, Mode
    <3>3. AsWanted(t)'
      BY <1>1, <1>3, <2>2, <3>1, <3>2 DEF AsWanted
    <3>4. MissMode(t)'
      BY <1>1, <1>3, <3>1, <3>2 DEF MissMode
    <3> QED BY <3>3, <3>4
  <2>5. ListsRight(t)'
    BY <2>2, <2>3, <2>4 DEF ListsRight
  <2> QED BY <1>1, <1>2, <1>5, <1>6, <2>5, InsideKeeps
<1>7. ~raced => ResetAlone'
  BY <1>1, InsideReset
<1> QED BY <1>1, <1>5, <1>6, <1>7 DEF FilterInv

\* The thread that takes the list is alone unless they race.
LEMMA TakeKeeps ==
  ASSUME SettingsInv, FilterInv, NEW t \in Setters, TakeList(t)
  PROVE  FilterInv'
<1>1. /\ WorkTypes /\ ListTypes /\ cardRule = rule /\ (~raced => ResetAlone /\ ListsKept)
      /\ w[t].pc = "take" /\ Go(t, [w[t] EXCEPT !.pc = "station", !.del = macList])
      /\ macList' = NoMacs /\ raced' = (raced \/ \E u \in Setters \ {t} : Within(u))
      /\ UNCHANGED <<mc, flags, station, open, attached, resetting, rule, cardMacs, cardMode,
                     cardRule, lost, clashed>>
  BY Parts DEF TakeList, wanted, cardState
<1>2. /\ w[t].del = NoMacs /\ w[t].add = NoMacs /\ w[t].left = {} /\ ~Within(t)
      /\ macList \in [Macs -> Nat] /\ NoMacs \in [Macs -> Nat] /\ \A a \in Macs : NoMacs[a] = 0
  BY <1>1 DEF ListTypes, Within, NoMacs
<1>3. /\ \A u \in Setters \ {t} : w'[u] = w[u]
      /\ w'[t].pc = "station" /\ w'[t].left = {} /\ w'[t].del = macList /\ w'[t].add = NoMacs
  BY <1>1, <1>2 DEF WorkTypes, Go, Fields
<1>4. ListTypes'
  BY <1>1, <1>2, <1>3, StepLists DEF ListTypes, Within
<1>5. ASSUME ~raced' PROVE ResetAlone' /\ ListsKept'
  <2>1. ~raced /\ \A u \in Setters \ {t} : ~Within(u) /\ ~Within(u)'
    BY <1>1, <1>3, <1>5 DEF Within
  <2>2. ListsRight(t)
    BY <1>1, <2>1 DEF ListsKept, Alone
  <2>3. \A a \in Macs : Had(t, a)' = Had(t, a) /\ ~Has(t, a)' /\ w'[t].add[a] = 0
    BY <1>1, <1>2, <1>3 DEF Had, Has
  <2>4. Once(t)' /\ CardHas(t)' /\ Fresh(t)'
    BY <1>1, <2>2, <2>3 DEF ListsRight, Once, CardHas, Fresh
  <2>5. AsWanted(t)' /\ MissMode(t)'
    BY <1>3, <2>3 DEF AsWanted, MissMode, Through
  <2>6. ListsRight(t)'
    BY <2>4, <2>5 DEF ListsRight
  <2>7. Within(t)' /\ \A u \in Setters : Alone(u)' => u = t
    BY <1>3 DEF Alone, Within
  <2>8. ListsKept'
    BY <2>1, <2>6, <2>7 DEF ListsKept
  <2>9. ResetAlone'
    BY <1>1, <2>1 DEF ResetAlone
  <2> QED BY <2>8, <2>9
<1> QED BY <1>1, <1>4, <1>5 DEF FilterInv

\* A step in which no thread is within set_multi: if it changes what is wanted the list is to
\* be gone through again.
Calm ==
  /\ \A t \in Setters :
       \/ Within(t) /\ w'[t] = w[t]
       \/ /\ ~Within(t) /\ ~Within(t)'
          /\ w'[t].del = NoMacs /\ w'[t].add = NoMacs /\ w'[t].left = {}
  /\ UNCHANGED <<macList, cardMacs, cardMode, lost, clashed>>
  /\ Pending' \/ (~Pending /\ UNCHANGED <<mc, flags, station>>)

LEMMA CalmKeeps ==
  ASSUME ListTypes, ListsKept, Calm
  PROVE  ListsKept'
<1>1. \A t \in Setters : Within(t)' <=> Within(t)
  BY DEF Calm, Within
<1>2. \A v, u \in Setters : Within(v)' /\ Within(u)' => v = u
  BY <1>1 DEF ListsKept
<1>3. ASSUME NEW u \in Setters, Alone(u)' PROVE ListsRight(u)'
  <2>1. ListsRight(u)
    BY <1>1, <1>3 DEF ListsKept, Alone
  <2>2. /\ w'[u].del = w[u].del /\ w'[u].add = w[u].add /\ w'[u].left = w[u].left
        /\ macList' = macList /\ cardMacs' = cardMacs /\ cardMode' = cardMode /\ lost' = lost
        /\ clashed' = clashed
        /\ w'[u] = w[u] \/ (~Within(u) /\ ~Within(u)' /\ w'[u].left = {})
    BY DEF Calm, ListTypes, Within
  <2>3. Once(u)' /\ CardHas(u)' /\ \A a \in Macs : Has(u, a)' <=> Has(u, a)
    BY <2>1, <2>2 DEF ListsRight, Once, CardHas, Had, Has
  <2>4. Fresh(u)'
    <3>1. CASE w'[u] = w[u]
      BY <2>1, <2>2, <3>1 DEF ListsRight, Fresh, Has
    <3>2. CASE ~Within(u)' /\ w'[u].left = {}
      BY <3>2 DEF Fresh, Within
    <3> QED BY <2>2, <3>1, <3>2
  <2>5. ~Pending' => AsWanted(u)' /\ MissMode(u)'
    <3> SUFFICES ASSUME ~Pending' PROVE AsWanted(u)' /\ MissMode(u)'
      OBVIOUS
    <3>1. AsWanted(u) /\ MissMode(u) /\ Listed' = Listed /\ Mode' = Mode /\ Asked' = Asked
          /\ station' = station
      BY <2>1 DEF Calm, ListsRight, Listed, Mode, Asked
    <3>2. CASE w'[u] = w[u]
      BY <2>2, <2>3, <3>1, <3>2 DEF AsWanted, MissMode, Through
    <3>3. CASE ~Within(u) /\ ~Within(u)'
      <4>1. Through(u)' = Through(u)
        BY <2>2, <3>1, <3>3 DEF Through, Within
      <4>2. AsWanted(u)'
        BY <2>2, <2>3, <3>1, <4>1 DEF AsWanted
      <4>3. MissMode(u)'
        BY <2>2, <3>1, <3>3 DEF MissMode, Within
      <4> QED BY <4>2, <4>3
    <3> QED BY <2>2, <3>2, <3>3
  <2> QED BY <2>3, <2>4, <2>5 DEF ListsRight
<1> QED BY <1>2, <1>3 DEF ListsKept

\* A thread outside set_multi goes on outside it.
LEMMA OutsideWork ==
  ASSUME ListTypes, NEW t \in Setters, ~Within(t), \A u \in Setters \ {t} : w'[u] = w[u],
         ~Within(t)', w'[t].del = NoMacs, w'[t].add = NoMacs, w'[t].left = {},
         UNCHANGED <<macList, cardMacs, cardMode, lost, clashed>>,
         Pending' \/ (~Pending /\ UNCHANGED <<mc, flags, station>>)
  PROVE  Calm
BY DEF Calm, ListTypes, Within

\* All threads stay as they are.
LEMMA NoWork ==
  ASSUME ListTypes, w' = w, UNCHANGED <<macList, cardMacs, cardMode, lost, clashed>>,
         Pending' \/ (~Pending /\ UNCHANGED <<mc, flags, station>>)
  PROVE  Calm
BY DEF Calm, ListTypes, Within

LEMMA NoMacsType == NoMacs \in [Macs -> Nat]
BY DEF NoMacs

LEMMA ListChangeKeeps ==
  ASSUME SettingsInv, FilterInv, SetMulticastList
  PROVE  FilterInv'
<1>1. /\ WorkTypes /\ ListTypes /\ cardRule = rule /\ (~raced => ResetAlone /\ ListsKept)
      /\ w["stack"].pc = "idle" /\ "stack" \in Setters /\ mc' \subseteq Mcasts
      /\ IF Present THEN Go("stack", [Idle EXCEPT !.pc = "take"]) ELSE UNCHANGED w
      /\ raced' = (raced \/ (attached /\ open /\ ~Present /\ ~w["rtnl"].attaching))
      /\ UNCHANGED <<station, open, attached, resetting, macList, rule, cardMacs, cardMode,
                     cardRule, lost, clashed>>
  BY Parts DEF SetMulticastList, cardState, Resting, Setters
<1>2. CASE Present
  <2>1. /\ \A u \in Setters \ {"stack"} : w'[u] = w[u]
        /\ w'["stack"].pc = "take" /\ w'["stack"].left = {}
        /\ w'["stack"].del = NoMacs /\ w'["stack"].add = NoMacs
    BY <1>1, <1>2, GoChanges, IdleFields, IdleLists
  <2>2. ListTypes'
    BY <1>1, <2>1, NoMacsType, StepLists DEF ListTypes
  <2>3. ASSUME ~raced PROVE ResetAlone' /\ ListsKept'
    <3>1. Pending' /\ ~Within("stack") /\ ~Within("stack")'
      BY <1>1, <2>1 DEF Pending, Within
    <3>2. Calm
      BY <1>1, <2>1, <3>1, OutsideWork
    <3> QED BY <1>1, <1>2, <2>3, <3>2, CalmKeeps DEF ResetAlone, Present
  <2> QED BY <1>1, <2>2, <2>3 DEF FilterInv
<1>3. CASE ~Present
  <2>1. w' = w
    BY <1>1, <1>3
  <2>2. ListTypes'
    BY <1>1, <2>1 DEF ListTypes, Within
  <2>3. ASSUME ~raced' PROVE ResetAlone' /\ ListsKept'
    <3>1. Pending'
      BY <1>1, <1>3, <2>1, <2>3 DEF Pending
    <3>2. Calm
      BY <1>1, <2>1, <3>1, NoWork
    <3> QED BY <1>1, <2>1, <2>3, <3>2, CalmKeeps DEF ResetAlone
  <2> QED BY <1>1, <2>2, <2>3 DEF FilterInv
<1> QED BY <1>2, <1>3

LEMMA SetMacKeeps ==
  ASSUME SettingsInv, FilterInv, SetMac
  PROVE  FilterInv'
<1>1. /\ WorkTypes /\ ListTypes /\ cardRule = rule /\ (~raced => ResetAlone /\ ListsKept)
      /\ w["rtnl"].pc = "idle" /\ "rtnl" \in Setters /\ station' \in Stations /\ ~resetting
      /\ IF attached THEN Go("rtnl", [Idle EXCEPT !.pc = "take"]) ELSE UNCHANGED w
      /\ UNCHANGED <<mc, open, attached, resetting, macList, rule, cardMacs, cardMode,
                     cardRule, lost, raced, clashed>>
  BY Parts DEF SetMac, cardState, notes, Resting, Setters
<1>2. CASE attached
  <2>1. /\ \A u \in Setters \ {"rtnl"} : w'[u] = w[u]
        /\ w'["rtnl"].pc = "take" /\ w'["rtnl"].left = {}
        /\ w'["rtnl"].del = NoMacs /\ w'["rtnl"].add = NoMacs
    BY <1>1, <1>2, GoChanges, IdleFields, IdleLists
  <2>2. ListTypes'
    BY <1>1, <2>1, NoMacsType, StepLists DEF ListTypes
  <2>3. ASSUME ~raced PROVE ResetAlone' /\ ListsKept'
    <3>1. Pending' /\ ~Within("rtnl") /\ ~Within("rtnl")'
      BY <1>1, <2>1 DEF Pending, Within
    <3>2. Calm
      BY <1>1, <2>1, <3>1, OutsideWork
    <3> QED BY <1>1, <2>3, <3>2, CalmKeeps DEF ResetAlone
  <2> QED BY <1>1, <2>2, <2>3 DEF FilterInv
<1>3. CASE ~attached
  <2>1. w' = w /\ Pending'
    BY <1>1, <1>3 DEF Pending
  <2>2. ListTypes'
    BY <1>1, <2>1 DEF ListTypes, Within
  <2>3. ASSUME ~raced PROVE ResetAlone' /\ ListsKept'
    <3>1. Calm
      BY <1>1, <2>1, NoWork
    <3> QED BY <1>1, <2>3, <3>1, CalmKeeps DEF ResetAlone
  <2> QED BY <1>1, <2>2, <2>3 DEF FilterInv
<1> QED BY <1>2, <1>3

LEMMA OpenKeeps ==
  ASSUME SettingsInv, FilterInv, OpenNic
  PROVE  FilterInv'
<1>1. /\ WorkTypes /\ ListTypes /\ cardRule = rule /\ (~raced => ResetAlone /\ ListsKept)
      /\ w["rtnl"].pc = "idle" /\ "rtnl" \in Setters /\ ~resetting
      /\ Go("rtnl", [Idle EXCEPT !.pc = "take", !.attaching = TRUE])
      /\ UNCHANGED <<mc, station, resetting, macList, rule, cardMacs, cardMode,
                     cardRule, lost, raced, clashed>>
  BY Parts DEF OpenNic, Attach, wanted, cardState, notes, Resting, Setters
<1>2. /\ \A u \in Setters \ {"rtnl"} : w'[u] = w[u]
      /\ w'["rtnl"].pc = "take" /\ w'["rtnl"].left = {}
      /\ w'["rtnl"].del = NoMacs /\ w'["rtnl"].add = NoMacs
  BY <1>1, GoChanges, IdleFields, IdleLists
<1>3. ListTypes'
  BY <1>1, <1>2, NoMacsType, StepLists DEF ListTypes
<1>4. ASSUME ~raced PROVE ResetAlone' /\ ListsKept'
  <2>1. Pending' /\ ~Within("rtnl") /\ ~Within("rtnl")'
    BY <1>1, <1>2 DEF Pending, Within
  <2>2. Calm
    BY <1>1, <1>2, <2>1, OutsideWork
  <2> QED BY <1>1, <1>4, <2>2, CalmKeeps DEF ResetAlone
<1> QED BY <1>1, <1>3, <1>4 DEF FilterInv

LEMMA CloseKeeps ==
  ASSUME SettingsInv, FilterInv, Close
  PROVE  FilterInv'
<1>1. /\ WorkTypes /\ ListTypes /\ cardRule = rule /\ (~raced => ResetAlone /\ ListsKept)
      /\ w' = w /\ open' = FALSE
      /\ UNCHANGED <<mc, station, attached, resetting, macList, rule, cardMacs, cardMode,
                     cardRule, lost, raced, clashed>>
  BY Parts DEF Close, wanted
<1>2. ListTypes' /\ Pending'
  BY <1>1 DEF ListTypes, Within, Pending
<1>3. ASSUME ~raced PROVE ResetAlone' /\ ListsKept'
  <2>1. Calm
    BY <1>1, <1>2, NoWork
  <2> QED BY <1>1, <1>3, <2>1, CalmKeeps DEF ResetAlone
<1> QED BY <1>1, <1>2, <1>3 DEF FilterInv

LEMMA ChangeMtuKeeps ==
  ASSUME SettingsInv, FilterInv, ChangeMtu
  PROVE  FilterInv'
<1>0. PICK m \in Mtus : Go("rtnl", [Idle EXCEPT !.pc = "mtu", !.new = m])
  BY DEF ChangeMtu
<1>1. /\ WorkTypes /\ ListTypes /\ cardRule = rule /\ (~raced => ResetAlone /\ ListsKept)
      /\ w["rtnl"].pc = "idle" /\ "rtnl" \in Setters /\ ~w["rtnl"].attaching
      /\ UNCHANGED <<mc, flags, station, open, attached, resetting, macList, rule, cardMacs,
                     cardMode, cardRule, lost, raced, clashed>>
  BY Parts DEF ChangeMtu, wanted, cardState, notes, Resting, Setters, Attaching
<1>2. /\ \A u \in Setters \ {"rtnl"} : w'[u] = w[u]
      /\ w'["rtnl"].pc = "mtu" /\ w'["rtnl"].left = {} /\ w'["rtnl"].attaching = FALSE
      /\ w'["rtnl"].del = NoMacs /\ w'["rtnl"].add = NoMacs
  <2>1. /\ \A u \in Setters \ {"rtnl"} : w'[u] = w[u]
        /\ w'["rtnl"] = [Idle EXCEPT !.pc = "mtu", !.new = m]
    BY <1>0, <1>1, GoChanges
  <2> QED BY <2>1 DEF Idle
<1>3. ListTypes'
  BY <1>1, <1>2, NoMacsType, StepLists DEF ListTypes
<1>4. ASSUME ~raced PROVE ResetAlone' /\ ListsKept'
  <2>1. (Pending' \/ ~Pending) /\ ~Within("rtnl") /\ ~Within("rtnl")'
    BY <1>1, <1>2 DEF Pending, Within
  <2>2. Calm
    BY <1>1, <1>2, <2>1, OutsideWork
  <2> QED BY <1>1, <1>2, <1>4, <2>2, CalmKeeps DEF ResetAlone
<1> QED BY <1>1, <1>3, <1>4 DEF FilterInv

LEMMA NetdevUpKeeps ==
  ASSUME SettingsInv, FilterInv, NetdevUp
  PROVE  FilterInv'
<1>1. /\ WorkTypes /\ ListTypes /\ cardRule = rule /\ (~raced => ResetAlone /\ ListsKept)
      /\ w["rtnl"].pc = "end" /\ w["stack"].pc = "idle" /\ {"rtnl", "stack"} \subseteq Setters
      /\ UNCHANGED <<mc, station, open, attached, resetting, macList, rule, cardMacs,
                     cardMode, cardRule, lost, raced, clashed>>
  BY Parts DEF NetdevUp, wanted, Resting, Setters
<1>2. /\ \A u \in Setters \ {"rtnl", "stack"} : w'[u] = w[u]
      /\ w'["rtnl"].pc = "idle" /\ w'["rtnl"].left = {}
      /\ w'["rtnl"].del = NoMacs /\ w'["rtnl"].add = NoMacs
      /\ w'["stack"].pc = "take" /\ w'["stack"].left = {}
      /\ w'["stack"].del = NoMacs /\ w'["stack"].add = NoMacs
  <2>1. /\ \A u \in Setters \ {"rtnl", "stack"} : w'[u] = w[u]
        /\ w'["rtnl"] = Idle /\ w'["stack"] = [Idle EXCEPT !.pc = "take"]
    BY <1>1 DEF WorkTypes, NetdevUp
  <2> QED BY <2>1, IdleFields, IdleLists
<1>3. ListTypes'
  BY <1>1, <1>2, NoMacsType DEF ListTypes, Within
<1>4. ASSUME ~raced PROVE ResetAlone' /\ ListsKept'
  <2>1. Pending' /\ \A u \in {"rtnl", "stack"} : ~Within(u) /\ ~Within(u)'
    BY <1>1, <1>2 DEF Pending, Within
  <2>2. Calm
    BY <1>1, <1>2, <2>1 DEF Calm, ListTypes, Within
  <2> QED BY <1>1, <1>4, <2>2, CalmKeeps DEF ResetAlone
<1> QED BY <1>1, <1>3, <1>4 DEF FilterInv

\* Rules and IP addresses have nothing to do with the filters.
LEMMA OtherKeeps ==
  ASSUME SettingsInv, FilterInv, ChangeIp \/ SetRxRule \/ RemoveRxRule \/ UNCHANGED filterVars
  PROVE  FilterInv'
<1>1. /\ WorkTypes /\ ListTypes /\ cardRule = rule /\ (~raced => ResetAlone /\ ListsKept)
      /\ w' = w
      /\ UNCHANGED <<mc, flags, station, open, attached, resetting, macList, cardMacs,
                     cardMode, lost, raced, clashed>>
  BY Parts DEF ChangeIp, SetRxRule, RemoveRxRule, filterVars, wanted, cardState, notes
<1>2. cardRule' = rule'
  BY <1>1 DEF ChangeIp, SetRxRule, RemoveRxRule, filterVars, wanted, cardState, notes
<1>3. ListTypes' /\ (Pending' <=> Pending)
  BY <1>1 DEF ListTypes, Within, Pending
<1>4. ASSUME ~raced PROVE ResetAlone' /\ ListsKept'
  <2>1. Calm
    BY <1>1, <1>3, NoWork
  <2> QED BY <1>1, <1>4, <2>1, CalmKeeps DEF ResetAlone
<1> QED BY <1>1, <1>2, <1>3, <1>4 DEF FilterInv

LEMMA MtuEndsLists ==
  ASSUME WorkTypes, ListTypes, NEW t \in Setters, w[t].pc = "mtu", MtuEnds(t)
  PROVE  /\ \A u \in Setters \ {t} : w'[u] = w[u]
         /\ w'[t].pc \in {"end", "idle"} /\ (w'[t].pc = "end" => w[t].attaching)
         /\ (w'[t].attaching <=> w[t].attaching) /\ w'[t].left = {}
         /\ w'[t].del = NoMacs /\ w'[t].add = NoMacs
<1>1. w[t].left = {} /\ w[t].del = NoMacs /\ w[t].add = NoMacs
  BY DEF ListTypes, Within
<1>2. w'[t] = [w[t] EXCEPT !.pc = "end"] \/ w'[t] = Idle
  BY GoChanges DEF MtuEnds
<1>3. w'[t].left = {} /\ w'[t].del = NoMacs /\ w'[t].add = NoMacs
  BY <1>1, <1>2, IdleLists DEF WorkTypes, Fields
<1> QED BY <1>3, MtuEndsRight

LEMMA MtuKeeps ==
  ASSUME SettingsInv, FilterInv, NEW t \in Setters, SendMtu(t) \/ SetMtu(t)
  PROVE  FilterInv'
<1>1. /\ WorkTypes /\ ListTypes /\ Attaching /\ cardRule = rule
      /\ (~raced => ResetAlone /\ ListsKept)
      /\ w[t].pc = "mtu"
      /\ Go(t, [w[t] EXCEPT !.i = @ + 1]) \/ MtuEnds(t)
      /\ UNCHANGED <<mc, flags, station, open, attached, resetting, macList, rule, cardMacs,
                     cardMode, cardRule, lost, clashed>>
      /\ (raced => raced')
  <2>1. CASE SendMtu(t)
    BY <2>1, Parts DEF SendMtu, wanted
  <2>2. CASE SetMtu(t)
    BY <2>2, Parts DEF SetMtu, cardState
  <2> QED BY <2>1, <2>2
<1>2. w[t].left = {} /\ w[t].del = NoMacs /\ w[t].add = NoMacs /\ ~Within(t)
  BY <1>1 DEF ListTypes, Within
<1>3. /\ \A u \in Setters \ {t} : w'[u] = w[u]
      /\ w'[t].pc \in {"mtu", "end", "idle"} /\ (w'[t].pc = "end" => w[t].attaching)
      /\ (w'[t].attaching <=> w[t].attaching) /\ w'[t].left = {}
      /\ w'[t].del = NoMacs /\ w'[t].add = NoMacs
  <2>1. CASE MtuEnds(t)
    BY <1>1, <2>1, MtuEndsLists
  <2>2. CASE Go(t, [w[t] EXCEPT !.i = @ + 1])
    <3>1. (\A u \in Setters \ {t} : w'[u] = w[u]) /\ w'[t] = [w[t] EXCEPT !.i = @ + 1]
      BY <1>1, <2>2, GoChanges
    <3> QED BY <1>1, <1>2, <3>1 DEF WorkTypes, Fields
  <2> QED BY <1>1, <2>1, <2>2
<1>4. ListTypes'
  BY <1>1, <1>3, NoMacsType, StepLists DEF ListTypes
<1>5. ASSUME ~raced' PROVE ResetAlone' /\ ListsKept'
  <2>1. Pending' <=> Pending
    BY <1>1, <1>3 DEF Pending, Setters
  <2>2. Calm
    <3>1. ~Within(t)'
      BY <1>3 DEF Within
    <3> QED BY <1>1, <1>2, <1>3, <2>1, <3>1, OutsideWork
  <2>3. ResetAlone'
    BY <1>1, <1>3, <1>5 DEF ResetAlone, Attaching
  <2> QED BY <1>1, <1>5, <2>2, <2>3, CalmKeeps
<1> QED BY <1>1, <1>4, <1>5 DEF FilterInv

\* With the card's contexts all goes that was sent; the driver forgets it, too.
LEMMA DetachKeeps ==
  ASSUME SettingsInv, FilterInv, ResetDetaches
  PROVE  FilterInv'
<1>1. /\ WorkTypes /\ ListTypes
      /\ w["rtnl"].pc = "idle" /\ w["reset"].pc = "idle" /\ w' = w
      /\ attached' = FALSE /\ macList' = NoMacs /\ rule' = cardRule'
      /\ cardMacs' = {} /\ lost' = {} /\ raced' = (raced \/ w["stack"].pc # "idle")
      /\ UNCHANGED <<mc, station>>
  BY Parts DEF ResetDetaches, wanted, Resting, DetachList
<1>2. ListTypes'
  BY <1>1, NoMacsType DEF ListTypes, Within
<1>3. ASSUME ~raced' PROVE ResetAlone' /\ ListsKept'
  <2>1. \A t \in Setters : w'[t].pc = "idle" /\ w[t].pc = "idle"
    BY <1>1, <1>3 DEF Setters
  <2>2. \A t \in Setters : ~Within(t)' /\ w'[t].left = {} /\ w'[t].del = NoMacs /\ w'[t].add = NoMacs
    BY <1>2, <2>1 DEF ListTypes, Within
  <2>3. \A a \in Macs : NoMacs[a] = 0
    BY DEF NoMacs
  <2>4. ASSUME NEW t \in Setters PROVE ListsRight(t)'
    <3>1. Once(t)' /\ CardHas(t)' /\ Fresh(t)'
      BY <1>1, <2>1, <2>2, <2>3 DEF Once, CardHas, Fresh, Had, Has
    <3> QED BY <1>1, <3>1 DEF ListsRight, Pending
  <2>5. ListsKept'
    BY <2>2, <2>4 DEF ListsKept
  <2> QED BY <1>1, <2>1, <2>5 DEF ResetAlone
<1> QED BY <1>1, <1>2, <1>3 DEF FilterInv

LEMMA AttachKeeps ==
  ASSUME SettingsInv, FilterInv, ResetAttaches
  PROVE  FilterInv'
<1>1. /\ WorkTypes /\ Attaching /\ ListTypes /\ cardRule = rule
      /\ (~raced => ResetAlone /\ ListsKept)
      /\ resetting /\ resetting' = FALSE /\ "reset" \in Setters
      /\ IF open THEN Go("reset", [Idle EXCEPT !.pc = "take", !.attaching = TRUE]) ELSE UNCHANGED w
      /\ UNCHANGED <<mc, flags, station, open, macList, rule, cardMacs, cardMode, cardRule,
                     lost, raced, clashed>>
  BY Parts DEF ResetAttaches, Attach, wanted, cardState, notes, Setters
<1>2. CASE open
  <2>1. /\ \A u \in Setters \ {"reset"} : w'[u] = w[u]
        /\ w'["reset"].pc = "take" /\ w'["reset"].left = {}
        /\ w'["reset"].del = NoMacs /\ w'["reset"].add = NoMacs
    BY <1>1, <1>2, GoChanges, IdleFields, IdleLists
  <2>2. ListTypes'
    BY <1>1, <2>1, NoMacsType, StepLists DEF ListTypes
  <2>3. ASSUME ~raced PROVE ResetAlone' /\ ListsKept'
    <3>1. Pending' /\ ~Within("reset") /\ ~Within("reset")'
      BY <1>1, <2>1, <2>3 DEF Pending, Within, ResetAlone
    <3>2. Calm
      BY <1>1, <2>1, <3>1, OutsideWork
    <3> QED BY <1>1, <2>3, <3>2, CalmKeeps DEF ResetAlone
  <2> QED BY <1>1, <2>2, <2>3 DEF FilterInv
<1>3. CASE ~open
  <2>1. w' = w /\ Pending'
    BY <1>1, <1>3 DEF Pending
  <2>2. ListTypes'
    BY <1>1, <2>1 DEF ListTypes, Within
  <2>3. ASSUME ~raced PROVE ResetAlone' /\ ListsKept'
    <3>1. Calm
      BY <1>1, <2>1, NoWork
    <3> QED BY <1>1, <2>3, <3>1, CalmKeeps DEF ResetAlone
  <2> QED BY <1>1, <2>2, <2>3 DEF FilterInv
<1> QED BY <1>2, <1>3

LEMMA ResetEndsKeeps ==
  ASSUME SettingsInv, FilterInv, ResetEnds
  PROVE  FilterInv'
<1>1. /\ WorkTypes /\ ListTypes /\ cardRule = rule /\ (~raced => ResetAlone /\ ListsKept)
      /\ w["reset"].pc = "end" /\ Go("reset", Idle) /\ "reset" \in Setters
      /\ UNCHANGED <<mc, flags, station, open, attached, resetting, macList, rule, cardMacs,
                     cardMode, cardRule, lost, raced, clashed>>
  BY Parts DEF ResetEnds, wanted, cardState, notes, Setters
<1>2. /\ \A u \in Setters \ {"reset"} : w'[u] = w[u]
      /\ w'["reset"].pc = "idle" /\ w'["reset"].left = {}
      /\ w'["reset"].del = NoMacs /\ w'["reset"].add = NoMacs
  BY <1>1, GoChanges, IdleFields, IdleLists
<1>3. ListTypes'
  BY <1>1, <1>2, NoMacsType, StepLists DEF ListTypes
<1>4. ASSUME ~raced PROVE ResetAlone' /\ ListsKept'
  <2>1. (Pending' <=> Pending) /\ ~Within("reset") /\ ~Within("reset")'
    BY <1>1, <1>2 DEF Pending, Within, Setters
  <2>2. Calm
    BY <1>1, <1>2, <2>1, OutsideWork
  <2> QED BY <1>1, <1>2, <1>4, <2>2, CalmKeeps DEF ResetAlone
<1> QED BY <1>1, <1>3, <1>4 DEF FilterInv

\* Every step keeps the invariant, which holds at the beginning.
LEMMA FilterKeeps ==
  ASSUME SettingsInv, FilterInv, [FilterNext]_filterVars
  PROVE  FilterInv'
<1>1. ASSUME NEW t \in Setters, Work(t) PROVE FilterInv'
  BY <1>1, TakeKeeps, AddStationKeeps, AddBcastKeeps, SeeFlagsKeeps, AddListedKeeps,
     SendModeKeeps, SendRemovalKeeps, SendAdditionKeeps, MultiDoneKeeps, MtuKeeps DEF Work
<1>2. CASE SetMulticastList \/ SetMac \/ OpenNic \/ Close \/ ChangeMtu \/ NetdevUp
  BY <1>2, ListChangeKeeps, SetMacKeeps, OpenKeeps, CloseKeeps, ChangeMtuKeeps, NetdevUpKeeps
<1>3. CASE ChangeIp \/ SetRxRule \/ RemoveRxRule \/ UNCHANGED filterVars
  BY <1>3, OtherKeeps
<1>4. CASE ResetDetaches \/ ResetAttaches \/ ResetEnds
  BY <1>4, DetachKeeps, AttachKeeps, ResetEndsKeeps
<1> QED BY <1>1, <1>2, <1>3, <1>4 DEF FilterNext

LEMMA FilterBegin ==
  ASSUME FilterInit
  PROVE  FilterInv
<1>1. \A t \in Setters : w[t] = Idle
  BY DEF FilterInit
<1>2. \A t \in Setters : /\ w[t].pc = "idle" /\ ~Within(t)
                         /\ w[t].left = {} /\ w[t].del = NoMacs /\ w[t].add = NoMacs
  BY <1>1, IdleFields, IdleLists DEF Within
<1>3. /\ macList = NoMacs /\ cardMacs = {} /\ open = FALSE /\ attached = FALSE
      /\ resetting = FALSE /\ mc = {} /\ station \in Stations /\ cardRule = rule
  BY DEF FilterInit
<1>4. ListTypes
  BY <1>2, <1>3, NoMacsType DEF ListTypes
<1>5. \A a \in Macs : NoMacs[a] = 0
  BY DEF NoMacs
<1>6. ASSUME NEW t \in Setters PROVE ListsRight(t)
  <2>1. Once(t) /\ CardHas(t) /\ Fresh(t)
    BY <1>2, <1>3, <1>5 DEF Once, CardHas, Fresh, Had, Has
  <2> QED BY <1>3, <2>1 DEF ListsRight, Pending
<1>7. ListsKept /\ ResetAlone
  BY <1>2, <1>3, <1>6 DEF ListsKept, ResetAlone
<1> QED BY <1>3, <1>4, <1>7 DEF FilterInv

\* When all is quiet the stack sees the lists as they are.
LEMMA InvOnce ==
  ASSUME SettingsInv, FilterInv, ~raced, NEW a \in Macs \ clashed
  PROVE  macList[a] <= 1
<1>1. ListTypes /\ ListsKept
  BY DEF FilterInv
<1>2. PICK t \in Setters : Alone(t)
  BY <1>1 DEF ListsKept, Alone, Setters
<1>3. Had(t, a) <= 1 /\ macList[a] \in Nat /\ w[t].del[a] \in Nat
  BY <1>1, <1>2 DEF ListsKept, ListsRight, Once, ListTypes
<1> QED BY <1>3 DEF Had

LEMMA InvFilters ==
  ASSUME SettingsInv, FilterInv
  PROVE  FiltersRight
<1>1. WorkTypes /\ Attaching /\ ListTypes /\ cardRule = rule /\ (~raced => ListsKept)
  BY Parts
<1>2. ASSUME Quiet, ~raced
      PROVE  /\ cardMacs \ (lost \cup clashed) = Asked \ (lost \cup clashed)
             /\ "mode" \in lost \/ cardMode = Mode
             /\ \A a \in Macs : macList[a] > 0 => a \in Asked
  <2>1. \A t \in Setters : w[t].pc = "idle" /\ ~Within(t)
    BY <1>2 DEF Quiet, Resting, Within
  <2>2. ~w["rtnl"].attaching
    BY <1>1, <2>1 DEF Attaching, Setters
  <2>3. ~Pending
    BY <1>2, <2>1, <2>2 DEF Pending, Quiet, Resting
  <2>4. "stack" \in Setters /\ Alone("stack")
    BY <2>1 DEF Setters, Alone
  <2>5. /\ Once("stack") /\ CardHas("stack") /\ AsWanted("stack") /\ MissMode("stack")
    BY <1>1, <1>2, <2>3, <2>4 DEF ListsKept, ListsRight
  <2>6. /\ w["stack"].left = {} /\ w["stack"].del = NoMacs /\ w["stack"].add = NoMacs
        /\ w["stack"].pc = "idle" /\ macList \in [Macs -> Nat] /\ cardMacs \subseteq Macs
    BY <1>1, <2>1, <2>4 DEF ListTypes
  <2>7. \A a \in Macs : NoMacs[a] = 0
    BY DEF NoMacs
  <2>8. \A a \in Macs : Had("stack", a) = macList[a] /\ (Has("stack", a) <=> macList[a] > 0)
    BY <2>6, <2>7 DEF Had, Has
  <2>9. Through("stack") = Asked
    BY <2>6 DEF Through, Asked
  <2>10. Asked \subseteq Macs
    BY <1>1 DEF Asked, Listed, Macs, ListTypes
  <2>11. \A a \in Macs \ clashed : macList[a] = 1 \/ macList[a] = 0
    BY <2>5, <2>6, <2>8 DEF Once
  <2>12. \A a \in Macs \ (lost \cup clashed) : a \in cardMacs <=> a \in Asked
    BY <2>5, <2>8, <2>9, <2>11 DEF CardHas, AsWanted
  <2>13. cardMacs \ (lost \cup clashed) = Asked \ (lost \cup clashed)
    BY <2>6, <2>10, <2>12
  <2>14. "mode" \in lost \/ cardMode = Mode
    BY <2>5, <2>6 DEF MissMode
  <2> QED BY <2>5, <2>8, <2>9, <2>13, <2>14 DEF AsWanted
<1> QED BY <1>1, <1>2, InvOnce DEF FiltersRight

\* The card lets through what the stack wants whenever nothing is under way, as far as its
\* requests were taken, and mac_list has no other addresses and none twice, but for an address
\* that stood in the kernel's list while the driver was adding it on its own account, as the
\* broadcast address may (main.c:5038) - for any number of addresses, whatever was refused,
\* short or reset before, until two threads meet in set_multi - and the rule of a context is
\* the card's (nx_nic_p3_set_multi, nx_nic_p3_add_mac, unm_nic_set_mac, unm_nic_attach,
\* unm_nic_detach).
THEOREM FiltersHold == FilterSpec => []FiltersRight
<1>1. FilterInit => SettingsInv /\ FilterInv
  BY SettingsBegin, FilterBegin
<1>2. SettingsInv /\ FilterInv /\ [FilterNext]_filterVars => SettingsInv' /\ FilterInv'
  BY FilterSettings, FilterKeeps
<1>3. SettingsInv /\ FilterInv => FiltersRight
  BY InvFilters
<1> QED BY <1>1, <1>2, <1>3, PTL DEF FilterSpec
-----------------------------------------------------------------------------
(* The ports.                                                              *)

Steps == {"idle", "begin", "drain", "switch", "on", "filter"}
Lists == {"none", "some", "all"}
Points == [pc : Steps, for : Lists, ok : BOOLEAN]
XgWork == [XgThreads -> [XgPorts -> Points]]

PortTypes ==
  /\ want \in [XgPorts -> Lists] /\ addr \in [XgPorts -> Addrs] /\ mtuOf \in [XgPorts -> XgMtus]
  /\ started \in [XgPorts -> BOOLEAN] /\ listed \in [XgPorts -> BOOLEAN]
  /\ xctl \in [XgPorts -> {"idle", "mac", "init", "multi", "stop", "flush", "timer"}]
  /\ multi \in XgWork
  /\ promisc \in [XgPorts -> BOOLEAN] /\ rxOn \in [XgPorts -> BOOLEAN] /\ promBit \in [XgPorts -> BOOLEAN]
  /\ regs \in [XgPorts -> [mac : Addrs, frame : Nat]]
  /\ cable \in [XgPorts -> BOOLEAN] /\ linkup \in [XgPorts -> BOOLEAN] /\ carrier \in [XgPorts -> BOOLEAN]
  /\ timer \in [XgPorts -> BOOLEAN] /\ work \in [XgPorts -> {"idle", "queued", "phy", "arm"}]
  /\ late \in [XgPorts -> BOOLEAN] /\ crossed \in [XgPorts -> BOOLEAN] /\ missed \in [XgPorts -> BOOLEAN]
  /\ undrained \in [XgPorts -> BOOLEAN]

\* The interface is up, and is not opened, closed or reset.
Live(p) == listed[p] /\ xctl[p] \in {"idle", "mac"}

\* What each step of open, close, set_mac and reset has found or done.
Placed(p) ==
  /\ xctl[p] = "idle" => listed[p] = started[p]
  /\ xctl[p] = "mac" => listed[p] /\ started[p]
  /\ xctl[p] \in {"init", "multi"} => started[p]
  /\ xctl[p] \in {"stop", "flush", "timer"} => listed[p]
  /\ xctl[p] = "flush" => ~started[p]
  /\ Busy("attach", p) => xctl[p] = "multi"

RegsRight(p) ==
  /\ (listed[p] /\ xctl[p] = "idle") \/ xctl[p] = "multi" => regs[p].mac = addr[p]
  /\ Live(p) => regs[p].frame = mtuOf[p] + MTU_FUDGE_FACTOR

\* The watchdog follows the link of a live port and of no other, but for what it had begun.
Followed(p) ==
  /\ Live(p) => timer[p] \/ work[p] # "idle"
  /\ work[p] = "phy" => started[p] \/ xctl[p] \in {"stop", "flush"}
  /\ late[p] \/ carrier[p] = (Live(p) /\ linkup[p])

\* A thread is in the middle of set_multi.
Past(t, p) == multi[t][p].pc \notin {"idle", "begin"}

\* One thread at a time changes the mode: attach while the list is not passed on, the
\* stack while the port is live.
OneAtATime(p) ==
  /\ xctl[p] = "multi" => ~Busy("stack", p)
  /\ Past("stack", p) => Live(p) \/ xctl[p] = "stop"

\* What a thread has found and done.
Changing(t, p) ==
  LET m == multi[t][p] IN
  /\ Past(t, p) => m.for = want[p] \/ (t = "attach" /\ (missed[p] \/ ~listed[p]))
  /\ m.pc \in {"drain", "switch"} => m.ok
  /\ m.pc \in {"on", "filter"} => IF m.ok THEN promBit[p] = Promiscuous(m.for) ELSE undrained[p]

\* The receiver of a port that is, or is being, set.
Set(p) == Live(p) \/ xctl[p] \in {"stop", "multi"}

ModeRight(p) ==
  /\ Set(p) => /\ rxOn[p] \/ \E t \in XgThreads : multi[t][p].pc \in {"drain", "switch", "on"}
               /\ promisc[p] = promBit[p] \/ \E t \in XgThreads : multi[t][p].pc = "on" /\ multi[t][p].ok
  /\ ~Set(p) => ~promisc[p]
  /\ Live(p) \/ xctl[p] = "multi" =>
       \/ \E t \in XgThreads : Busy(t, p)
       \/ undrained[p] \/ missed[p] \/ ~listed[p] \/ promBit[p] = Promiscuous(want[p])

PortOK(p) ==
  /\ Placed(p) /\ RegsRight(p) /\ Followed(p)
  /\ ~crossed[p] => OneAtATime(p) /\ ModeRight(p) /\ \A t \in XgThreads : Changing(t, p)

PortInv == PortTypes /\ \A p \in XgPorts : PortOK(p)

LEMMA PortInvInit == PortInit => PortInv
<1> SUFFICES ASSUME PortInit PROVE PortInv
  OBVIOUS
<1>1. PortTypes
  BY PortAssumption DEF PortInit, PortTypes, XgWork, Points, Every, MultiIdle, Steps, Lists,
     XgThreads, MTU_FUDGE_FACTOR
<1>2. ASSUME NEW p \in XgPorts PROVE PortOK(p)
  BY <1>2 DEF PortInit, Every, MultiIdle, XgThreads, PortOK, Placed, RegsRight, Followed,
     OneAtATime, ModeRight, Changing,
     Past, Busy, Live, Set, Promiscuous
<1> QED BY <1>1, <1>2 DEF PortInv

\* A step of one port leaves the others as they are.
SamePort(p) ==
  /\ want'[p] = want[p] /\ addr'[p] = addr[p] /\ mtuOf'[p] = mtuOf[p]
  /\ started'[p] = started[p] /\ listed'[p] = listed[p] /\ xctl'[p] = xctl[p]
  /\ \A t \in XgThreads : multi'[t][p] = multi[t][p]
  /\ promisc'[p] = promisc[p] /\ rxOn'[p] = rxOn[p] /\ promBit'[p] = promBit[p] /\ regs'[p] = regs[p]
  /\ linkup'[p] = linkup[p] /\ carrier'[p] = carrier[p] /\ timer'[p] = timer[p] /\ work'[p] = work[p]
  /\ late'[p] = late[p] /\ crossed'[p] = crossed[p] /\ missed'[p] = missed[p]
  /\ undrained'[p] = undrained[p]

\* What is said of a port depends on its own state only.
LEMMA OtherPort ==
  ASSUME NEW p \in XgPorts, PortOK(p), SamePort(p)
  PROVE  PortOK(p)'
<1>1. Placed(p)' /\ RegsRight(p)' /\ Followed(p)'
  BY DEF SamePort, PortOK, Placed, RegsRight, Followed, Live, Busy, XgThreads
<1>2. ASSUME ~crossed'[p] PROVE (OneAtATime(p) /\ ModeRight(p) /\ \A t \in XgThreads : Changing(t, p))'
  BY <1>2 DEF SamePort, PortOK, OneAtATime, ModeRight, Changing, Past, Busy, Live, Set,
     XgThreads
<1> QED BY <1>1, <1>2 DEF PortOK

\* A step of the port p has to be looked at for p alone.
LEMMA PortDone ==
  ASSUME PortInv, NEW p \in XgPorts, \A q \in XgPorts \ {p} : SamePort(q), PortTypes', PortOK(p)'
  PROVE  PortInv'
<1>1. ASSUME NEW q \in XgPorts PROVE PortOK(q)'
  BY <1>1, OtherPort DEF PortInv
<1> QED BY <1>1 DEF PortInv

\* One field of one port's registers.
LEMMA FramePut ==
  ASSUME NEW r \in [XgPorts -> [mac : Addrs, frame : Nat]], NEW p \in XgPorts, NEW n \in Nat, NEW s,
         s = [r EXCEPT ![p].frame = n]
  PROVE  /\ s \in [XgPorts -> [mac : Addrs, frame : Nat]] /\ s[p].frame = n /\ s[p].mac = r[p].mac
         /\ \A q \in XgPorts \ {p} : s[q] = r[q]
OBVIOUS

LEMMA TwoFields ==
  ASSUME NEW m \in Points, NEW c, NEW d
  PROVE  [m EXCEPT !.pc = c, !.ok = d] = [pc |-> c, for |-> m.for, ok |-> d]
<1>1. m = [pc |-> m.pc, for |-> m.for, ok |-> m.ok]
  BY DEF Points
<1>2. [m EXCEPT !.pc = c] = [pc |-> c, for |-> m.for, ok |-> m.ok]
  BY <1>1
<1>3. [[pc |-> c, for |-> m.for, ok |-> m.ok] EXCEPT !.ok = d] = [pc |-> c, for |-> m.for, ok |-> d]
  OBVIOUS
<1>4. [m EXCEPT !.pc = c, !.ok = d] = [[m EXCEPT !.pc = c] EXCEPT !.ok = d]
  OBVIOUS
<1> QED BY <1>2, <1>3, <1>4

\* One lemma for each step of a port, which leaves the other ports as they are.
LEMMA MultiBeginsStep ==
  ASSUME PortInv, NEW p \in XgPorts, NEW t \in XgThreads, MultiBegins(t, p)
  PROVE  PortInv'
<1>1. PortTypes /\ PortOK(p)
  BY DEF PortInv
<1>10. /\ multi' \in XgWork /\ multi'[t][p] = ([pc |-> IF promisc[p] # Promiscuous(want[p]) THEN "drain" ELSE "filter",
                                                 for |-> want[p], ok |-> TRUE])
       /\ \A s \in XgThreads : \A q \in XgPorts : s # t \/ q # p => multi'[s][q] = multi[s][q]
  <2> DEFINE v == [pc |-> IF promisc[p] # Promiscuous(want[p]) THEN "drain" ELSE "filter",
                   for |-> want[p], ok |-> TRUE]
  <2>1. v \in Points
    BY <1>1 DEF PortTypes, Points, Steps
  <2>2. multi' = [multi EXCEPT ![t][p] = v] /\ multi \in XgWork
    BY <1>1 DEF MultiBegins, PortTypes
  <2> HIDE DEF v
  <2>3. /\ multi' \in XgWork /\ multi'[t][p] = v
        /\ \A s \in XgThreads : \A q \in XgPorts : s # t \/ q # p => multi'[s][q] = multi[s][q]
    BY <2>1, <2>2 DEF XgWork
  <2> QED BY <2>3 DEF v
<1>2. PortTypes'
  BY <1>1, <1>10, PortAssumption DEF PortTypes, Steps, Lists, XgThreads, MTU_FUDGE_FACTOR,
     Promiscuous, MultiBegins, asked, receiver, link, hist, xgCount
<1>3. \A q \in XgPorts \ {p} : SamePort(q)
  BY <1>1, <1>10 DEF PortTypes, SamePort, XgThreads, MultiBegins, asked, receiver, link, hist,
     xgCount
<1>4. Placed(p)' /\ RegsRight(p)' /\ Followed(p)'
  BY <1>1, <1>10 DEF PortTypes, PortOK, Placed, RegsRight, Followed, Live, Busy, XgThreads,
     MultiBegins, asked, receiver, link, hist, xgCount
<1>5. ASSUME ~crossed'[p] PROVE (OneAtATime(p) /\ ModeRight(p) /\ \A s \in XgThreads : Changing(s, p))'
  <2>1. OneAtATime(p)'
    BY <1>1, <1>5, <1>10 DEF PortTypes, PortOK, Placed, Past, Busy, Live, Set, XgThreads,
       OneAtATime, MultiBegins, asked, receiver, link, hist, xgCount
  <2>2. ModeRight(p)'
    BY <1>1, <1>5, <1>10 DEF PortTypes, PortOK, Placed, Past, Busy, Live, Set, XgThreads,
       OneAtATime, ModeRight, Promiscuous, Changing, MultiBegins, asked, receiver, link, hist, xgCount
  <2>3. \A s \in XgThreads : Changing(s, p)'
    BY <1>1, <1>5, <1>10 DEF PortTypes, PortOK, Placed, Past, Busy, Live, Set, XgThreads,
       OneAtATime, ModeRight, Promiscuous, Changing, MultiBegins, asked, receiver, link, hist, xgCount
  <2> QED BY <2>1, <2>2, <2>3
<1> QED BY <1>2, <1>3, <1>4, <1>5, PortDone DEF PortOK

LEMMA MultiDrainsStep ==
  ASSUME PortInv, NEW p \in XgPorts, NEW t \in XgThreads, MultiDrains(t, p)
  PROVE  PortInv'
<1>1. PortTypes /\ PortOK(p)
  BY DEF PortInv
<1>10. /\ multi' \in XgWork /\ multi'[t][p] = ([pc |-> IF fifo[frameSel] = 0 THEN "switch" ELSE "on",
                                                 for |-> multi[t][p].for, ok |-> fifo[frameSel] = 0])
       /\ \A s \in XgThreads : \A q \in XgPorts : s # t \/ q # p => multi'[s][q] = multi[s][q]
  <2> DEFINE m == multi[t][p]
             d == fifo[frameSel] = 0
             c == IF d THEN "switch" ELSE "on"
             v == [m EXCEPT !.pc = c, !.ok = d]
  <2>1. multi \in XgWork /\ m \in Points /\ c \in Steps /\ d \in BOOLEAN
    BY <1>1 DEF PortTypes, XgWork, Steps
  <2>2. multi' = [multi EXCEPT ![t][p] = v]
    BY <1>1 DEF MultiDrains, PortTypes, XgWork
  <2> HIDE DEF m, c, d
  <2>3. v = [pc |-> c, for |-> m.for, ok |-> d] /\ v \in Points
    <3>1. m.pc \in Steps /\ m.for \in Lists /\ m = [pc |-> m.pc, for |-> m.for, ok |-> m.ok]
      BY <2>1 DEF Points
    <3>2. v = [pc |-> c, for |-> m.for, ok |-> d]
      BY <2>1, TwoFields
    <3> QED BY <2>1, <3>1, <3>2 DEF Points
  <2> HIDE DEF v
  <2>4. /\ multi' \in XgWork /\ multi'[t][p] = v
        /\ \A s \in XgThreads : \A q \in XgPorts : s # t \/ q # p => multi'[s][q] = multi[s][q]
    BY <2>1, <2>2, <2>3 DEF XgWork
  <2> QED BY <2>3, <2>4 DEF m, c, d
<1>2. PortTypes'
  BY <1>1, <1>10, PortAssumption DEF PortTypes, Steps, Lists, XgThreads, MTU_FUDGE_FACTOR,
     Promiscuous, MultiDrains, asked, receiver, link, hist, xgCount
<1>3. \A q \in XgPorts \ {p} : SamePort(q)
  BY <1>1, <1>10 DEF PortTypes, SamePort, XgThreads, MultiDrains, asked, receiver, link, hist,
     xgCount
<1>4. Placed(p)' /\ RegsRight(p)' /\ Followed(p)'
  BY <1>1, <1>10 DEF PortTypes, PortOK, Placed, RegsRight, Followed, Live, Busy, XgThreads,
     MultiDrains, asked, receiver, link, hist, xgCount
<1>5. ASSUME ~crossed'[p] PROVE (OneAtATime(p) /\ ModeRight(p) /\ \A s \in XgThreads : Changing(s, p))'
  BY <1>1, <1>5, <1>10 DEF PortTypes, PortOK, Placed, OneAtATime, ModeRight, Changing, Past,
     Busy, Live, Set, XgThreads,
     Promiscuous, MultiDrains, asked, receiver, link, hist, xgCount
<1> QED BY <1>2, <1>3, <1>4, <1>5, PortDone DEF PortOK

LEMMA MultiSwitchesStep ==
  ASSUME PortInv, NEW p \in XgPorts, NEW t \in XgThreads, MultiSwitches(t, p)
  PROVE  PortInv'
<1>1. PortTypes /\ PortOK(p)
  BY DEF PortInv
<1>10. /\ multi' \in XgWork /\ multi'[t][p] = ([pc |-> "on", for |-> multi[t][p].for, ok |-> multi[t][p].ok])
       /\ \A s \in XgThreads : \A q \in XgPorts : s # t \/ q # p => multi'[s][q] = multi[s][q]
  <2> DEFINE m == multi[t][p]
             v == [m EXCEPT !.pc = "on"]
  <2>1. multi \in XgWork /\ t \in XgThreads /\ m \in Points
    BY <1>1 DEF PortTypes, XgWork, XgThreads
  <2>2. multi' = [multi EXCEPT ![t][p] = v]
    BY <2>1 DEF MultiSwitches, XgWork, XgThreads
  <2> HIDE DEF m
  <2>3. v = ([pc |-> "on", for |-> m.for, ok |-> m.ok]) /\ v \in Points
    BY <2>1 DEF Points, Steps
  <2> HIDE DEF v
  <2>4. /\ multi' \in XgWork /\ multi'[t][p] = v
        /\ \A s \in XgThreads : \A q \in XgPorts : s # t \/ q # p => multi'[s][q] = multi[s][q]
    BY <2>1, <2>2, <2>3 DEF XgWork
  <2> QED BY <2>3, <2>4 DEF m
<1>2. PortTypes'
  BY <1>1, <1>10, PortAssumption DEF PortTypes, Steps, Lists, XgThreads, MTU_FUDGE_FACTOR,
     Promiscuous, MultiSwitches, asked, receiver, link, hist, xgCount
<1>3. \A q \in XgPorts \ {p} : SamePort(q)
  BY <1>1, <1>10 DEF PortTypes, SamePort, XgThreads, MultiSwitches, asked, receiver, link,
     hist, xgCount
<1>4. Placed(p)' /\ RegsRight(p)' /\ Followed(p)'
  BY <1>1, <1>10 DEF PortTypes, PortOK, Placed, RegsRight, Followed, Live, Busy, XgThreads,
     MultiSwitches, asked, receiver, link, hist, xgCount
<1>5. ASSUME ~crossed'[p]
      PROVE  (OneAtATime(p) /\ ModeRight(p) /\ \A s \in XgThreads : Changing(s, p))'
  <2>1. OneAtATime(p)'
    BY <1>1, <1>5, <1>10 DEF PortTypes, PortOK, Placed, OneAtATime, ModeRight,
       Changing, Past, Busy, Live, Set, XgThreads, Promiscuous, MultiSwitches,
       asked, receiver, link, hist, xgCount
  <2>2. ModeRight(p)'
    BY <1>1, <1>5, <1>10 DEF PortTypes, PortOK, Placed, OneAtATime, ModeRight,
       Changing, Past, Busy, Live, Set, XgThreads, Promiscuous, MultiSwitches,
       asked, receiver, link, hist, xgCount
  <2>3. ASSUME NEW s \in XgThreads PROVE Changing(s, p)'
    BY <2>3, <1>1, <1>5, <1>10 DEF PortTypes, PortOK, Placed, OneAtATime, ModeRight,
       Changing, Past, Busy, Live, Set, XgThreads, Promiscuous, MultiSwitches,
       asked, receiver, link, hist, xgCount
  <2> QED BY <2>1, <2>2, <2>3
<1> QED BY <1>2, <1>3, <1>4, <1>5, PortDone DEF PortOK

LEMMA MultiEnablesStep ==
  ASSUME PortInv, NEW p \in XgPorts, NEW t \in XgThreads, MultiEnables(t, p)
  PROVE  PortInv'
<1>1. PortTypes /\ PortOK(p)
  BY DEF PortInv
<1>10. /\ multi' \in XgWork /\ multi'[t][p] = ([pc |-> "filter", for |-> multi[t][p].for, ok |-> multi[t][p].ok])
       /\ \A s \in XgThreads : \A q \in XgPorts : s # t \/ q # p => multi'[s][q] = multi[s][q]
  <2> DEFINE m == multi[t][p]
             v == [m EXCEPT !.pc = "filter"]
  <2>1. multi \in XgWork /\ t \in XgThreads /\ m \in Points
    BY <1>1 DEF PortTypes, XgWork, XgThreads
  <2>2. multi' = [multi EXCEPT ![t][p] = v]
    BY <2>1 DEF MultiEnables, XgWork, XgThreads
  <2> HIDE DEF m
  <2>3. v = ([pc |-> "filter", for |-> m.for, ok |-> m.ok]) /\ v \in Points
    BY <2>1 DEF Points, Steps
  <2> HIDE DEF v
  <2>4. /\ multi' \in XgWork /\ multi'[t][p] = v
        /\ \A s \in XgThreads : \A q \in XgPorts : s # t \/ q # p => multi'[s][q] = multi[s][q]
    BY <2>1, <2>2, <2>3 DEF XgWork
  <2> QED BY <2>3, <2>4 DEF m
<1>2. PortTypes'
  BY <1>1, <1>10, PortAssumption DEF PortTypes, Steps, Lists, XgThreads, MTU_FUDGE_FACTOR,
     Promiscuous, MultiEnables, RxAgain, asked, receiver, link, hist, xgCount
<1>3. \A q \in XgPorts \ {p} : SamePort(q)
  BY <1>1, <1>10 DEF PortTypes, SamePort, XgThreads, MultiEnables, RxAgain, asked, receiver,
     link, hist, xgCount
<1>4. Placed(p)' /\ RegsRight(p)' /\ Followed(p)'
  BY <1>1, <1>10 DEF PortTypes, PortOK, Placed, RegsRight, Followed, Live, Busy, XgThreads,
     MultiEnables, RxAgain, asked, receiver, link, hist, xgCount
<1>5. ASSUME ~crossed'[p]
      PROVE  (OneAtATime(p) /\ ModeRight(p) /\ \A s \in XgThreads : Changing(s, p))'
  <2>1. OneAtATime(p)'
    BY <1>1, <1>5, <1>10 DEF PortTypes, PortOK, Placed, OneAtATime, ModeRight,
       Changing, Past, Busy, Live, Set, XgThreads, Promiscuous, MultiEnables, RxAgain,
       asked, receiver, link, hist, xgCount
  <2>2. ModeRight(p)'
    BY <1>1, <1>5, <1>10 DEF PortTypes, PortOK, Placed, OneAtATime, ModeRight,
       Changing, Past, Busy, Live, Set, XgThreads, Promiscuous, MultiEnables, RxAgain,
       asked, receiver, link, hist, xgCount
  <2>3. ASSUME NEW s \in XgThreads PROVE Changing(s, p)'
    BY <2>3, <1>1, <1>5, <1>10 DEF PortTypes, PortOK, Placed, OneAtATime, ModeRight,
       Changing, Past, Busy, Live, Set, XgThreads, Promiscuous, MultiEnables, RxAgain,
       asked, receiver, link, hist, xgCount
  <2> QED BY <2>1, <2>2, <2>3
<1> QED BY <1>2, <1>3, <1>4, <1>5, PortDone DEF PortOK

LEMMA MultiFiltersStep ==
  ASSUME PortInv, NEW p \in XgPorts, NEW t \in XgThreads, MultiFilters(t, p)
  PROVE  PortInv'
<1>1. PortTypes /\ PortOK(p)
  BY DEF PortInv
<1>2. PortTypes'
  BY <1>1, PortAssumption DEF PortTypes, XgWork, Points, Steps, Lists, XgThreads,
     MTU_FUDGE_FACTOR, Promiscuous, MultiFilters, MultiIdle, asked, receiver, link, hist,
     xgCount
<1>3. \A q \in XgPorts \ {p} : SamePort(q)
  BY <1>1 DEF PortTypes, SamePort, XgThreads, XgWork, Points, MultiFilters, MultiIdle, asked,
     receiver, link, hist, xgCount
<1>4. Placed(p)' /\ RegsRight(p)' /\ Followed(p)'
  BY <1>1 DEF PortTypes, PortOK, Placed, RegsRight, Followed, Live, Busy, XgThreads, XgWork,
     Points, MultiFilters, MultiIdle, asked, receiver, link, hist, xgCount
<1>5. ASSUME ~crossed'[p] PROVE (OneAtATime(p) /\ ModeRight(p) /\ \A s \in XgThreads : Changing(s, p))'
  BY <1>1, <1>5 DEF PortTypes, XgWork, Points, PortOK, Placed, OneAtATime, ModeRight,
     Changing, Past, Busy, Live, Set, XgThreads,
     Promiscuous, MultiFilters, MultiIdle, asked, receiver, link, hist, xgCount
<1> QED BY <1>2, <1>3, <1>4, <1>5, PortDone DEF PortOK

LEMMA ListChangesStep ==
  ASSUME PortInv, NEW p \in XgPorts, ListChanges(p)
  PROVE  PortInv'
<1>1. PortTypes /\ PortOK(p)
  BY DEF PortInv
<1>10. /\ multi' \in XgWork /\ multi'["stack"][p] = (IF listed[p] /\ ~Absent(p)
                                                 THEN [pc |-> "begin", for |-> multi["stack"][p].for, ok |-> multi["stack"][p].ok]
                                                 ELSE multi["stack"][p])
       /\ \A s \in XgThreads : \A q \in XgPorts : s # "stack" \/ q # p => multi'[s][q] = multi[s][q]
  <2> DEFINE m == multi["stack"][p]
             v == IF listed[p] /\ ~Absent(p) THEN [m EXCEPT !.pc = "begin"] ELSE m
  <2>1. multi \in XgWork /\ "stack" \in XgThreads /\ m \in Points
    BY <1>1 DEF PortTypes, XgWork, XgThreads
  <2>2. multi' = [multi EXCEPT !["stack"][p] = v]
    BY <2>1 DEF ListChanges, XgWork, XgThreads, Absent
  <2> HIDE DEF m
  <2>3. v = (IF listed[p] /\ ~Absent(p) THEN [pc |-> "begin", for |-> m.for, ok |-> m.ok] ELSE m) /\ v \in Points
    BY <2>1 DEF Points, Steps
  <2> HIDE DEF v
  <2>4. /\ multi' \in XgWork /\ multi'["stack"][p] = v
        /\ \A s \in XgThreads : \A q \in XgPorts : s # "stack" \/ q # p => multi'[s][q] = multi[s][q]
    BY <2>1, <2>2, <2>3 DEF XgWork
  <2> QED BY <2>3, <2>4 DEF m
<1>11. /\ want' \in [XgPorts -> Lists] /\ \A q \in XgPorts \ {p} : want'[q] = want[q]
       /\ missed' \in [XgPorts -> BOOLEAN] /\ \A q \in XgPorts \ {p} : missed'[q] = missed[q]
       /\ missed'[p] = (IF listed[p] /\ ~Absent(p) THEN missed[p] ELSE listed[p])
       /\ multi["stack"][p].pc = "idle"
  <2>1. PICK v \in Lists : want' = [want EXCEPT ![p] = v]
    BY DEF ListChanges, Lists
  <2>2. missed' = IF listed[p] /\ ~Absent(p) THEN missed ELSE [missed EXCEPT ![p] = listed[p]]
    BY DEF ListChanges, Absent
  <2> QED BY <1>1, <2>1, <2>2 DEF PortTypes, ListChanges, Busy
<1>12. UNCHANGED <<addr, mtuOf, started, listed, xctl, receiver, link, crossed, undrained>>
  BY DEF ListChanges
<1>2. PortTypes'
  BY <1>1, <1>10, <1>11, <1>12, PortAssumption DEF PortTypes, Steps, Lists, XgThreads,
     MTU_FUDGE_FACTOR, Promiscuous, Absent, Busy, asked, receiver, link, hist, xgCount
<1>3. \A q \in XgPorts \ {p} : SamePort(q)
  BY <1>1, <1>10, <1>11, <1>12 DEF PortTypes, SamePort, XgThreads, Absent, Busy, asked,
     receiver, link, hist, xgCount
<1>4. Placed(p)' /\ RegsRight(p)' /\ Followed(p)'
  BY <1>1, <1>10, <1>11, <1>12 DEF PortTypes, PortOK, Placed, RegsRight, Followed, Live, Busy,
     XgThreads, Absent, Busy, asked, receiver, link, hist, xgCount
<1>5. ASSUME ~crossed'[p] PROVE (OneAtATime(p) /\ ModeRight(p) /\ \A s \in XgThreads : Changing(s, p))'
  <2>1. OneAtATime(p)'
    BY <1>1, <1>5, <1>10, <1>11, <1>12 DEF PortTypes, PortOK, Placed, Past, Live, Set,
       XgThreads, OneAtATime, Absent, Busy, asked, receiver, link, hist, xgCount
  <2>2. ModeRight(p)'
    BY <1>1, <1>5, <1>10, <1>11, <1>12 DEF PortTypes, PortOK, Placed, Past, Live, Set,
       XgThreads,
       OneAtATime, ModeRight, Promiscuous, Changing, Absent, Busy, asked, receiver, link, hist, xgCount
  <2>3. \A s \in XgThreads : Changing(s, p)'
    BY <1>1, <1>5, <1>10, <1>11, <1>12 DEF PortTypes, PortOK, Placed, Past, Live, Set,
       XgThreads,
       OneAtATime, ModeRight, Promiscuous, Changing, Absent, Busy, asked, receiver, link, hist, xgCount
  <2> QED BY <2>1, <2>2, <2>3
<1> QED BY <1>2, <1>3, <1>4, <1>5, PortDone DEF PortOK

LEMMA MacChangesStep ==
  ASSUME PortInv, NEW p \in XgPorts, MacChanges(p)
  PROVE  PortInv'
<1>1. PortTypes /\ PortOK(p)
  BY DEF PortInv
<1>2. PortTypes'
  BY <1>1, PortAssumption DEF PortTypes, XgWork, Points, Steps, Lists, XgThreads,
     MTU_FUDGE_FACTOR, Promiscuous, MacChanges, XgCall, XgAlone, XgGo, asked, receiver, link,
     hist, xgCount
<1>3. \A q \in XgPorts \ {p} : SamePort(q)
  BY <1>1 DEF PortTypes, SamePort, XgThreads, XgWork, Points, MacChanges, XgCall, XgAlone,
     XgGo, asked, receiver, link, hist, xgCount
<1>4. Placed(p)' /\ RegsRight(p)' /\ Followed(p)'
  BY <1>1 DEF PortTypes, PortOK, Placed, RegsRight, Followed, Live, Busy, XgThreads, XgWork,
     Points, MacChanges, XgCall, XgAlone, XgGo, asked, receiver, link, hist, xgCount
<1>5. ASSUME ~crossed'[p] PROVE (OneAtATime(p) /\ ModeRight(p) /\ \A s \in XgThreads : Changing(s, p))'
  BY <1>1, <1>5 DEF PortTypes, XgWork, Points, PortOK, Placed, OneAtATime, ModeRight,
     Changing, Past, Busy, Live, Set, XgThreads,
     Promiscuous, MacChanges, XgCall, XgAlone, XgGo, asked, receiver, link, hist, xgCount
<1> QED BY <1>2, <1>3, <1>4, <1>5, PortDone DEF PortOK

LEMMA MacSetStep ==
  ASSUME PortInv, NEW p \in XgPorts, MacSet(p)
  PROVE  PortInv'
<1>1. PortTypes /\ PortOK(p)
  BY DEF PortInv
<1>2. PortTypes'
  BY <1>1, PortAssumption DEF PortTypes, XgWork, Points, Steps, Lists, XgThreads,
     MTU_FUDGE_FACTOR, Promiscuous, MacSet, XgGo, asked, receiver, link, hist, xgCount
<1>3. \A q \in XgPorts \ {p} : SamePort(q)
  BY <1>1 DEF PortTypes, SamePort, XgThreads, XgWork, Points, MacSet, XgGo, asked, receiver,
     link, hist, xgCount
<1>4. Placed(p)' /\ RegsRight(p)' /\ Followed(p)'
  BY <1>1 DEF PortTypes, PortOK, Placed, RegsRight, Followed, Live, Busy, XgThreads, XgWork,
     Points, MacSet, XgGo, asked, receiver, link, hist, xgCount
<1>5. ASSUME ~crossed'[p] PROVE (OneAtATime(p) /\ ModeRight(p) /\ \A s \in XgThreads : Changing(s, p))'
  BY <1>1, <1>5 DEF PortTypes, XgWork, Points, PortOK, Placed, OneAtATime, ModeRight,
     Changing, Past, Busy, Live, Set, XgThreads,
     Promiscuous, MacSet, XgGo, asked, receiver, link, hist, xgCount
<1> QED BY <1>2, <1>3, <1>4, <1>5, PortDone DEF PortOK

LEMMA MtuChangesStep ==
  ASSUME PortInv, NEW p \in XgPorts, MtuChanges(p)
  PROVE  PortInv'
<1>1. PortTypes /\ PortOK(p)
  BY DEF PortInv
<1>11. PICK m \in XgMtus : mtuOf' = [mtuOf EXCEPT ![p] = m]
                           /\ regs' = [regs EXCEPT ![p].frame = m + MTU_FUDGE_FACTOR]
  BY DEF MtuChanges
<1>12. regs' \in [XgPorts -> [mac : Addrs, frame : Nat]]
  <2>1. m + MTU_FUDGE_FACTOR \in Nat
    BY PortAssumption DEF MTU_FUDGE_FACTOR
  <2> QED BY <1>1, <1>11, <2>1, FramePut DEF PortTypes
<1>2. PortTypes'
  BY <1>1, <1>11, <1>12, PortAssumption DEF PortTypes, XgWork, Points, Steps, Lists,
     XgThreads, MTU_FUDGE_FACTOR, Promiscuous, MtuChanges, XgCall, XgAlone, asked, receiver,
     link, hist, xgCount
<1>3. \A q \in XgPorts \ {p} : SamePort(q)
  BY <1>1, <1>11, <1>12 DEF PortTypes, SamePort, XgThreads, XgWork, Points, MtuChanges,
     XgCall, XgAlone, asked, receiver, link, hist, xgCount
<1>4. Placed(p)' /\ RegsRight(p)' /\ Followed(p)'
  BY <1>1, <1>11, <1>12 DEF PortTypes, PortOK, Placed, RegsRight, Followed, Live, Busy,
     XgThreads, XgWork, Points, MtuChanges, XgCall, XgAlone, asked, receiver, link, hist,
     xgCount
<1>5. ASSUME ~crossed'[p] PROVE (OneAtATime(p) /\ ModeRight(p) /\ \A s \in XgThreads : Changing(s, p))'
  BY <1>1, <1>5, <1>11, <1>12 DEF PortTypes, XgWork, Points, PortOK, Placed, OneAtATime,
     ModeRight, Changing, Past, Busy, Live, Set, XgThreads,
     Promiscuous, MtuChanges, XgCall, XgAlone, asked, receiver, link, hist, xgCount
<1> QED BY <1>2, <1>3, <1>4, <1>5, PortDone DEF PortOK

LEMMA PortOpensStep ==
  ASSUME PortInv, NEW p \in XgPorts, PortOpens(p)
  PROVE  PortInv'
<1>1. PortTypes /\ PortOK(p)
  BY DEF PortInv
<1>2. PortTypes'
  BY <1>1, PortAssumption DEF PortTypes, XgWork, Points, Steps, Lists, XgThreads,
     MTU_FUDGE_FACTOR, Promiscuous, PortOpens, XgCall, XgAlone, XgGo, asked, receiver, link,
     hist, xgCount
<1>3. \A q \in XgPorts \ {p} : SamePort(q)
  BY <1>1 DEF PortTypes, SamePort, XgThreads, XgWork, Points, PortOpens, XgCall, XgAlone,
     XgGo, asked, receiver, link, hist, xgCount
<1>4. Placed(p)' /\ RegsRight(p)' /\ Followed(p)'
  BY <1>1 DEF PortTypes, PortOK, Placed, RegsRight, Followed, Live, Busy, XgThreads, XgWork,
     Points, PortOpens, XgCall, XgAlone, XgGo, asked, receiver, link, hist, xgCount
<1>5. ASSUME ~crossed'[p] PROVE (OneAtATime(p) /\ ModeRight(p) /\ \A s \in XgThreads : Changing(s, p))'
  BY <1>1, <1>5 DEF PortTypes, XgWork, Points, PortOK, Placed, OneAtATime, ModeRight,
     Changing, Past, Busy, Live, Set, XgThreads,
     Promiscuous, PortOpens, XgCall, XgAlone, XgGo, asked, receiver, link, hist, xgCount
<1> QED BY <1>2, <1>3, <1>4, <1>5, PortDone DEF PortOK

LEMMA InitPortStep ==
  ASSUME PortInv, NEW p \in XgPorts, InitPort(p)
  PROVE  PortInv'
<1>1. PortTypes /\ PortOK(p)
  BY DEF PortInv
<1>10. /\ multi' \in XgWork /\ multi'["attach"][p] = ([pc |-> "begin", for |-> multi["attach"][p].for, ok |-> multi["attach"][p].ok])
       /\ \A s \in XgThreads : \A q \in XgPorts : s # "attach" \/ q # p => multi'[s][q] = multi[s][q]
  <2> DEFINE m == multi["attach"][p]
             v == [m EXCEPT !.pc = "begin"]
  <2>1. multi \in XgWork /\ "attach" \in XgThreads /\ m \in Points
    BY <1>1 DEF PortTypes, XgWork, XgThreads
  <2>2. multi' = [multi EXCEPT !["attach"][p] = v]
    BY <2>1 DEF InitPort, XgWork, XgThreads
  <2> HIDE DEF m
  <2>3. v = ([pc |-> "begin", for |-> m.for, ok |-> m.ok]) /\ v \in Points
    BY <2>1 DEF Points, Steps
  <2> HIDE DEF v
  <2>4. /\ multi' \in XgWork /\ multi'["attach"][p] = v
        /\ \A s \in XgThreads : \A q \in XgPorts : s # "attach" \/ q # p => multi'[s][q] = multi[s][q]
    BY <2>1, <2>2, <2>3 DEF XgWork
  <2> QED BY <2>3, <2>4 DEF m
<1>11. /\ xctl[p] = "init" /\ xctl'[p] = "multi" /\ promisc'[p] = promisc[p]
       /\ rxOn'[p] = TRUE /\ promBit'[p] = FALSE /\ listed'[p] = listed[p] /\ want'[p] = want[p]
       /\ missed'[p] = missed[p] /\ undrained'[p] = undrained[p]
       /\ crossed'[p] = (crossed[p] \/ multi["stack"][p].pc # "idle")
  BY <1>1 DEF PortTypes, InitPort, XgGo, Busy, asked, hist
<1>2. PortTypes'
  BY ZenonT(60), <1>1, <1>10, <1>11, PortAssumption DEF PortTypes, Steps, Lists, XgThreads,
     MTU_FUDGE_FACTOR, Promiscuous, InitPort, XgGo, Busy, asked, receiver, link, hist, xgCount
<1>3. \A q \in XgPorts \ {p} : SamePort(q)
  BY <1>1, <1>10, <1>11 DEF PortTypes, SamePort, XgThreads, InitPort, XgGo, Busy, asked,
     receiver, link, hist, xgCount
<1>4. Placed(p)' /\ RegsRight(p)' /\ Followed(p)'
  BY <1>1, <1>10, <1>11 DEF PortTypes, PortOK, Placed, RegsRight, Followed, Live, Busy,
     XgThreads, InitPort, XgGo, Busy, asked, receiver, link, hist, xgCount
<1>5. ASSUME ~crossed'[p] PROVE (OneAtATime(p) /\ ModeRight(p) /\ \A s \in XgThreads : Changing(s, p))'
  <2>1. OneAtATime(p)'
    BY <1>1, <1>5, <1>10, <1>11 DEF PortTypes, PortOK, Placed, Past, Busy, Live, Set,
       XgThreads, OneAtATime, Busy
  <2>2. ModeRight(p)'
    <3>1. promisc'[p] = FALSE /\ ~(xctl'[p] \in {"idle", "mac"})
      BY <1>1, <1>5, <1>11 DEF PortTypes, PortOK, ModeRight, Live, Set
    <3>2. "attach" \in XgThreads /\ Busy("attach", p)'
      BY <1>10 DEF XgThreads, Busy
    <3> QED BY <1>11, <3>1, <3>2 DEF ModeRight, Live, Set
  <2>3. \A s \in XgThreads : Changing(s, p)'
    BY <1>1, <1>5, <1>10, <1>11 DEF PortTypes, PortOK, Placed, Past, Busy, Live, Set, XgThreads,
       OneAtATime, ModeRight, Promiscuous, Changing, Busy
  <2> QED BY <2>1, <2>2, <2>3
<1> QED BY <1>2, <1>3, <1>4, <1>5, PortDone DEF PortOK

LEMMA AttachEndsStep ==
  ASSUME PortInv, NEW p \in XgPorts, AttachEnds(p)
  PROVE  PortInv'
<1>1. PortTypes /\ PortOK(p)
  BY DEF PortInv
<1>10. /\ multi' \in XgWork /\ multi'["stack"][p] = (IF ~listed[p]
                                                 THEN [pc |-> "begin", for |-> multi["stack"][p].for, ok |-> multi["stack"][p].ok]
                                                 ELSE multi["stack"][p])
       /\ \A s \in XgThreads : \A q \in XgPorts : s # "stack" \/ q # p => multi'[s][q] = multi[s][q]
  <2> DEFINE m == multi["stack"][p]
             v == IF ~listed[p] THEN [m EXCEPT !.pc = "begin"] ELSE m
  <2>1. multi \in XgWork /\ "stack" \in XgThreads /\ m \in Points
    BY <1>1 DEF PortTypes, XgWork, XgThreads
  <2>2. multi' = [multi EXCEPT !["stack"][p] = v]
    BY <2>1 DEF AttachEnds, XgWork, XgThreads
  <2> HIDE DEF m
  <2>3. v = (IF ~listed[p] THEN [pc |-> "begin", for |-> m.for, ok |-> m.ok] ELSE m) /\ v \in Points
    BY <2>1 DEF Points, Steps
  <2> HIDE DEF v
  <2>4. /\ multi' \in XgWork /\ multi'["stack"][p] = v
        /\ \A s \in XgThreads : \A q \in XgPorts : s # "stack" \/ q # p => multi'[s][q] = multi[s][q]
    BY <2>1, <2>2, <2>3 DEF XgWork
  <2> QED BY <2>3, <2>4 DEF m
<1>12. regs' \in [XgPorts -> [mac : Addrs, frame : Nat]]
  <2>1. mtuOf[p] \in Nat
    BY <1>1, PortAssumption DEF PortTypes
  <2>2. mtuOf[p] + MTU_FUDGE_FACTOR \in Nat
    BY <2>1 DEF MTU_FUDGE_FACTOR
  <2> QED BY <1>1, <2>2, FramePut DEF PortTypes, AttachEnds
<1>2. PortTypes'
  BY <1>1, <1>10, <1>12, PortAssumption DEF PortTypes, Steps, Lists, XgThreads,
     MTU_FUDGE_FACTOR, Promiscuous, AttachEnds, XgGo, Busy, asked, receiver, link, hist, xgCount
<1>3. \A q \in XgPorts \ {p} : SamePort(q)
  BY <1>1, <1>10, <1>12 DEF PortTypes, SamePort, XgThreads, AttachEnds, XgGo, Busy, asked,
     receiver, link, hist, xgCount
<1>4. Placed(p)' /\ RegsRight(p)' /\ Followed(p)'
  BY <1>1, <1>10, <1>12 DEF PortTypes, PortOK, Placed, RegsRight, Followed, Live, Busy,
     XgThreads, AttachEnds, XgGo, Busy, asked, receiver, link, hist, xgCount
<1>5. ASSUME ~crossed'[p] PROVE (OneAtATime(p) /\ ModeRight(p) /\ \A s \in XgThreads : Changing(s, p))'
  BY <1>1, <1>5, <1>10, <1>12 DEF PortTypes, PortOK, Placed, OneAtATime, ModeRight, Changing,
     Past, Live, Set, XgThreads,
     Promiscuous, AttachEnds, XgGo, Busy, asked, receiver, link, hist, xgCount
<1> QED BY <1>2, <1>3, <1>4, <1>5, PortDone DEF PortOK

LEMMA PortClosesStep ==
  ASSUME PortInv, NEW p \in XgPorts, PortCloses(p)
  PROVE  PortInv'
<1>1. PortTypes /\ PortOK(p)
  BY DEF PortInv
<1>2. PortTypes'
  BY <1>1, PortAssumption DEF PortTypes, XgWork, Points, Steps, Lists, XgThreads,
     MTU_FUDGE_FACTOR, Promiscuous, PortCloses, XgCall, XgAlone, XgGo, asked, receiver, link,
     hist, xgCount
<1>3. \A q \in XgPorts \ {p} : SamePort(q)
  BY <1>1 DEF PortTypes, SamePort, XgThreads, XgWork, Points, PortCloses, XgCall, XgAlone,
     XgGo, asked, receiver, link, hist, xgCount
<1>4. Placed(p)' /\ RegsRight(p)' /\ Followed(p)'
  BY ZenonT(60), <1>1 DEF PortTypes, PortOK, Placed, RegsRight, Followed, Live, Busy,
     XgThreads, XgWork, Points, PortCloses, XgCall, XgAlone, XgGo, asked, receiver, link,
     hist, xgCount
<1>5. ASSUME ~crossed'[p] PROVE (OneAtATime(p) /\ ModeRight(p) /\ \A s \in XgThreads : Changing(s, p))'
  BY <1>1, <1>5 DEF PortTypes, XgWork, Points, PortOK, Placed, OneAtATime, ModeRight,
     Changing, Past, Busy, Live, Set, XgThreads,
     Promiscuous, PortCloses, XgCall, XgAlone, XgGo, asked, receiver, link, hist, xgCount
<1> QED BY <1>2, <1>3, <1>4, <1>5, PortDone DEF PortOK

LEMMA PortResetsStep ==
  ASSUME PortInv, NEW p \in XgPorts, PortResets(p)
  PROVE  PortInv'
<1>1. PortTypes /\ PortOK(p)
  BY DEF PortInv
<1>2. PortTypes'
  BY <1>1, PortAssumption DEF PortTypes, XgWork, Points, Steps, Lists, XgThreads,
     MTU_FUDGE_FACTOR, Promiscuous, PortResets, XgAlone, XgGo, asked, receiver, link, hist,
     xgCount
<1>3. \A q \in XgPorts \ {p} : SamePort(q)
  BY <1>1 DEF PortTypes, SamePort, XgThreads, XgWork, Points, PortResets, XgAlone, XgGo,
     asked, receiver, link, hist, xgCount
<1>4. Placed(p)' /\ RegsRight(p)' /\ Followed(p)'
  BY ZenonT(60), <1>1 DEF PortTypes, PortOK, Placed, RegsRight, Followed, Live, Busy,
     XgThreads, XgWork, Points, PortResets, XgAlone, XgGo, asked, receiver, link, hist, xgCount
<1>5. ASSUME ~crossed'[p] PROVE (OneAtATime(p) /\ ModeRight(p) /\ \A s \in XgThreads : Changing(s, p))'
  BY <1>1, <1>5 DEF PortTypes, XgWork, Points, PortOK, Placed, OneAtATime, ModeRight,
     Changing, Past, Busy, Live, Set, XgThreads,
     Promiscuous, PortResets, XgAlone, XgGo, asked, receiver, link, hist, xgCount
<1> QED BY <1>2, <1>3, <1>4, <1>5, PortDone DEF PortOK

LEMMA StopPortStep ==
  ASSUME PortInv, NEW p \in XgPorts, StopPort(p)
  PROVE  PortInv'
<1>1. PortTypes /\ PortOK(p)
  BY DEF PortInv
<1>2. PortTypes'
  BY <1>1, PortAssumption DEF PortTypes, XgWork, Points, Steps, Lists, XgThreads,
     MTU_FUDGE_FACTOR, Promiscuous, StopPort, XgGo, Busy, asked, receiver, link, hist, xgCount
<1>3. \A q \in XgPorts \ {p} : SamePort(q)
  BY <1>1 DEF PortTypes, SamePort, XgThreads, XgWork, Points, StopPort, XgGo, Busy, asked,
     receiver, link, hist, xgCount
<1>4. Placed(p)' /\ RegsRight(p)' /\ Followed(p)'
  BY <1>1 DEF PortTypes, PortOK, Placed, RegsRight, Followed, Live, Busy, XgThreads, XgWork,
     Points, StopPort, XgGo, Busy, asked, receiver, link, hist, xgCount
<1>5. ASSUME ~crossed'[p] PROVE (OneAtATime(p) /\ ModeRight(p) /\ \A s \in XgThreads : Changing(s, p))'
  BY <1>1, <1>5 DEF PortTypes, XgWork, Points, PortOK, Placed, OneAtATime, ModeRight,
     Changing, Past, Live, Set, XgThreads,
     Promiscuous, StopPort, XgGo, Busy, asked, receiver, link, hist, xgCount
<1> QED BY <1>2, <1>3, <1>4, <1>5, PortDone DEF PortOK

LEMMA FlushWorkStep ==
  ASSUME PortInv, NEW p \in XgPorts, FlushWork(p)
  PROVE  PortInv'
<1>1. PortTypes /\ PortOK(p)
  BY DEF PortInv
<1>2. PortTypes'
  BY <1>1, PortAssumption DEF PortTypes, XgWork, Points, Steps, Lists, XgThreads,
     MTU_FUDGE_FACTOR, Promiscuous, FlushWork, XgGo, asked, receiver, link, hist, xgCount
<1>3. \A q \in XgPorts \ {p} : SamePort(q)
  BY <1>1 DEF PortTypes, SamePort, XgThreads, XgWork, Points, FlushWork, XgGo, asked,
     receiver, link, hist, xgCount
<1>4. Placed(p)' /\ RegsRight(p)' /\ Followed(p)'
  BY <1>1 DEF PortTypes, PortOK, Placed, RegsRight, Followed, Live, Busy, XgThreads, XgWork,
     Points, FlushWork, XgGo, asked, receiver, link, hist, xgCount
<1>5. ASSUME ~crossed'[p] PROVE (OneAtATime(p) /\ ModeRight(p) /\ \A s \in XgThreads : Changing(s, p))'
  BY <1>1, <1>5 DEF PortTypes, XgWork, Points, PortOK, Placed, OneAtATime, ModeRight,
     Changing, Past, Busy, Live, Set, XgThreads,
     Promiscuous, FlushWork, XgGo, asked, receiver, link, hist, xgCount
<1> QED BY <1>2, <1>3, <1>4, <1>5, PortDone DEF PortOK

LEMMA DelTimerStep ==
  ASSUME PortInv, NEW p \in XgPorts, DelTimer(p)
  PROVE  PortInv'
<1>1. PortTypes /\ PortOK(p)
  BY DEF PortInv
<1>2. PortTypes'
  BY <1>1, PortAssumption DEF PortTypes, XgWork, Points, Steps, Lists, XgThreads,
     MTU_FUDGE_FACTOR, Promiscuous, DelTimer, XgGo, asked, receiver, link, hist, xgCount
<1>3. \A q \in XgPorts \ {p} : SamePort(q)
  BY <1>1 DEF PortTypes, SamePort, XgThreads, XgWork, Points, DelTimer, XgGo, asked, receiver,
     link, hist, xgCount
<1>4. Placed(p)' /\ RegsRight(p)' /\ Followed(p)'
  BY <1>1 DEF PortTypes, PortOK, Placed, RegsRight, Followed, Live, Busy, XgThreads, XgWork,
     Points, DelTimer, XgGo, asked, receiver, link, hist, xgCount
<1>5. ASSUME ~crossed'[p] PROVE (OneAtATime(p) /\ ModeRight(p) /\ \A s \in XgThreads : Changing(s, p))'
  BY <1>1, <1>5 DEF PortTypes, XgWork, Points, PortOK, Placed, OneAtATime, ModeRight,
     Changing, Past, Busy, Live, Set, XgThreads,
     Promiscuous, DelTimer, XgGo, asked, receiver, link, hist, xgCount
<1> QED BY <1>2, <1>3, <1>4, <1>5, PortDone DEF PortOK

LEMMA TimerFiresStep ==
  ASSUME PortInv, NEW p \in XgPorts, TimerFires(p)
  PROVE  PortInv'
<1>1. PortTypes /\ PortOK(p)
  BY DEF PortInv
<1>2. PortTypes'
  BY <1>1, PortAssumption DEF PortTypes, XgWork, Points, Steps, Lists, XgThreads,
     MTU_FUDGE_FACTOR, Promiscuous, TimerFires, asked, receiver, link, hist, xgCount
<1>3. \A q \in XgPorts \ {p} : SamePort(q)
  BY <1>1 DEF PortTypes, SamePort, XgThreads, XgWork, Points, TimerFires, asked, receiver,
     link, hist, xgCount
<1>4. Placed(p)' /\ RegsRight(p)' /\ Followed(p)'
  BY <1>1 DEF PortTypes, PortOK, Placed, RegsRight, Followed, Live, Busy, XgThreads, XgWork,
     Points, TimerFires, asked, receiver, link, hist, xgCount
<1>5. ASSUME ~crossed'[p] PROVE (OneAtATime(p) /\ ModeRight(p) /\ \A s \in XgThreads : Changing(s, p))'
  BY <1>1, <1>5 DEF PortTypes, XgWork, Points, PortOK, Placed, OneAtATime, ModeRight,
     Changing, Past, Busy, Live, Set, XgThreads,
     Promiscuous, TimerFires, asked, receiver, link, hist, xgCount
<1> QED BY <1>2, <1>3, <1>4, <1>5, PortDone DEF PortOK

LEMMA TaskBeginsStep ==
  ASSUME PortInv, NEW p \in XgPorts, TaskBegins(p)
  PROVE  PortInv'
<1>1. PortTypes /\ PortOK(p)
  BY DEF PortInv
<1>2. PortTypes'
  BY <1>1, PortAssumption DEF PortTypes, XgWork, Points, Steps, Lists, XgThreads,
     MTU_FUDGE_FACTOR, Promiscuous, TaskBegins, asked, receiver, link, hist, xgCount
<1>3. \A q \in XgPorts \ {p} : SamePort(q)
  BY <1>1 DEF PortTypes, SamePort, XgThreads, XgWork, Points, TaskBegins, asked, receiver,
     link, hist, xgCount
<1>4. Placed(p)' /\ RegsRight(p)' /\ Followed(p)'
  BY <1>1 DEF PortTypes, PortOK, Placed, RegsRight, Followed, Live, Busy, XgThreads, XgWork,
     Points, TaskBegins, asked, receiver, link, hist, xgCount
<1>5. ASSUME ~crossed'[p] PROVE (OneAtATime(p) /\ ModeRight(p) /\ \A s \in XgThreads : Changing(s, p))'
  BY <1>1, <1>5 DEF PortTypes, XgWork, Points, PortOK, Placed, OneAtATime, ModeRight,
     Changing, Past, Busy, Live, Set, XgThreads,
     Promiscuous, TaskBegins, asked, receiver, link, hist, xgCount
<1> QED BY <1>2, <1>3, <1>4, <1>5, PortDone DEF PortOK

LEMMA HandlePhyIntrStep ==
  ASSUME PortInv, NEW p \in XgPorts, HandlePhyIntr(p)
  PROVE  PortInv'
<1>1. PortTypes /\ PortOK(p)
  BY DEF PortInv
<1>2. PortTypes'
  BY ZenonT(60), <1>1, PortAssumption DEF PortTypes, XgWork, Points, Steps, Lists, XgThreads,
     MTU_FUDGE_FACTOR, Promiscuous, HandlePhyIntr, asked, receiver, link, hist, xgCount
<1>3. \A q \in XgPorts \ {p} : SamePort(q)
  BY <1>1 DEF PortTypes, SamePort, XgThreads, XgWork, Points, HandlePhyIntr, asked, receiver,
     link, hist, xgCount
<1>4. Placed(p)' /\ RegsRight(p)' /\ Followed(p)'
  BY <1>1 DEF PortTypes, PortOK, Placed, RegsRight, Followed, Live, Busy, XgThreads, XgWork,
     Points, HandlePhyIntr, asked, receiver, link, hist, xgCount
<1>5. ASSUME ~crossed'[p] PROVE (OneAtATime(p) /\ ModeRight(p) /\ \A s \in XgThreads : Changing(s, p))'
  BY <1>1, <1>5 DEF PortTypes, XgWork, Points, PortOK, Placed, OneAtATime, ModeRight,
     Changing, Past, Busy, Live, Set, XgThreads,
     Promiscuous, HandlePhyIntr, asked, receiver, link, hist, xgCount
<1> QED BY <1>2, <1>3, <1>4, <1>5, PortDone DEF PortOK

LEMMA TaskArmsStep ==
  ASSUME PortInv, NEW p \in XgPorts, TaskArms(p)
  PROVE  PortInv'
<1>1. PortTypes /\ PortOK(p)
  BY DEF PortInv
<1>2. PortTypes'
  BY <1>1, PortAssumption DEF PortTypes, XgWork, Points, Steps, Lists, XgThreads,
     MTU_FUDGE_FACTOR, Promiscuous, TaskArms, asked, receiver, link, hist, xgCount
<1>3. \A q \in XgPorts \ {p} : SamePort(q)
  BY <1>1 DEF PortTypes, SamePort, XgThreads, XgWork, Points, TaskArms, asked, receiver, link,
     hist, xgCount
<1>4. Placed(p)' /\ RegsRight(p)' /\ Followed(p)'
  BY <1>1 DEF PortTypes, PortOK, Placed, RegsRight, Followed, Live, Busy, XgThreads, XgWork,
     Points, TaskArms, asked, receiver, link, hist, xgCount
<1>5. ASSUME ~crossed'[p] PROVE (OneAtATime(p) /\ ModeRight(p) /\ \A s \in XgThreads : Changing(s, p))'
  BY <1>1, <1>5 DEF PortTypes, XgWork, Points, PortOK, Placed, OneAtATime, ModeRight,
     Changing, Past, Busy, Live, Set, XgThreads,
     Promiscuous, TaskArms, asked, receiver, link, hist, xgCount
<1> QED BY <1>2, <1>3, <1>4, <1>5, PortDone DEF PortOK

LEMMA CableChangesStep ==
  ASSUME PortInv, NEW p \in XgPorts, CableChanges(p)
  PROVE  PortInv'
<1>1. PortTypes /\ PortOK(p)
  BY DEF PortInv
<1>2. PortTypes'
  BY <1>1, PortAssumption DEF PortTypes, XgWork, Points, Steps, Lists, XgThreads,
     MTU_FUDGE_FACTOR, Promiscuous, CableChanges, XgCall, asked, receiver, link, hist, xgCount
<1>3. \A q \in XgPorts \ {p} : SamePort(q)
  BY <1>1 DEF PortTypes, SamePort, XgThreads, XgWork, Points, CableChanges, XgCall, asked,
     receiver, link, hist, xgCount
<1>4. Placed(p)' /\ RegsRight(p)' /\ Followed(p)'
  BY <1>1 DEF PortTypes, PortOK, Placed, RegsRight, Followed, Live, Busy, XgThreads, XgWork,
     Points, CableChanges, XgCall, asked, receiver, link, hist, xgCount
<1>5. ASSUME ~crossed'[p] PROVE (OneAtATime(p) /\ ModeRight(p) /\ \A s \in XgThreads : Changing(s, p))'
  BY <1>1, <1>5 DEF PortTypes, XgWork, Points, PortOK, Placed, OneAtATime, ModeRight,
     Changing, Past, Busy, Live, Set, XgThreads,
     Promiscuous, CableChanges, XgCall, asked, receiver, link, hist, xgCount
<1> QED BY <1>2, <1>3, <1>4, <1>5, PortDone DEF PortOK

\* What PortRight says - an open port at rest has its address and its MTU, receives, in the

\* mode its list asks for, and is followed by the watchdog - holds for every set of
\* ports, addresses and MTUs, any number of calls, and however opens, closes, resets,
\* changes of the list and the link of all the ports interleave (nx_nic_p2_set_multi,
\* unm_nic_attach, unm_nic_down, nx_nic_p2_stop_port, unm_watchdog_task).
THEOREM PortsRight == PortSpec => []PortRight
<1>1. PortInv => PortRight
  <2> SUFFICES ASSUME PortInv, NEW p \in XgPorts, AtRest(p)
               PROVE  /\ regs[p] = [mac |-> addr[p], frame |-> mtuOf[p] + MTU_FUDGE_FACTOR]
                      /\ ~crossed[p] => /\ rxOn[p] /\ promisc[p] = promBit[p]
                                        /\ undrained[p] \/ missed[p] \/ promBit[p] = Promiscuous(want[p])
                      /\ timer[p] \/ work[p] # "idle"
                      /\ carrier[p] = linkup[p] \/ late[p]
    BY DEF PortRight
  <2>1. PortTypes /\ PortOK(p) /\ listed[p] /\ xctl[p] = "idle" /\ \A t \in XgThreads : multi[t][p].pc = "idle"
    BY DEF PortInv, AtRest, Busy
  <2>2. regs[p] = [mac |-> addr[p], frame |-> mtuOf[p] + MTU_FUDGE_FACTOR]
    BY <2>1 DEF PortTypes, PortOK, RegsRight, Live
  <2>3. (timer[p] \/ work[p] # "idle") /\ (carrier[p] = linkup[p] \/ late[p])
    BY <2>1 DEF PortTypes, PortOK, Followed, Live
  <2>4. ~crossed[p] => /\ rxOn[p] /\ promisc[p] = promBit[p]
                       /\ undrained[p] \/ missed[p] \/ promBit[p] = Promiscuous(want[p])
    BY <2>1 DEF PortOK, ModeRight, Live, Set, Busy
  <2> QED BY <2>2, <2>3, <2>4
<1>2. ASSUME PortInv, [PortNext]_portVars PROVE PortInv'
  <2>1. CASE UNCHANGED portVars
    <3>1. PortTypes' /\ \A p \in XgPorts : SamePort(p)
      BY <1>2, <2>1 DEF PortInv, PortTypes, SamePort, portVars, asked, receiver, link, hist
    <3> QED BY <1>2, <3>1, OtherPort DEF PortInv
  <2>2. ASSUME NEW p \in XgPorts, NEW t \in XgThreads, Multi(t, p) PROVE PortInv'
    BY <1>2, <2>2, MultiBeginsStep, MultiDrainsStep, MultiSwitchesStep, MultiEnablesStep,
       MultiFiltersStep DEF Multi
  <2>3. ASSUME NEW p \in XgPorts, FrameComes(p) \/ FramesDrain(p) PROVE PortInv'
    <3>1. PortTypes' /\ \A q \in XgPorts : SamePort(q)
      BY <1>2, <2>3 DEF PortInv, PortTypes, SamePort, FrameComes, FramesDrain, asked,
         receiver, link, hist
    <3> QED BY <1>2, <3>1, OtherPort DEF PortInv
  <2>4. CASE PortNext
    BY <1>2, <2>2, <2>3, <2>4, ListChangesStep, MacChangesStep, MacSetStep, MtuChangesStep,
       PortOpensStep, InitPortStep,
       AttachEndsStep, PortClosesStep, PortResetsStep, StopPortStep, FlushWorkStep, DelTimerStep, CableChangesStep,
       TimerFiresStep, TaskBeginsStep, HandlePhyIntrStep, TaskArmsStep DEF PortNext
  <2> QED BY <1>2, <2>1, <2>4
<1> QED BY <1>1, <1>2, PortInvInit, PTL DEF PortSpec
-----------------------------------------------------------------------------
(* The self test.                                                          *)

\* From the halt of the peg to the end of the test.
Looping == {"halted", "on", "traffic", "end", "unloop", "off", "unhalt"}
TestSteps == {"idle", "led", "blink", "memory", "halt"} \cup Looping

\* When there is something to access.
StepsKept ==
  /\ tpc \in TestSteps /\ blinks \in Nat
  /\ halted \in BOOLEAN /\ noMemory \in BOOLEAN /\ broken \in BOOLEAN /\ framed \in BOOLEAN
  /\ tpc \in {"led", "blink"} => blinks < Blinks
  /\ script # <<>> => tpc \in {"led", "on", "off"}
  /\ framed => script # <<>>

\* The peg is halted while it has not the lock, and is so during the loopback, unless the
\* test came to its end without memory.
PegHalted ==
  /\ halted => tpc \in Looping /\ owner # "peg"
  /\ tpc \in {"halted", "on", "traffic"} => halted
  /\ tpc \in Looping => halted \/ noMemory
  /\ owner = "driver" => tpc \in {"on", "off"}
  /\ broken => noMemory

\* Until the lock is broken the PHY is its holder's, and then still the driver's while the
\* peg is halted.
BusKept ==
  /\ ~broken => /\ pegPc # "idle" => owner = "peg"
                /\ tpc \in {"on", "off"} => owner = "driver"
  /\ framed /\ tpc \in {"on", "off"} /\ (halted \/ ~broken) => selected = Head(script).reg
  /\ "loopback" \in astray => broken

\* No access of the driver met another register.
Straight == "led" \notin astray /\ "loopback" \notin astray

\* v is in the sequence s.
Holds(s, v) == \E k \in DOMAIN s : s[k] = v

\* What may be left of a script that changes the registers a and b, or b alone.
OneLeft(b, to) == {<<Reads(b), Writes(b, to)>>, <<Writes(b, to)>>, <<>>}
TwoLeft(a, b, to) ==
  {<<Reads(a), Writes(a, to), Reads(b), Writes(b, to)>>,
   <<Writes(a, to), Reads(b), Writes(b, to)>>} \cup OneLeft(b, to)

LoopRegs == IF phyKind = "quake" THEN {"ctrl"} ELSE {"ael", "xs"}
LoopLeft(to) ==
  IF phyKind = "quake" THEN OneLeft("ctrl", to)
  ELSE IF to = "set" THEN TwoLeft("ael", "xs", to) ELSE TwoLeft("xs", "ael", to)

LedLeft ==
  IF phyKind # "quake" THEN {<<>>}
  ELSE IF blinks + 1 = Blinks
  THEN {<<Writes("led", "on"), Writes("led", "restore")>>, <<Writes("led", "restore")>>, <<>>}
  ELSE {<<Writes("led", "on")>>, <<>>}

ScriptRight ==
  /\ tpc = "led" => script = Identify \/ script \in LedLeft
  /\ tpc = "on" => script = Identify \/ script \in LoopLeft("set")
  /\ tpc = "off" => script = Identify \/ script \in LoopLeft("clear")
  /\ script # <<>> /\ Head(script).to \in {"set", "clear"} => held.of = Head(script).reg

\* A test's bit is still to be taken out of the register r.
Due(r) ==
  \/ /\ r = "led" /\ phyKind = "quake"
     /\ tpc = "blink" \/ (tpc = "led" /\ (blinks + 1 < Blinks \/ script # <<>>))
  \/ /\ halted /\ r \in LoopRegs
     /\ \/ tpc \in {"on", "traffic", "end", "unloop"}
        \/ tpc = "off" /\ (script = Identify \/ Holds(script, Writes(r, "clear")))

Contents == [of : Registers, bit : BOOLEAN]
PhyKept ==
  /\ phy \in [Registers -> Contents] /\ held \in Contents
  /\ \A r \in Registers : phy[r].of = r /\ (phy[r].bit => Due(r))

PhyInv == StepsKept /\ PegHalted /\ BusKept /\ (Straight => ScriptRight /\ PhyKept)

LEMMA Accesses ==
  ASSUME NEW r, NEW to
  PROVE  /\ Reads(r).reg = r /\ Reads(r).to = "read"
         /\ Writes(r, to).reg = r /\ Writes(r, to).to = to
BY DEF Reads, Writes

\* What is left of a sequence when its first element is taken.
LEMMA Tails ==
  ASSUME NEW a, NEW b, NEW c, NEW d
  PROVE  /\ Tail(<<a, b, c, d>>) = <<b, c, d>> /\ Head(<<a, b, c, d>>) = a
         /\ Tail(<<a, b, c>>) = <<b, c>> /\ Head(<<a, b, c>>) = a
         /\ Tail(<<a, b>>) = <<b>> /\ Head(<<a, b>>) = a
         /\ Tail(<<a>>) = <<>> /\ Head(<<a>>) = a
OBVIOUS

LEMMA HeadTwo == \A a, b : <<a, b>> # <<>> /\ Head(<<a, b>>) = a
OBVIOUS

LEMMA HeadThree == \A a, b, c : <<a, b, c>> # <<>> /\ Head(<<a, b, c>>) = a
OBVIOUS

LEMMA Lengths ==
  ASSUME NEW a, NEW b, NEW c, NEW d
  PROVE  <<a>> # <<>> /\ <<a, b>> # <<>> /\ <<a, b, c>> # <<>> /\ <<a, b, c, d>> # <<>>
OBVIOUS

LEMMA SeqIs ==
  ASSUME NEW S, NEW a \in S, NEW b \in S, NEW c \in S, NEW d \in S
  PROVE  /\ <<>> \in Seq(S) /\ <<a>> \in Seq(S) /\ <<a, b>> \in Seq(S)
         /\ <<a, b, c>> \in Seq(S) /\ <<a, b, c, d>> \in Seq(S)
OBVIOUS

LEMMA TailHolds ==
  ASSUME NEW S, NEW s \in Seq(S), s # <<>>, NEW v, Holds(s, v)
  PROVE  v = Head(s) \/ Holds(Tail(s), v)
<1>1. /\ Len(s) \in Nat /\ Len(s) > 0 /\ DOMAIN s = 1 .. Len(s) /\ Head(s) = s[1]
      /\ DOMAIN Tail(s) = 1 .. Len(s) - 1 /\ \A k \in 1 .. Len(s) - 1 : Tail(s)[k] = s[k + 1]
  OBVIOUS
<1>2. PICK k \in 1 .. Len(s) : s[k] = v
  BY <1>1 DEF Holds
<1>3. CASE k # 1
  <2>1. k - 1 \in 1 .. Len(s) - 1 /\ (k - 1) + 1 = k
    BY <1>1, <1>3
  <2>2. Tail(s)[k - 1] = v
    BY <1>1, <1>2, <2>1
  <2> QED BY <1>1, <2>1, <2>2 DEF Holds
<1> QED BY <1>1, <1>2, <1>3

\* What a script that changes two registers comes to with each access.
LEMMA OneStep ==
  ASSUME NEW b, NEW to, to # "read", NEW s \in OneLeft(b, to), s # <<>>
  PROVE  /\ Tail(s) \in OneLeft(b, to) /\ Head(s).reg = b /\ Head(s).to \in {"read", to}
         /\ Head(s).to = "read" => Tail(s) # <<>> /\ Head(Tail(s)) = Writes(b, to)
         /\ Head(s).to = to => Tail(s) = <<>>
         /\ \A v : Holds(s, v) => v = Head(s) \/ Holds(Tail(s), v)
<1>1. \A v : Holds(s, v) => v = Head(s) \/ Holds(Tail(s), v)
  <2> DEFINE S == {Reads(b), Writes(b, to)}
  <2>1. s \in Seq(S)
    BY SeqIs DEF OneLeft
  <2> QED BY <2>1, TailHolds
<1>2. CASE s = <<Reads(b), Writes(b, to)>>
  <2>1. Tail(s) = <<Writes(b, to)>> /\ Head(s) = Reads(b)
    BY <1>2, Tails
  <2>2. Tail(s) # <<>> /\ Head(Tail(s)) = Writes(b, to)
    BY <2>1, Tails, Lengths
  <2> QED BY <1>1, <2>1, <2>2, Accesses DEF OneLeft
<1>3. CASE s = <<Writes(b, to)>>
  <2>1. Tail(s) = <<>> /\ Head(s) = Writes(b, to)
    BY <1>3, Tails
  <2> QED BY <1>1, <2>1, Accesses DEF OneLeft
<1> QED BY <1>2, <1>3 DEF OneLeft

LEMMA TwoStep ==
  ASSUME NEW a, NEW b, NEW to, to # "read", NEW s \in TwoLeft(a, b, to), s # <<>>
  PROVE  /\ Tail(s) \in TwoLeft(a, b, to) /\ Head(s).reg \in {a, b} /\ Head(s).to \in {"read", to}
         /\ Head(s).to = "read" => Tail(s) # <<>> /\ Head(Tail(s)) = Writes(Head(s).reg, to)
         /\ Head(s).to = to => Tail(s) = <<>> \/ Head(Tail(s)).to = "read"
         /\ \A v : Holds(s, v) => v = Head(s) \/ Holds(Tail(s), v)
<1>1. CASE s \in OneLeft(b, to)
  BY <1>1, OneStep DEF TwoLeft
<1>2. ASSUME s \in {<<Reads(a), Writes(a, to), Reads(b), Writes(b, to)>>,
                    <<Writes(a, to), Reads(b), Writes(b, to)>>}
      PROVE  \A v : Holds(s, v) => v = Head(s) \/ Holds(Tail(s), v)
  <2> DEFINE S == {Reads(a), Writes(a, to), Reads(b), Writes(b, to)}
  <2>1. s \in Seq(S)
    BY <1>2, SeqIs
  <2> QED BY <2>1, TailHolds
<1>3. CASE s = <<Reads(a), Writes(a, to), Reads(b), Writes(b, to)>>
  <2>1. Tail(s) = <<Writes(a, to), Reads(b), Writes(b, to)>> /\ Head(s) = Reads(a)
    BY <1>3, Tails
  <2>2. Tail(s) # <<>> /\ Head(Tail(s)) = Writes(a, to)
    BY <2>1, HeadThree
  <2> QED BY <1>2, <1>3, <2>1, <2>2, Accesses DEF TwoLeft
<1>4. CASE s = <<Writes(a, to), Reads(b), Writes(b, to)>>
  <2>1. Tail(s) = <<Reads(b), Writes(b, to)>> /\ Head(s) = Writes(a, to)
    BY <1>4, Tails
  <2>2. Head(Tail(s)) = Reads(b) /\ Tail(s) \in OneLeft(b, to)
    BY <2>1, HeadTwo DEF OneLeft
  <2> QED BY <1>2, <1>4, <2>1, <2>2, Accesses DEF TwoLeft
<1> QED BY <1>1, <1>3, <1>4 DEF TwoLeft

LEMMA LoopStep ==
  ASSUME NEW to \in {"set", "clear"}, NEW s \in LoopLeft(to), s # <<>>
  PROVE  /\ Tail(s) \in LoopLeft(to) /\ Head(s).reg \in LoopRegs /\ Head(s).to \in {"read", to}
         /\ Head(s).to = "read" => Tail(s) # <<>> /\ Head(Tail(s)) = Writes(Head(s).reg, to)
         /\ Head(s).to = to => Tail(s) = <<>> \/ Head(Tail(s)).to = "read"
         /\ \A v : Holds(s, v) => v = Head(s) \/ Holds(Tail(s), v)
<1>1. CASE phyKind = "quake"
  BY <1>1, OneStep DEF LoopLeft, LoopRegs
<1>2. CASE phyKind # "quake" /\ to = "set"
  BY <1>2, TwoStep DEF LoopLeft, LoopRegs
<1>3. CASE phyKind # "quake" /\ to = "clear"
  BY <1>3, TwoStep DEF LoopLeft, LoopRegs
<1> QED BY <1>1, <1>2, <1>3

\* The script of the PHY that is there begins with a read and changes every register of the
\* loopback.
LEMMA LoopBegins ==
  ASSUME NEW on \in BOOLEAN, NEW to, to = IF on THEN "set" ELSE "clear",
         NEW s, s = LoopbackScript(phyKind, on)
  PROVE  /\ s \in LoopLeft(to) /\ s # <<>> /\ Head(s).to = "read"
         /\ \A r \in LoopRegs : Holds(s, Writes(r, to))
<1>1. CASE phyKind = "quake"
  <2>1. s = <<Reads("ctrl"), Writes("ctrl", to)>>
    BY <1>1 DEF LoopbackScript
  <2>2. s # <<>> /\ Head(s).to = "read"
    BY <2>1, Tails, Lengths, Accesses
  <2>3. Holds(s, Writes("ctrl", to))
    BY <2>1 DEF Holds
  <2> QED BY <1>1, <2>1, <2>2, <2>3 DEF LoopLeft, OneLeft, LoopRegs
<1>2. ASSUME phyKind # "quake", NEW a, NEW b, LoopRegs = {a, b}, LoopLeft(to) = TwoLeft(a, b, to),
             s = <<Reads(a), Writes(a, to), Reads(b), Writes(b, to)>>
      PROVE  /\ s \in LoopLeft(to) /\ s # <<>> /\ Head(s).to = "read"
             /\ \A r \in LoopRegs : Holds(s, Writes(r, to))
  <2>1. s # <<>> /\ Head(s).to = "read"
    BY <1>2, Tails, Lengths, Accesses
  <2>2. Holds(s, Writes(a, to)) /\ Holds(s, Writes(b, to))
    BY <1>2 DEF Holds
  <2> QED BY <1>2, <2>1, <2>2 DEF TwoLeft
<1>3. CASE phyKind # "quake" /\ on
  BY <1>2, <1>3 DEF LoopLeft, LoopRegs, LoopbackScript
<1>4. CASE phyKind # "quake" /\ ~on
  BY <1>2, <1>4 DEF LoopLeft, LoopRegs, LoopbackScript
<1> QED BY <1>1, <1>3, <1>4

LEMMA LedStep ==
  ASSUME NEW s \in LedLeft, s # <<>>
  PROVE  /\ phyKind = "quake" /\ Tail(s) \in LedLeft /\ Head(s).reg = "led"
         /\ Head(s).to \in {"on", "restore"}
         /\ Tail(s) # <<>> => Head(Tail(s)).to = "restore"
         /\ Head(s).to = "on" => blinks + 1 # Blinks \/ Tail(s) # <<>>
<1>1. phyKind = "quake"
  BY DEF LedLeft
<1>2. CASE blinks + 1 = Blinks /\ s = <<Writes("led", "on"), Writes("led", "restore")>>
  <2>1. Tail(s) = <<Writes("led", "restore")>> /\ Head(s) = Writes("led", "on")
    BY <1>2, Tails
  <2>2. Tail(s) # <<>> /\ Head(Tail(s)) = Writes("led", "restore")
    BY <2>1, Tails, Lengths
  <2> QED BY <1>1, <1>2, <2>1, <2>2, Accesses DEF LedLeft
<1>3. CASE blinks + 1 = Blinks /\ s = <<Writes("led", "restore")>>
  <2>1. Tail(s) = <<>> /\ Head(s) = Writes("led", "restore")
    BY <1>3, Tails
  <2> QED BY <1>1, <1>3, <2>1, Accesses DEF LedLeft
<1>4. CASE blinks + 1 # Blinks /\ s = <<Writes("led", "on")>>
  <2>1. Tail(s) = <<>> /\ Head(s) = Writes("led", "on")
    BY <1>4, Tails
  <2> QED BY <1>1, <1>4, <2>1, Accesses DEF LedLeft
<1> QED BY <1>1, <1>2, <1>3, <1>4 DEF LedLeft

LEMMA IdentifyIs ==
  /\ Identify # <<>> /\ Head(Identify) = Reads("id")
  /\ Reads("id").reg = "id" /\ Reads("id").to = "read"
BY Tails, Lengths, Accesses DEF Identify

LEMMA PhyInvInit == PhyInit => PhyInv
<1> SUFFICES ASSUME PhyInit PROVE PhyInv
  OBVIOUS
<1>1. StepsKept /\ PegHalted /\ BusKept
  BY DEF PhyInit, StepsKept, PegHalted, BusKept, TestSteps, Looping
<1>2. ScriptRight
  BY DEF PhyInit, ScriptRight
<1>3. PhyKept
  BY DEF PhyInit, PhyKept, Contents, Registers, AsSet
<1> QED BY <1>1, <1>2, <1>3 DEF PhyInv

\* What the invariant says of the registers and the script depends on these only.
LEMMA SameScript ==
  ASSUME Straight => ScriptRight /\ PhyKept, Straight' => Straight,
         UNCHANGED <<phyKind, halted, phy, held, tpc, script, blinks>>
  PROVE  Straight' => (ScriptRight /\ PhyKept)'
<1>1. /\ LedLeft' = LedLeft /\ Identify' = Identify
      /\ LoopLeft("set")' = LoopLeft("set") /\ LoopLeft("clear")' = LoopLeft("clear")
  BY DEF LedLeft, Identify, LoopLeft, OneLeft, TwoLeft, Reads, Writes
<1>2. \A r : Due(r)' <=> Due(r)
  BY DEF Due, LoopRegs, Identify, Holds, Reads, Writes
<1> QED BY <1>1, <1>2 DEF ScriptRight, PhyKept

\* The frames and the peg: of what the invariant speaks of, only the frames, the lock and
\* the register that was named change.
LEMMA AddressStep == PhyInv /\ MdioAddress => PhyInv'
<1> SUFFICES ASSUME PhyInv, MdioAddress PROVE PhyInv'
  OBVIOUS
<1>1. /\ script # <<>> /\ framed' = TRUE /\ selected' = Head(script).reg
      /\ UNCHANGED <<phyKind, owner, halted, pegPc, phy, held, tpc, script, blinks, noMemory,
                     broken, astray>>
  BY DEF MdioAddress, test
<1>2. StepsKept' /\ PegHalted' /\ BusKept'
  BY <1>1 DEF PhyInv, StepsKept, PegHalted, BusKept
<1>3. Straight' => (ScriptRight /\ PhyKept)'
  BY <1>1, SameScript DEF PhyInv, Straight
<1> QED BY <1>2, <1>3 DEF PhyInv

LEMMA PegStep ==
  ASSUME PhyInv, PegLocks \/ PegAddresses \/ PegReads \/ PegUnlocks
  PROVE  PhyInv'
<1>1. /\ ~halted
      /\ UNCHANGED <<phyKind, halted, phy, held, framed, tpc, script, blinks, noMemory, broken>>
      /\ ("loopback" \in astray <=> "loopback" \in astray')
      /\ ("led" \in astray <=> "led" \in astray')
  BY DEF PegLocks, PegAddresses, PegReads, PegUnlocks, test
<1>2. StepsKept' /\ PegHalted'
  BY <1>1 DEF PhyInv, StepsKept, PegHalted, PegLocks, PegAddresses, PegReads, PegUnlocks
<1>3. BusKept'
  BY <1>1 DEF PhyInv, BusKept, PegLocks, PegAddresses, PegReads, PegUnlocks
<1>4. Straight' => (ScriptRight /\ PhyKept)'
  BY <1>1, SameScript DEF PhyInv, Straight
<1> QED BY <1>2, <1>3, <1>4 DEF PhyInv

\* The identifier, where it is read from its own register, is that of the PHY.
LEMMA IdentifyStep ==
  ASSUME PhyInv, MdioData, Straight', Head(script) = Reads("id")
  PROVE  (ScriptRight /\ PhyKept)'
<1>1. /\ script # <<>> /\ selected = "id" /\ script' = Identified(phy["id"])
      /\ held' = phy["id"] /\ astray' = astray
      /\ UNCHANGED <<phyKind, halted, phy, tpc, blinks>>
  BY Accesses DEF MdioData, Straight
<1>2. StepsKept /\ PegHalted /\ ScriptRight /\ PhyKept
  BY <1>1 DEF PhyInv, Straight
<1>3. tpc \in {"led", "on", "off"} /\ Blinks \in Nat
  BY <1>1, <1>2, PhyAssumption DEF StepsKept
<1>4. script = Identify
  <2>1. CASE tpc = "led"
    BY <1>1, <1>2, <2>1, LedStep, Accesses DEF ScriptRight
  <2>2. ASSUME NEW to \in {"set", "clear"}, script \in LoopLeft(to) PROVE FALSE
    <3>1. Head(script).reg \in LoopRegs
      BY <1>1, <2>2, LoopStep
    <3> QED BY <3>1, Accesses DEF LoopRegs
  <2>3. CASE tpc \in {"on", "off"}
    BY <1>2, <2>2, <2>3 DEF ScriptRight
  <2> QED BY <1>3, <2>1, <2>3
<1>5. phy["id"] = AsSet("id")
  <2>1. "id" \in Registers
    BY DEF Registers
  <2>2. ~Due("id")
    BY DEF Due, LoopRegs
  <2>3. phy["id"] \in Contents /\ phy["id"].of = "id" /\ ~phy["id"].bit
    BY <1>2, <2>1, <2>2 DEF PhyKept
  <2> QED BY <2>3 DEF Contents, AsSet
<1>6. script' = IF tpc = "led" THEN LedScript(phyKind) ELSE LoopbackScript(phyKind, tpc = "on")
  BY <1>1, <1>5 DEF Identified
<1>7. ScriptRight' /\ \A r \in Registers : phy[r].bit => Due(r)'
  <2>1. CASE tpc = "led"
    <3>1. script' \in LedLeft' /\ (blinks + 1 = Blinks /\ phyKind = "quake" => script' # <<>>)
      BY <1>1, <1>6, <2>1, Lengths DEF LedLeft, LedScript, Writes
    <3>2. script' # <<>> => Head(script').to \in {"on", "restore"}
      BY <1>1, <3>1, LedStep DEF LedLeft, Writes
    <3>3. blinks + 1 < Blinks \/ blinks + 1 = Blinks
      BY <1>2, <1>3, <2>1 DEF StepsKept
    <3> QED BY <1>1, <1>2, <2>1, <3>1, <3>2, <3>3 DEF ScriptRight, PhyKept, Due
  <2>2. CASE tpc = "on"
    <3>1. script' \in LoopLeft("set")' /\ script' # <<>> /\ Head(script').to = "read"
      BY <1>1, <1>6, <2>2, LoopBegins DEF LoopLeft, OneLeft, TwoLeft, Reads, Writes
    <3> QED BY <1>1, <1>2, <2>2, <3>1 DEF ScriptRight, PhyKept, Due, LoopRegs
  <2>3. CASE tpc = "off"
    <3>1. /\ script' \in LoopLeft("clear")' /\ script' # <<>> /\ Head(script').to = "read"
          /\ \A r \in LoopRegs : Holds(script', Writes(r, "clear"))
      BY <1>1, <1>6, <2>3, LoopBegins DEF LoopLeft, OneLeft, TwoLeft, Reads, Writes
    <3> QED BY <1>1, <1>2, <2>3, <3>1 DEF ScriptRight, PhyKept, Due, LoopRegs, Holds, Writes
  <2> QED BY <1>3, <2>1, <2>2, <2>3
<1> QED BY <1>1, <1>2, <1>7 DEF PhyKept, Registers

\* Any other access takes its script on, and a write puts into the register what it is to
\* have.
LEMMA AccessStep ==
  ASSUME PhyInv, MdioData, Straight', Head(script) # Reads("id")
  PROVE  (ScriptRight /\ PhyKept)'
<1> DEFINE h == Head(script)
<1>1. /\ script # <<>> /\ selected = h.reg /\ script' = Tail(script) /\ astray' = astray
      /\ IF h.to = "read" THEN held' = phy[h.reg] /\ phy' = phy
         ELSE phy' = [phy EXCEPT ![h.reg] = Written(h.to)] /\ held' = held
      /\ UNCHANGED <<phyKind, halted, tpc, blinks>>
  BY DEF MdioData, Straight
<1>2. StepsKept /\ PegHalted /\ ScriptRight /\ PhyKept
  BY <1>1 DEF PhyInv, Straight
<1>3. tpc \in {"led", "on", "off"} /\ Blinks \in Nat /\ script # Identify
  BY <1>1, <1>2, PhyAssumption, IdentifyIs DEF StepsKept
<1>4. /\ LedLeft' = LedLeft /\ LoopRegs' = LoopRegs
      /\ LoopLeft("set")' = LoopLeft("set") /\ LoopLeft("clear")' = LoopLeft("clear")
  BY <1>1 DEF LedLeft, LoopLeft, LoopRegs, OneLeft, TwoLeft, Reads, Writes
<1>5. \A r, to : Writes(r, to)' = Writes(r, to)
  BY DEF Writes
<1> HIDE DEF h
<1>6. CASE tpc = "led"
  <2>1. script \in LedLeft
    BY <1>2, <1>3, <1>6 DEF ScriptRight
  <2>2. /\ phyKind = "quake" /\ script' \in LedLeft /\ h.reg = "led" /\ h.to \in {"on", "restore"}
        /\ script' # <<>> => Head(script').to = "restore"
        /\ h.to = "on" => blinks + 1 # Blinks \/ script' # <<>>
    BY <1>1, <2>1, LedStep DEF h
  <2>3. ScriptRight'
    BY <1>1, <1>4, <1>6, <2>2 DEF ScriptRight
  <2>4. /\ phy' = [phy EXCEPT !["led"] = [of |-> "led", bit |-> h.to = "on"]] /\ held' = held
        /\ "led" \in Registers
    BY <1>1, <2>2 DEF Written, Registers
  <2>5. h.to = "on" => Due("led")'
    <3>1. blinks + 1 < Blinks \/ blinks + 1 = Blinks
      BY <1>2, <1>3, <1>6 DEF StepsKept
    <3> QED BY <1>1, <1>6, <2>2, <3>1 DEF Due
  <2>6. ASSUME NEW r \in Registers \ {"led"} PROVE phy'[r].of = r /\ (phy'[r].bit => Due(r)')
    BY <1>1, <1>2, <1>6, <2>4, <2>6 DEF PhyKept, Due
  <2>7. phy' \in [Registers -> Contents]
    BY <1>2, <2>4 DEF PhyKept, Contents
  <2>8. phy'["led"].of = "led" /\ (phy'["led"].bit => Due("led")')
    BY <1>2, <2>4, <2>5 DEF PhyKept
  <2> QED BY <1>2, <2>3, <2>4, <2>6, <2>7, <2>8 DEF PhyKept
<1>7. CASE tpc \in {"on", "off"}
  <2> DEFINE to == IF tpc = "on" THEN "set" ELSE "clear"
  <2>1. script \in LoopLeft(to) /\ to \in {"set", "clear"}
    BY <1>2, <1>3, <1>7 DEF ScriptRight
  <2>2. /\ script' \in LoopLeft(to) /\ h.reg \in LoopRegs /\ h.to \in {"read", to}
        /\ h.to = "read" => script' # <<>> /\ Head(script') = Writes(h.reg, to)
        /\ h.to = to => script' = <<>> \/ Head(script').to = "read"
        /\ \A v : Holds(script, v) => v = h \/ Holds(script', v)
    BY <1>1, <2>1, LoopStep DEF h
  <2>3. h.reg \in Registers /\ phy[h.reg] \in Contents /\ phy[h.reg].of = h.reg
        /\ held \in Contents
    BY <1>2, <2>2 DEF LoopRegs, Registers, PhyKept
  <2>4. CASE h.to = "read"
    <3>1. held' = phy[h.reg] /\ phy' = phy
      BY <1>1, <2>4
    <3>2. held'.of = h.reg /\ held' \in Contents /\ Head(script').reg = h.reg
      BY <2>2, <2>3, <2>4, <3>1, Accesses
    <3>3. ScriptRight'
      BY <1>1, <1>4, <1>7, <2>1, <2>2, <3>2 DEF ScriptRight
    <3>4. ASSUME NEW r \in Registers, phy[r].bit PROVE Due(r)'
      <4>1. Due(r)
        BY <1>2, <3>4 DEF PhyKept
      <4>2. Writes(r, "clear") # h
        BY <2>4, Accesses
      <4> QED BY <1>1, <1>3, <1>4, <1>5, <1>7, <2>2, <4>1, <4>2 DEF Due, Holds
    <3> QED BY <1>2, <3>1, <3>2, <3>3, <3>4 DEF PhyKept
  <2>5. CASE h.to = to
    <3>1. phy' = [phy EXCEPT ![h.reg] = [held EXCEPT !.bit = (to = "set")]] /\ held' = held
      BY <1>1, <2>1, <2>5 DEF Written
    <3>2. held.of = h.reg
      BY <1>1, <1>2, <2>1, <2>5 DEF ScriptRight, h
    <3>3. ScriptRight'
      BY <1>1, <1>4, <1>7, <2>1, <2>2, <2>5 DEF ScriptRight
    <3>4. /\ phy' \in [Registers -> Contents]
          /\ phy'[h.reg].of = h.reg /\ (phy'[h.reg].bit <=> to = "set")
          /\ \A r \in Registers \ {h.reg} : phy'[r] = phy[r]
      BY <1>2, <2>3, <3>1, <3>2 DEF PhyKept, Contents
    <3>5. ASSUME NEW r, r = h.reg, to = "set" PROVE Due(r)'
      <4>1. tpc' = "on" /\ halted' /\ r \in LoopRegs'
        BY <1>1, <1>2, <1>4, <1>7, <2>2, <3>5 DEF PegHalted
      <4> QED BY <4>1 DEF Due
    <3>6. ASSUME NEW r \in Registers \ {h.reg}, phy[r].bit PROVE Due(r)'
      <4>1. Due(r)
        BY <1>2, <3>6 DEF PhyKept
      <4>2. Writes(r, "clear") # h
        BY <3>6, Accesses
      <4> QED BY <1>1, <1>3, <1>4, <1>5, <1>7, <2>2, <4>1, <4>2 DEF Due, Holds
    <3> QED BY <1>2, <2>3, <3>1, <3>3, <3>4, <3>5, <3>6 DEF PhyKept
  <2> QED BY <2>2, <2>4, <2>5
<1> QED BY <1>3, <1>6, <1>7

\* A frame that reads or writes: with the lock kept, or the peg halted, it meets the register
\* its address frame named.
LEMMA DataStep == PhyInv /\ MdioData => PhyInv'
<1> SUFFICES ASSUME PhyInv, MdioData PROVE PhyInv'
  OBVIOUS
<1>1. /\ script # <<>> /\ framed /\ framed' = FALSE
      /\ astray' = IF selected = Head(script).reg THEN astray
                   ELSE astray \cup {IF tpc = "led" THEN "led" ELSE "loopback"}
      /\ UNCHANGED <<phyKind, owner, halted, pegPc, selected, tpc, blinks, noMemory, broken>>
  BY DEF MdioData
<1>2. StepsKept' /\ PegHalted' /\ BusKept'
  BY <1>1 DEF PhyInv, StepsKept, PegHalted, BusKept
<1>3. Straight' => (ScriptRight /\ PhyKept)'
  BY IdentifyStep, AccessStep
<1> QED BY <1>2, <1>3 DEF PhyInv

\* The steps of the test between the accesses.
LEMMA TestStep ==
  ASSUME PhyInv, \/ TestBegins \/ LedTested \/ LedAgain \/ TestAllocates \/ TestHalts
                 \/ HaltGivesUp \/ LoopbackLocks \/ LoopbackGivesUp \/ LoopbackUnlocks
                 \/ Traffic \/ TestEnds \/ TestUnhalts
  PROVE  PhyInv'
<1>1. StepsKept /\ PegHalted /\ BusKept /\ Blinks \in Nat /\ Blinks > 0
  BY PhyAssumption DEF PhyInv
<1>2. /\ script = <<>> /\ script' \in {<<>>, Identify}
      /\ (script' = Identify => tpc' \in {"led", "on", "off"})
      /\ (tpc' \in {"led", "on", "off"} => script' = Identify)
      /\ UNCHANGED <<phyKind, pegPc, selected, phy, held, framed, astray>>
  <2>1. UNCHANGED <<phyKind, pegPc, selected, phy, held, framed, astray>>
    BY DEF TestBegins, LedTested, LedAgain, TestAllocates, TestHalts, HaltGivesUp, LoopbackLocks,
       LoopbackGivesUp, LoopbackUnlocks, Traffic, TestEnds, TestUnhalts, TestGo, bus, card
  <2>2. script = <<>>
    BY <1>1 DEF TestBegins, LedTested, LedAgain, TestAllocates, TestHalts, HaltGivesUp,
       LoopbackLocks, LoopbackGivesUp, LoopbackUnlocks, Traffic, TestEnds, TestUnhalts, StepsKept
  <2>3. /\ script' \in {<<>>, Identify} /\ (script' = Identify => tpc' \in {"led", "on", "off"})
        /\ (tpc' \in {"led", "on", "off"} => script' = Identify)
    BY IdentifyIs DEF TestBegins, LedTested, LedAgain, TestAllocates, TestHalts, HaltGivesUp,
       LoopbackLocks, LoopbackGivesUp, LoopbackUnlocks, Traffic, TestEnds, TestUnhalts, TestGo
  <2> QED BY <2>1, <2>2, <2>3
<1>3. framed = FALSE
  BY <1>1, <1>2 DEF StepsKept
<1>4. StepsKept'
  <2>1. /\ tpc' \in TestSteps /\ halted' \in BOOLEAN /\ noMemory' \in BOOLEAN
        /\ broken' \in BOOLEAN
    BY <1>1 DEF StepsKept, TestSteps, Looping, TestBegins, LedTested,
       LedAgain, TestAllocates, TestHalts, HaltGivesUp, LoopbackLocks, LoopbackGivesUp,
       LoopbackUnlocks, Traffic, TestEnds, TestUnhalts, TestGo
  <2>2. blinks' \in Nat /\ (tpc' \in {"led", "blink"} => blinks' < Blinks)
    BY <1>1 DEF StepsKept, TestBegins, LedTested, LedAgain, TestAllocates, TestHalts, HaltGivesUp,
       LoopbackLocks, LoopbackGivesUp, LoopbackUnlocks, Traffic, TestEnds, TestUnhalts, TestGo
  <2> QED BY <1>2, <1>3, <2>1, <2>2 DEF StepsKept
<1>5. PegHalted'
  BY <1>1 DEF StepsKept, PegHalted, Looping, MayHalt, TestBegins, LedTested, LedAgain,
     TestAllocates, TestHalts, HaltGivesUp, LoopbackLocks, LoopbackGivesUp, LoopbackUnlocks,
     Traffic, TestEnds, TestUnhalts, TestGo
<1>6. BusKept'
  BY <1>1, <1>2, <1>3 DEF StepsKept, PegHalted, BusKept, TestBegins, LedTested, LedAgain,
     TestAllocates, TestHalts, HaltGivesUp, LoopbackLocks, LoopbackGivesUp, LoopbackUnlocks,
     Traffic, TestEnds, TestUnhalts, TestGo
<1>7. ASSUME Straight' PROVE (ScriptRight /\ PhyKept)'
  <2>1. ScriptRight /\ PhyKept
    BY <1>2, <1>7 DEF PhyInv, Straight
  <2>2. ScriptRight'
    BY <1>2, IdentifyIs DEF ScriptRight, Identify, Reads
  <2>3. ASSUME NEW r \in Registers, phy[r].bit PROVE Due(r)'
    <3>1. Due(r)
      BY <2>1, <2>3 DEF PhyKept
    <3>2. ~Holds(script, Writes(r, "clear")) /\ script # Identify
      BY <1>2, IdentifyIs DEF Holds
    <3>3. CASE r = "led" /\ phyKind = "quake"
      <4>1. tpc = "blink" \/ (tpc = "led" /\ blinks + 1 < Blinks)
        BY <1>2, <3>1, <3>3 DEF Due, LoopRegs
      <4>2. tpc' = "blink" \/ (tpc' = "led" /\ script' # <<>>)
        BY <1>2, <4>1, IdentifyIs DEF TestBegins, LedTested, LedAgain, TestAllocates, TestHalts,
           HaltGivesUp, LoopbackLocks, LoopbackGivesUp, LoopbackUnlocks, Traffic, TestEnds,
           TestUnhalts, TestGo
      <4> QED BY <1>2, <3>3, <4>2 DEF Due
    <3>4. CASE halted /\ r \in LoopRegs /\ tpc \in {"on", "traffic", "end", "unloop"}
      <4>1. halted' /\ (tpc' \in {"on", "traffic", "end", "unloop"} \/ tpc' = "off")
        BY <1>1, <3>4 DEF PegHalted, TestBegins, LedTested, LedAgain, TestAllocates, TestHalts,
           HaltGivesUp, LoopbackLocks, LoopbackGivesUp, LoopbackUnlocks, Traffic, TestEnds,
           TestUnhalts, TestGo
      <4> QED BY <1>2, <3>4, <4>1 DEF Due, LoopRegs, Identify, Reads
    <3> QED BY <3>1, <3>2, <3>3, <3>4 DEF Due
  <2> QED BY <1>2, <2>1, <2>2, <2>3 DEF PhyKept
<1> QED BY <1>4, <1>5, <1>6, <1>7 DEF PhyInv

\* After a test peg 0 runs, the lock is not the driver's and the PHY is as the card set it up,
\* unless an access of the driver met another register; in the loopback one does only after a
\* test without memory broke the peg's lock (tool.c:404) - for every number of tests, every
\* kind of PHY and however often the LED is tested, with every value that is read and written
\* back (unm_nic_diag_test, unm_loopback_test, do_xge_loopback, unm_led_test).
THEOREM TestsLeaveNothing == PhySpec => []TestLeavesNothing
<1>1. PhyInv => TestLeavesNothing
  <2> SUFFICES ASSUME PhyInv PROVE TestLeavesNothing
    OBVIOUS
  <2>1. tpc = "idle" => ~halted /\ owner # "driver"
    BY DEF PhyInv, PegHalted, Looping
  <2>2. ("loopback" \in astray => broken) /\ (broken => noMemory)
    BY DEF PhyInv, PegHalted, BusKept
  <2>3. ASSUME tpc = "idle", astray \cap {"led", "loopback"} = {}, NEW r \in Registers
        PROVE  phy[r] = AsSet(r)
    <3>1. PhyKept
      BY <2>3 DEF PhyInv, Straight
    <3>2. ~Due(r)
      BY <2>3 DEF Due
    <3>3. phy[r] \in Contents /\ phy[r].of = r /\ ~phy[r].bit
      BY <3>1, <3>2 DEF PhyKept
    <3> QED BY <3>3 DEF Contents, AsSet
  <2> QED BY <2>1, <2>2, <2>3 DEF TestLeavesNothing
<1>2. ASSUME PhyInv, [PhyNext]_phyVars PROVE PhyInv'
  <2>1. CASE UNCHANGED phyVars
    <3>1. UNCHANGED <<phyKind, owner, halted, pegPc, selected, phy, held, tpc, script, framed,
                      blinks, noMemory, broken, astray>>
      BY <2>1 DEF phyVars, bus, card, test
    <3>2. StepsKept' /\ PegHalted' /\ BusKept'
      BY <1>2, <3>1 DEF PhyInv, StepsKept, PegHalted, BusKept
    <3>3. Straight' => (ScriptRight /\ PhyKept)'
      BY <1>2, <3>1, SameScript DEF PhyInv, Straight
    <3> QED BY <3>2, <3>3 DEF PhyInv
  <2>2. CASE PhyNext
    BY <1>2, <2>2, AddressStep, DataStep, PegStep, TestStep DEF PhyNext
  <2> QED BY <1>2, <2>1, <2>2
<1> QED BY <1>1, <1>2, PhyInvInit, PTL DEF PhySpec
=============================================================================
