------------------------------ MODULE Filters ------------------------------
(***************************************************************************)
(* What a P3 card filters and knows of an interface, and how the driver    *)
(* keeps it (nx_nic_p3_set_multi, unm_nic_set_mac, the address notifiers,  *)
(* nx_nic_fw40_change_mtu and the receive rules of driver/unm_nic_main.c): *)
(* three threads - the stack, the holder of the rtnl lock and the firmware *)
(* reset - send requests that may fail, mostly without looking at the      *)
(* result, while adapter->mac_list records what was sent.  Requests that   *)
(* are accepted reach the card in order (module TxRing), so they are       *)
(* applied to the card at once.                                            *)
(***************************************************************************)
EXTENDS Naturals, FiniteSets, SequencesExt

CONSTANTS
  Mcasts, Stations, Bcast,   \* the addresses
  MaxMcCount,                \* adapter->max_mc_count
  Ips, Mtus, NoRule,
  Ctxs,                      \* the receive contexts, in order; the first is rx_ctxs[0]
  MaxCalls, MaxFaults        \* bounds: calls from outside; refusals, shortages and resets

Macs == Mcasts \cup Stations \cup {Bcast}

\* "mode" stands for a request too and is no address.
\* is_valid_ether_addr keeps a station from being the broadcast address; the kernel's list
\* of multicast addresses may hold it.
ASSUME FilterAssumption ==
  /\ Ctxs \in Seq(Range(Ctxs)) /\ "mode" \notin Macs
  /\ Bcast \notin Stations

VARIABLES
  mc, flags, station, ips, mtu,   \* what the kernel wants
  open,                           \* netif_running
  attached,                       \* is_up is ADAPTER_UP_MAGIC
  resetting,                      \* the reset is between detaching and attaching the ports
  macList,                        \* adapter->mac_list: how often it holds an address
  w,                              \* the work of each thread
  rule,                           \* the rule of the last context, in the driver
  cardMacs, cardMode, cardIps, cardMtu, cardRule,
  lost,                           \* history: addresses and modes of which a request failed
  ipLost,                         \* history: IP addresses the card was not told of
  mtuBad,                         \* history: a context refused the last MTU
  raced,                          \* history: two threads were within set_multi or change_mtu
  clashed,                        \* history: addresses in the kernel's list that set_multi was
                                  \* adding on its own account
  calls, faults

wanted == <<mc, flags, station, ips, mtu>>
cardState == <<cardMacs, cardMode, cardIps, cardMtu, cardRule>>
notes == <<lost, ipLost, mtuBad, raced, clashed>>
filterVars == <<wanted, open, attached, resetting, macList, w, rule, cardState, notes,
                calls, faults>>

Setters == {"stack", "rtnl", "reset"}
NoMacs == [a \in Macs |-> 0]
Idle == [pc |-> "idle", del |-> NoMacs, add |-> NoMacs, left |-> {}, mode |-> "drop",
         new |-> CHOOSE m \in Mtus : TRUE, i |-> 1, attaching |-> FALSE]

FilterInit ==
  /\ mc = {} /\ flags = "none" /\ station \in Stations /\ ips = {}
  /\ mtu = Idle.new
  /\ open = FALSE /\ attached = FALSE /\ resetting = FALSE
  /\ macList = NoMacs /\ w = [t \in Setters |-> Idle] /\ rule = NoRule
  /\ cardMacs = {} /\ cardMode = "drop" /\ cardIps = {} /\ cardRule = NoRule
  /\ cardMtu = [c \in DOMAIN Ctxs |-> mtu]
  /\ lost = {} /\ ipLost = {} /\ mtuBad = FALSE /\ raced = FALSE
  /\ clashed = {}
  /\ calls = 0 /\ faults = 0

Call == calls < MaxCalls /\ calls' = calls + 1
Fault == faults < MaxFaults /\ faults' = faults + 1
Resting(t) == w[t].pc = "idle"
Go(t, r) == w' = [w EXCEPT ![t] = r]
Within(t) == w[t].pc \in {"station", "bcast", "flags", "list", "send"}
InMulti(t) == w[t].pc = "take" \/ Within(t)
InMtu(t) == w[t].pc = "mtu"
-----------------------------------------------------------------------------
\* nx_nic_p3_set_multi, from taking the list to the last request.

\* What the stack wants the card to let through of what is not for its addresses.
Mode ==
  IF flags = "promisc" THEN "all"
  ELSE IF flags = "allmulti" \/ Cardinality(mc) > MaxMcCount THEN "multi" ELSE "drop"

\* The addresses the card is asked to filter besides its own two, and all of them.
Listed == IF Mode = "drop" THEN mc ELSE {}
Asked == {station, Bcast} \cup Listed

TakeList(t) ==
  /\ w[t].pc = "take"
  /\ Go(t, [w[t] EXCEPT !.pc = "station", !.del = macList]) /\ macList' = NoMacs
  /\ raced' = (raced \/ \E u \in Setters \ {t} : Within(u))
  /\ UNCHANGED <<wanted, open, attached, resetting, rule, cardState, lost, ipLost, mtuBad,
                 calls, faults, clashed>>

\* Mutant of AddMac: the entry that goes over is not unlinked.
AddMacLinked(t, a, r) ==
  /\ UNCHANGED <<lost, faults>>
  /\ \/ /\ w[t].del[a] > 0
        /\ macList' = [macList EXCEPT ![a] = @ + 1] /\ Go(t, r)
     \/ /\ w[t].del[a] = 0 /\ macList[a] > 0
        /\ Go(t, r) /\ UNCHANGED macList
     \/ /\ w[t].del[a] = 0 /\ macList[a] = 0
        /\ Go(t, [r EXCEPT !.add[a] = @ + 1]) /\ UNCHANGED macList

\* nx_nic_p3_add_mac, after which the work of thread t is r: an address of the old list
\* goes over to the new one; one that is in neither is to be added, for which memory may
\* be short.  What is to be added already is not looked through.
AddMac(t, a, r) ==
  \/ /\ w[t].del[a] > 0
     /\ macList' = [macList EXCEPT ![a] = @ + 1] /\ Go(t, [r EXCEPT !.del[a] = @ - 1])
     /\ UNCHANGED <<lost, faults>>
  \/ /\ w[t].del[a] = 0 /\ macList[a] > 0
     /\ Go(t, r) /\ UNCHANGED <<macList, lost, faults>>
  \/ /\ w[t].del[a] = 0 /\ macList[a] = 0
     /\ \/ Go(t, [r EXCEPT !.add[a] = @ + 1]) /\ UNCHANGED <<lost, faults>>
        \/ Fault /\ lost' = lost \cup {a} /\ Go(t, r)
     /\ UNCHANGED macList

AddStation(t) ==
  /\ w[t].pc = "station" /\ AddMac(t, station, [w[t] EXCEPT !.pc = "bcast"])
  /\ UNCHANGED <<wanted, open, attached, resetting, rule, cardState, ipLost, mtuBad, raced,
                 calls, clashed>>

AddBcast(t) ==
  /\ w[t].pc = "bcast" /\ AddMac(t, Bcast, [w[t] EXCEPT !.pc = "flags"])
  /\ UNCHANGED <<wanted, open, attached, resetting, rule, cardState, ipLost, mtuBad, raced,
                 calls, clashed>>

SeeFlags(t) ==
  /\ w[t].pc = "flags"
  /\ Go(t, [w[t] EXCEPT !.pc = "list", !.mode = Mode, !.left = Listed])
  /\ clashed' = clashed \cup {a \in Listed : w[t].add[a] > 0}
  /\ UNCHANGED <<wanted, open, attached, resetting, macList, rule, cardState, lost, ipLost,
                 mtuBad, raced, calls, faults>>

AddListed(t) ==
  /\ w[t].pc = "list"
  /\ \E a \in w[t].left : AddMac(t, a, [w[t] EXCEPT !.left = @ \ {a}])
  /\ UNCHANGED <<wanted, open, attached, resetting, rule, cardState, ipLost, mtuBad, raced,
                 calls, clashed>>

\* A request: it takes effect and what was lost of x is made good, or it is refused,
\* which nobody looks at.  There is no card to take it while the port is detached.
Sent(x) == attached /\ lost' = lost \ {x} /\ UNCHANGED faults
Refused(x) ==
  /\ lost' = lost \cup {x} /\ UNCHANGED <<cardMacs, cardMode>>
  /\ IF attached THEN Fault ELSE UNCHANGED faults

SendMode(t) ==
  /\ w[t].pc = "list" /\ w[t].left = {}
  /\ \/ /\ Sent("mode") /\ cardMode' = w[t].mode /\ UNCHANGED cardMacs
     \/ Refused("mode")
  /\ Go(t, [w[t] EXCEPT !.pc = "send"])
  /\ UNCHANGED <<wanted, open, attached, resetting, macList, rule, cardIps, cardMtu, cardRule,
                 ipLost, mtuBad, raced, calls, clashed>>

SendRemoval(t) ==
  /\ w[t].pc = "send"
  /\ \E a \in Macs :
       /\ w[t].del[a] > 0 /\ Go(t, [w[t] EXCEPT !.del[a] = @ - 1])
       /\ \/ Sent(a) /\ cardMacs' = cardMacs \ {a} /\ UNCHANGED cardMode
          \/ Refused(a)
  /\ UNCHANGED <<wanted, open, attached, resetting, macList, rule, cardIps, cardMtu, cardRule,
                 ipLost, mtuBad, raced, calls, clashed>>

\* An address is in the list whether the card took it or not.
SendAddition(t) ==
  /\ w[t].pc = "send" /\ w[t].del = NoMacs
  /\ \E a \in Macs :
       /\ w[t].add[a] > 0 /\ Go(t, [w[t] EXCEPT !.add[a] = @ - 1])
       /\ \/ Sent(a) /\ cardMacs' = cardMacs \cup {a} /\ UNCHANGED cardMode
          \/ Refused(a)
       /\ macList' = [macList EXCEPT ![a] = @ + 1]
  /\ UNCHANGED <<wanted, open, attached, resetting, rule, cardIps, cardMtu, cardRule,
                 ipLost, mtuBad, raced, calls, clashed>>

\* unm_nic_attach goes on with the MTU, the others are done.
SetMultiDone(t) ==
  /\ w[t].pc = "send" /\ w[t].del = NoMacs /\ w[t].add = NoMacs
  /\ Go(t, IF w[t].attaching THEN [w[t] EXCEPT !.pc = "mtu", !.new = mtu] ELSE Idle)
  /\ UNCHANGED <<wanted, open, attached, resetting, macList, rule, cardState, notes, calls,
                 faults>>
-----------------------------------------------------------------------------
\* The stack passes changes of its list and flags on, under a lock, if the interface is up
\* and present; set_mac and the reset detach it, and an open is not up before its end.
Present ==
  /\ open /\ ~resetting /\ Resting("reset")
  /\ Resting("rtnl") \/ (w["rtnl"].pc = "mtu" /\ ~w["rtnl"].attaching)

SetMulticastList ==
  /\ Call /\ Resting("stack")
  /\ \E f \in {"none", "promisc", "allmulti"}, S \in SUBSET Mcasts :
       /\ <<f, S>> # <<flags, mc>> /\ flags' = f /\ mc' = S
       /\ IF Present THEN Go("stack", [Idle EXCEPT !.pc = "take"]) ELSE UNCHANGED w
  /\ raced' = (raced \/ (attached /\ open /\ ~Present /\ ~w["rtnl"].attaching))
  /\ UNCHANGED <<station, ips, mtu, open, attached, resetting, macList, rule, cardState, lost,
                 ipLost, mtuBad, faults, clashed>>

\* napi_disable makes unm_nic_set_mac wait for the reset, and the reset for it.
SetMac ==
  /\ Call /\ Resting("rtnl") /\ ~resetting
  /\ station' \in Stations \ {station}
  /\ IF attached THEN Go("rtnl", [Idle EXCEPT !.pc = "take"]) ELSE UNCHANGED w
  /\ UNCHANGED <<mc, flags, ips, mtu, open, attached, resetting, macList, rule, cardState, notes,
                 faults>>

\* A fresh context has no filters and the MTU it is created with.
Attach(t) ==
  /\ attached' = TRUE
  /\ Go(t, [Idle EXCEPT !.pc = "take", !.attaching = TRUE])

OpenNic ==
  /\ Call /\ Resting("rtnl") /\ ~open /\ ~resetting /\ Resting("reset")
  /\ open' = TRUE /\ Attach("rtnl")
  /\ UNCHANGED <<wanted, resetting, macList, rule, cardState, notes, faults>>

MtuEnds(t) == Go(t, IF w[t].attaching THEN [w[t] EXCEPT !.pc = "end"] ELSE Idle)

\* The MTU goes to one context after another, up to the first that refuses it.
SendMtu(t) ==
  /\ w[t].pc = "mtu" /\ w[t].i \in DOMAIN Ctxs
  /\ \/ /\ cardMtu' = IF attached THEN [cardMtu EXCEPT ![w[t].i] = w[t].new] ELSE cardMtu
        /\ Go(t, [w[t] EXCEPT !.i = @ + 1]) /\ UNCHANGED <<mtuBad, faults>>
     \/ /\ attached /\ Fault /\ mtuBad' = TRUE /\ MtuEnds(t)
        /\ UNCHANGED cardMtu
  /\ raced' = (raced \/ \E u \in Setters \ {t} : InMtu(u))
  /\ UNCHANGED <<wanted, open, attached, resetting, macList, rule, cardMacs, cardMode, cardIps,
                 cardRule, lost, ipLost, calls, clashed>>

SetMtu(t) ==
  /\ w[t].pc = "mtu" /\ w[t].i \notin DOMAIN Ctxs
  /\ mtu' = w[t].new /\ mtuBad' = FALSE /\ MtuEnds(t)
  /\ UNCHANGED <<mc, flags, station, ips, open, attached, resetting, macList, rule, cardState,
                 lost, ipLost, raced, calls, faults, clashed>>

ChangeMtu ==
  /\ Call /\ Resting("rtnl")
  /\ \E m \in Mtus \ {mtu} : Go("rtnl", [Idle EXCEPT !.pc = "mtu", !.new = m])
  /\ UNCHANGED <<wanted, open, attached, resetting, macList, rule, cardState, notes, faults>>
-----------------------------------------------------------------------------
\* IP addresses.  Telling the card of S fails for the members of bad.
Tell(up, S) ==
  IF ~attached THEN ipLost' = ipLost \cup S /\ UNCHANGED <<cardIps, faults>>
  ELSE \E bad \in {{}} \cup {{i} : i \in S} :
         /\ cardIps' = IF up THEN cardIps \cup (S \ bad) ELSE cardIps \ (S \ bad)
         /\ ipLost' = (ipLost \ S) \cup bad
         /\ IF bad = {} THEN UNCHANGED faults ELSE Fault

\* After an open the kernel passes its list on once more and tells the notifiers that the
\* interface is up, after a close that it is down: nx_nic_netdev_event.
NetdevUp ==
  /\ w["rtnl"].pc = "end" /\ Resting("stack")
  /\ w' = [w EXCEPT !["rtnl"] = Idle, !["stack"] = [Idle EXCEPT !.pc = "take"]]
  /\ Tell(TRUE, ips)
  /\ UNCHANGED <<wanted, open, attached, resetting, macList, rule, cardMacs, cardMode, cardMtu,
                 cardRule, lost, mtuBad, raced, calls, clashed>>

Close ==
  /\ Call /\ Resting("rtnl") /\ open /\ ~resetting /\ Resting("reset")
  /\ open' = FALSE /\ Tell(FALSE, ips)
  /\ UNCHANGED <<wanted, attached, resetting, macList, w, rule, cardMacs, cardMode, cardMtu,
                 cardRule, lost, mtuBad, raced, clashed>>

\* Mutant of Notified: whether the interface runs is not asked.
NotifiedAlways(up, i) == Tell(up, {i})

\* nx_nic_inetaddr_event speaks for running interfaces only.
Notified(up, i) ==
  IF open THEN Tell(up, {i}) ELSE UNCHANGED <<cardIps, ipLost, faults>>

ChangeIp ==
  /\ Call /\ Resting("rtnl")
  /\ \E i \in Ips :
       /\ ips' = IF i \in ips THEN ips \ {i} ELSE ips \cup {i}
       /\ Notified(i \notin ips, i)
  /\ UNCHANGED <<mc, flags, station, mtu, open, attached, resetting, macList, w, rule, cardMacs,
                 cardMode, cardMtu, cardRule, lost, mtuBad, raced, clashed>>
-----------------------------------------------------------------------------
\* Receive rules of a further context, one at a time: here the result is looked at.
SetRxRule ==
  /\ Call /\ attached /\ rule = NoRule
  /\ \/ /\ rule' \in Mcasts /\ cardRule' = rule' /\ UNCHANGED faults
     \/ /\ Fault /\ UNCHANGED <<rule, cardRule>>
  /\ UNCHANGED <<wanted, open, attached, resetting, macList, w, cardMacs, cardMode, cardIps,
                 cardMtu, notes>>

RemoveRxRule ==
  /\ Call /\ attached /\ rule # NoRule
  /\ \/ /\ rule' = NoRule /\ cardRule' = NoRule /\ UNCHANGED faults
     \/ /\ Fault /\ UNCHANGED <<rule, cardRule>>
  /\ UNCHANGED <<wanted, open, attached, resetting, macList, w, cardMacs, cardMode, cardIps,
                 cardMtu, notes>>
-----------------------------------------------------------------------------
\* nx_nic_p3_free_mac_list.
DetachList == NoMacs

\* The reset takes the contexts, and with them all the card knew.
ResetDetaches ==
  /\ Fault /\ attached /\ Resting("rtnl") /\ Resting("reset") /\ ~resetting
  /\ resetting' = TRUE /\ attached' = FALSE
  /\ macList' = DetachList /\ rule' = NoRule
  /\ cardMacs' = {} /\ cardMode' = "drop" /\ cardRule' = NoRule
  /\ cardMtu' = [c \in DOMAIN Ctxs |-> Idle.new]
  /\ cardIps' = {} /\ ipLost' = ipLost \cup cardIps
  /\ lost' = {} /\ clashed' = {} /\ raced' = (raced \/ ~Resting("stack"))
  /\ UNCHANGED <<wanted, open, w, mtuBad, calls>>

\* Ports that were open are attached again.
ResetAttaches ==
  /\ resetting /\ resetting' = FALSE
  /\ IF open THEN Attach("reset") ELSE UNCHANGED <<attached, w>>
  /\ UNCHANGED <<wanted, open, macList, rule, cardState, notes, calls, faults>>

ResetEnds ==
  /\ w["reset"].pc = "end" /\ Go("reset", Idle)
  /\ UNCHANGED <<wanted, open, attached, resetting, macList, rule, cardState, notes, calls,
                 faults>>
-----------------------------------------------------------------------------
Work(t) ==
  \/ TakeList(t) \/ AddStation(t) \/ AddBcast(t) \/ SeeFlags(t) \/ AddListed(t)
  \/ SendMode(t) \/ SendRemoval(t) \/ SendAddition(t) \/ SetMultiDone(t)
  \/ SendMtu(t) \/ SetMtu(t)

FilterNext ==
  \/ \E t \in Setters : Work(t)
  \/ SetMulticastList \/ SetMac \/ OpenNic \/ Close \/ ChangeMtu \/ NetdevUp \/ ChangeIp
  \/ SetRxRule \/ RemoveRxRule \/ ResetDetaches \/ ResetAttaches \/ ResetEnds

FilterSpec == FilterInit /\ [][FilterNext]_filterVars

Quiet == open /\ attached /\ \A t \in Setters : Resting(t)

\* "make sure to add each mac address only once" (main.c:5037): the list holds no address
\* twice, so that the end of one entry is not the end of another's filter.
AddedOnce == ~raced => \A a \in Macs : macList[a] <= 1

\* When nothing is under way the card lets through what the stack wants, as far as its
\* requests were taken, the entries of mac_list stand for what it was sent, and the rule
\* of a context is the card's: over resets, shortages and refusals of any of the requests
\* of set_multi, whose results are not looked at (main.c:5103), and though one address
\* list is shared by all contexts that were ever created (main.c:3471).  Nothing is said of
\* an address that was to be added twice, as nx_nic_p3_add_mac does not look among those
\* to be added (main.c:5038).
FiltersRight ==
  /\ cardRule = rule
  /\ ~raced => \A a \in Macs \ clashed : macList[a] <= 1
  /\ Quiet /\ ~raced =>
       /\ cardMacs \ (lost \cup clashed) = Asked \ (lost \cup clashed)
       /\ "mode" \in lost \/ cardMode = Mode
       /\ \A a \in Macs : macList[a] > 0 => a \in Asked

\* The card answers for the IP addresses of an interface that is up and for none of one
\* that is closed, other than what a refusal or a reset kept from it - attach does not
\* tell it again - and all contexts have the MTU of the interface.
SettingsKnown ==
  /\ Resting("rtnl") => cardIps \ ipLost = (IF open THEN ips ELSE {}) \ ipLost
  /\ Quiet /\ ~raced /\ ~mtuBad => \A c \in DOMAIN Ctxs : cardMtu[c] = mtu
=============================================================================
