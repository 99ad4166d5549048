------------------------------ MODULE MCPorts ------------------------------
(***************************************************************************)
(* Model checking of what a port is made of: Filters for the P3,           *)
(* PortControl and PhyTest for the P2, RxRing for either.  A card is a P2  *)
(* or a P3, the self test is alone with the PHY, and the receive buffers   *)
(* share nothing with the settings, so that a behaviour is of one of the   *)
(* four.                                                                   *)
(***************************************************************************)
EXTENDS Filters, PortControl, PhyTest, RxRing

CONSTANTS x0, x1

MCCtxs == <<1, 2>>

VARIABLE about

MCVars == <<filterVars, portVars, phyVars, vars, about>>
MCInit ==
  /\ FilterInit /\ PortInit /\ PhyInit /\ Init
  /\ station = CHOOSE s \in Stations : TRUE
  /\ addr = Every(CHOOSE a \in Addrs : TRUE) /\ frameSel = x0
  /\ about \in {"filters", "ports", "phy", "buffers"}
  /\ about # "phy" => phyKind = "quake" /\ selected = "id"

\* Of a behaviour in which the threads of set_multi met, nothing is said and no more is
\* looked at.
FilterStep == ~raced /\ FilterNext

\* The second port is opened and its list changes; only the first one is closed, reset and
\* has a cable.  Nothing more is looked at once the stack's set_multi crossed a call.
PortStep ==
  /\ \A p \in XgPorts : ~crossed[p]
  /\ PortNext
  /\ started[x1] => started'[x1] /\ xctl'[x1] \in {"init", "multi", "idle"}
  /\ ~cable'[x1] /\ work'[x1] = "idle"

MCNext ==
  /\ UNCHANGED about
  /\ \/ /\ about = "filters" /\ FilterStep /\ UNCHANGED <<portVars, phyVars, vars>>
     \/ /\ about = "ports" /\ PortStep /\ UNCHANGED <<filterVars, phyVars, vars>>
     \/ /\ about = "phy" /\ PhyNext /\ UNCHANGED <<filterVars, portVars, vars>>
     \/ /\ about = "buffers" /\ Next /\ UNCHANGED <<filterVars, portVars, phyVars>>

MCSpec == MCInit /\ [][MCNext]_MCVars
=============================================================================
