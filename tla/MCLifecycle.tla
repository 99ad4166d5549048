---------------------------- MODULE MCLifecycle -----------------------------
(***************************************************************************)
(* nx_nic or nx_xport has the card: nx_xport refuses to be loaded beside   *)
(* nx_nic (unm_init_module of nx_xport/nx_pci_xport.c).  Two functions of  *)
(* a card for nx_nic, three devices for nx_xport.                          *)
(***************************************************************************)
EXTENDS NicLifecycle, XportTable

VARIABLE driver  \* which of the two is loaded

vars == <<nicVars, xportVars, driver>>

Init == NicInit /\ XportInit /\ driver \in {"nx_nic", "nx_xport"}

Next ==
  \/ driver = "nx_nic" /\ NicNext /\ UNCHANGED <<xportVars, driver>>
  \/ driver = "nx_xport" /\ XportNext /\ UNCHANGED <<nicVars, driver>>

Spec == Init /\ [][Next]_vars
=============================================================================
