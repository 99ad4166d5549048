----------------------------- MODULE MCReceive -----------------------------
(***************************************************************************)
(* Progress of the receive side: the interrupt that brings the poll        *)
(* (Interrupts) and the list that keeps the ring supplied (RxRing).  The   *)
(* two share nothing but the card; a behaviour is of one of them.          *)
(***************************************************************************)
EXTENDS RxRing, Interrupts

CONSTANTS p0, p1

Plain == [irq |-> "legacy", p2 |-> FALSE, state |-> FALSE, v34 |-> FALSE]
MCKinds ==
  {[Plain EXCEPT !.p2 = TRUE, !.v34 = TRUE], [Plain EXCEPT !.p2 = TRUE],
   [Plain EXCEPT !.state = TRUE],
   [Plain EXCEPT !.irq = "msi"], [Plain EXCEPT !.irq = "msi", !.p2 = TRUE, !.v34 = TRUE],
   [Plain EXCEPT !.irq = "msix"]}

VARIABLE ofInterrupts

\* Only on a P2 do two functions touch the same register; the second one is opened and
\* left alone.
Apart ==
  /\ running'[p1] => kind.irq = "legacy" /\ kind.p2
  /\ ctl'[p1] \in {"idle", "on", "arm"} /\ ~tmo'[p1]

MCInit == Init /\ IntInit /\ ofInterrupts \in BOOLEAN
MCNext ==
  /\ UNCHANGED ofInterrupts
  /\ IF ofInterrupts THEN IntNext /\ Apart /\ UNCHANGED vars
     ELSE Next /\ UNCHANGED intVars

Posted(c) == ~ofInterrupts /\ PollGoesOn(c) /\ UNCHANGED intVars

MCFairness == IntFairness /\ \A c \in Cpus : WF_vars(Posted(c))

MCSpec == MCInit /\ [][MCNext]_<<vars, intVars, ofInterrupts>> /\ MCFairness
=============================================================================
