------------------------------ MODULE MCTxRing ------------------------------
(***************************************************************************)
(* TxRing for TLC.  Behaviours end with a race: the properties claim       *)
(* nothing after it, and what it costs is another run's question.  For the *)
(* progress of commands a history variable tells where a poll last found   *)
(* tx_cpu_excl taken.                                                      *)
(***************************************************************************)
EXTENDS TxRing

\* The two places of nx_nic_poll_sts, 6907 ("tx") and 6933 ("pend"), where
\* the last trylock failed.
VARIABLE missed

Entered == {c \in Cpus : ppc'[c] \in {"reap", "pendlock"}}
TurnedAway ==
  {c \in Cpus : ppc[c] \in {"tx", "pend"} /\ ppc'[c] # ppc[c]} \ Entered

MCInit == Init /\ missed = {}
SafetyNext == ~raced /\ Next /\ UNCHANGED missed
ProgressNext ==
  /\ ~raced /\ Next
  /\ missed' = (missed \ {ppc[c] : c \in Entered}) \cup {ppc[c] : c \in TurnedAway}

SafetySpec == MCInit /\ [][SafetyNext]_<<vars, missed>>
ProgressSpec == MCInit /\ [][ProgressNext]_<<vars, missed>> /\ Fairness

\* No interrupt is enabled behind the back of a poll that will look at the
\* ring again anyway, as a transmit timeout or an open with an LSA may.
Scheduled(c) == ppc[c] \in {"tx", "reap", "wake", "wakelock", "complete"}
                  \/ again[c]
Undisturbed == \A c \in Cpus : Scheduled(c) => c \notin intr

\* An accepted command is executed without any later traffic, unless the
\* interface is closed: the poll that follows each completion drains the
\* waiting commands (nx_nic_poll_sts, unm_proc_pending_cmd_desc).  Two polls
\* compete for tx_cpu_excl, and what the last one to be turned away at either
\* trylock should have done nobody else need do: the premise is that at both
\* places a later try succeeds.
CommandsReachCard ==
  /\ []Undisturbed
  /\ []<>("tx" \notin missed) /\ []<>("pend" \notin missed)
  => \A k \in Commands : accepted >= k ~> (executed >= k \/ ~running \/ raced)

=============================================================================
