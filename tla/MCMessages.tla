----------------------------- MODULE MCMessages -----------------------------
(***************************************************************************)
(* Model checking of Messages.                                             *)
(***************************************************************************)
EXTENDS Messages, PexQ

CONSTANTS r1, r2, snmp, tool

MCMaxCalls == [w \in Waiters |-> IF w = snmp THEN 2 ELSE 1]

\* The two flows come from different sources and are alike otherwise.
MCSameKey == Flows \X Flows

\* What waits and what is offloaded share the rings and the command ring only: a
\* behaviour has calls, with one ring and two answers of three descriptors alone, or it has
\* flows.  Once two threads raced for the list nothing is said of the calls, and nothing
\* more is looked at.
Apart ==
  \/ \A c \in Calls : wpc'[c] = "new"
  \/ /\ ~raced /\ enabled' /\ table' = {} /\ cmds' = SelectSeq(cmds', LAMBDA q : q.kind = "ask")
     /\ sent'[r2] = <<>> /\ Len(sent'[r1]) <= 2
     /\ \A m \in due' : m.kind = "answer" /\ m.len = 3
     /\ sent'[r1] = SelectSeq(sent'[r1], LAMBDA m : m.kind = "answer")

\* PexQ shares nothing with the rest but the card: a behaviour is of one of the two.
VARIABLE ofPexq
MCInit == Init /\ PexqInit /\ ofPexq \in BOOLEAN
MCNext ==
  /\ UNCHANGED ofPexq
  /\ IF ofPexq THEN PexqNext /\ UNCHANGED msgVars
     ELSE Next /\ Apart /\ UNCHANGED pexqVars

MCSpec == MCInit /\ [][MCNext]_<<msgVars, pexqVars, ofPexq>>

Symmetry == Permutations(Flows)
=============================================================================
