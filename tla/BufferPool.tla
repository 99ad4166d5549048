----------------------------- MODULE BufferPool -----------------------------
(***************************************************************************)
(* What the receive side promises: every buffer goes round from free to    *)
(* posted to filled and back to free.  Posted buffers form a queue the     *)
(* card takes from the front, as many at a time as a packet needs; a       *)
(* buffer is never posted while the card or a reader still has it.         *)
(***************************************************************************)
EXTENDS Naturals, Sequences

CONSTANTS Buffers, MaxChain

VARIABLES free, ring, filled

Init == free = Buffers /\ ring = <<>> /\ filled = {}

Post(b) ==
  /\ b \in free
  /\ free' = free \ {b}
  /\ ring' = Append(ring, b)
  /\ UNCHANGED filled

Fill(n) ==
  /\ n <= Len(ring)
  /\ filled' = filled \cup {ring[k] : k \in 1..n}
  /\ ring' = SubSeq(ring, n + 1, Len(ring))
  /\ UNCHANGED free

Release(b) ==
  /\ b \in filled
  /\ filled' = filled \ {b}
  /\ free' = free \cup {b}
  /\ UNCHANGED ring

\* The interface is detached: the card forgets the ring.
Reset == free' = Buffers /\ ring' = <<>> /\ filled' = {}

Next ==
  \/ \E b \in Buffers : Post(b) \/ Release(b)
  \/ \E n \in 1 .. MaxChain : Fill(n)
  \/ Reset

Spec == Init /\ [][Next]_<<free, ring, filled>>

=============================================================================
