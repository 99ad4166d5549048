---------------------------- MODULE MCCardAccess ----------------------------
(***************************************************************************)
(* Model checking of XportAccess and, in it, of CardAccess: two threads of *)
(* one function and one of another; the first two also use nx_xport.       *)
(***************************************************************************)
EXTENDS XportAccess, TLC

CONSTANTS t1, t2, t3, f0, f1

MCFuncOf == [t \in Threads |-> IF t = t3 THEN f1 ELSE f0]

\* The two threads of one function, the windowed registers, the
\* words and the parts of a word are told apart by nothing.
Swap ==
  Permutations({t1, t2}) \cup Permutations(Windowed) \cup Permutations(Words)
    \cup Permutations(Parts)
=============================================================================
