--------------------------- MODULE CommandChannel ---------------------------
(***************************************************************************)
(* What nx_nic_send_cmd_descs promises its callers: a channel that takes   *)
(* messages of one or more commands and hands every accepted command to    *)
(* the card exactly once, in the order of acceptance, a message never      *)
(* accepted in part.  Commands are numbered as they are accepted.          *)
(***************************************************************************)
EXTENDS Naturals, Sequences

CONSTANT MessageSizes

VARIABLES sent, queue, delivered

Init == sent = 0 /\ queue = <<>> /\ delivered = 0

Accept(n) ==
  /\ sent' = sent + n
  /\ queue' = queue \o [k \in 1..n |-> sent + k]
  /\ UNCHANGED delivered

Deliver ==
  /\ UNCHANGED sent
  /\ queue # <<>>
  /\ delivered' = Head(queue)
  /\ queue' = Tail(queue)

Next == (\E n \in MessageSizes : Accept(n)) \/ Deliver

Spec == Init /\ [][Next]_<<sent, queue, delivered>>

=============================================================================
