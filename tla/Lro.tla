--------------------------------- MODULE Lro ---------------------------------
(***************************************************************************)
(* Large receive offload (driver/unm_nic_lro.c, over the hash table of     *)
(* nx_hash_table.c and the pool of nx_mem_pool.c).  A poll that sees a     *)
(* packet of a new flow takes an entry of the pool, inserts it under the   *)
(* flow's key and asks the card to offload the flow; the entry goes back   *)
(* when the card says that it has dropped the flow or could not add it,    *)
(* when its context is destroyed, or when the request cannot be sent.      *)
(***************************************************************************)
EXTENDS Naturals, FiniteSets

CONSTANTS
  Polls,     \* the polls of the status rings, each of a context of its own
  Flows,
  SameKey,   \* pairs of flows of one bucket whose keys compare equal: nx_cmp_ip_key
             \* leaves out the source address
  MaxLro     \* entries of the pool

NoFlow == "none"

ASSUME LroAssumption ==
  /\ MaxLro \in Nat /\ SameKey \subseteq Flows \X Flows
  /\ \A f \in Flows : <<f, f>> \in SameKey
  /\ \A p \in SameKey : <<p[2], p[1]>> \in SameKey
  /\ \A p, q \in SameKey : p[2] = q[1] => <<p[1], q[2]>> \in SameKey
  /\ NoFlow \notin Flows

VARIABLES
  table,     \* the entries of the hash table: flow and context
  hand,      \* the flow whose entry a poll has inserted, its request not yet sent
  free,      \* length of the pool's free list
  allocated, \* pool->allocated
  enabled,   \* lro.enabled
  twice      \* history: entries that were freed though they were free

lroVars == <<table, hand, free, allocated, enabled, twice>>

LroInit ==
  /\ table = {} /\ hand = [p \in Polls |-> NoFlow]
  /\ free = MaxLro /\ allocated = 0 /\ enabled = TRUE /\ twice = 0

\* Entries whose key compares equal to that of the flow.
Under(f) == {e \in table : <<e.flow, f>> \in SameKey}

\* nx_hash_tbl_delete.
Unlinked(f) == table \ Under(f)

\* nx_mem_pool_free, n times: allocated below 0 is a BUG.
Freed(n) == free' = free + n /\ allocated' = allocated - n

\* nx_initiate_lro up to the request: no entry is left, the key is there already, or
\* the entry is inserted.
LroBegins(p, f) ==
  /\ enabled /\ free > 0 /\ Under(f) = {}
  /\ table' = table \cup {[flow |-> f, ctx |-> p]}
  /\ hand' = [hand EXCEPT ![p] = f]
  /\ free' = free - 1 /\ allocated' = allocated + 1
  /\ UNCHANGED <<enabled, twice>>

LroDeclines(f) ==
  /\ ~enabled \/ free = 0 \/ Under(f) # {}
  /\ UNCHANGED lroVars

LroSent(p) ==
  /\ hand[p] # NoFlow
  /\ hand' = [hand EXCEPT ![p] = NoFlow]
  /\ UNCHANGED <<table, free, allocated, enabled, twice>>

\* The request is not sent: whatever has the key leaves the table, and the poll's own
\* entry goes back to the pool, even if it had left the table before.
LroSendFails(p) ==
  /\ hand[p] # NoFlow
  /\ table' = Unlinked(hand[p])
  /\ hand' = [hand EXCEPT ![p] = NoFlow]
  /\ Freed(1)
  /\ twice' = twice + IF \E e \in Under(hand[p]) : e = [flow |-> hand[p], ctx |-> p]
                      THEN 0 ELSE 1
  /\ UNCHANGED enabled

\* nx_handle_lro_response.
LroResponse(f) ==
  /\ table' = Unlinked(f)
  /\ Freed(IF Under(f) = {} THEN 0 ELSE 1)
  /\ UNCHANGED <<hand, enabled, twice>>

\* nx_lro_delete_ctx_lro.
LroDeleteCtx(p) ==
  LET gone == {e \in table : e.ctx = p} IN
  /\ table' = table \ gone
  /\ Freed(Cardinality(gone))
  /\ UNCHANGED <<hand, enabled, twice>>

\* nx_lro_set_state; the entries stay.
LroSetState(on) ==
  /\ enabled # on /\ enabled' = on
  /\ UNCHANGED <<table, hand, free, allocated, twice>>

\* Mutant of LroRenewed: the table is kept.
LroRenewedKeeping ==
  /\ free' = MaxLro - allocated
  /\ UNCHANGED <<table, hand, allocated, enabled, twice>>

\* unm_cleanup_lro and unm_init_lro around a reset; enabled is kept.
LroRenewed ==
  /\ table' = {} /\ free' = MaxLro /\ allocated' = 0
  /\ UNCHANGED <<hand, enabled, twice>>
=============================================================================
