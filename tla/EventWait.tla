------------------------------ MODULE EventWait ------------------------------
(***************************************************************************)
(* Waiting for the card's answer to a request (nx_os_event_wait_setup,     *)
(* nx_os_event_wait, nx_os_event_wakeup_on_response of                     *)
(* driver/unm_nic_main.c, and their callers in unm_nic_snmp.c and          *)
(* unm_nic_tool.c).  A call takes the lowest completion id that is free,   *)
(* puts an entry on its stack into wait_list, and sends the request; an    *)
(* answer wakes the first entry with its id.  No lock protects the map of  *)
(* ids and the list.  The threads are the tool (one, as ioctl calls hold   *)
(* the rtnl lock) and the readers of the SNMP file.                        *)
(***************************************************************************)
EXTENDS Naturals, Sequences, FiniteSets

CONSTANTS
  Waiters,   \* the threads
  MaxCalls,  \* bound: calls of each thread
  MaxCompId, \* NX_MAX_COMP_ID
  IntBits,   \* bits of an int: the 1 that is shifted is one
  WordBits   \* bits of a word of wait_bit_map

Calls == UNION {{w} \X (1 .. MaxCalls[w]) : w \in Waiters}
Ids == 0 .. MaxCompId - 1
NoCall == <<"none", 0>>

ASSUME WaitAssumption ==
  /\ MaxCalls \in [Waiters -> Nat] /\ MaxCompId \in Nat \ {0}
  /\ IntBits \in Nat \ {0} /\ WordBits \in Nat \ {0} /\ WordBits >= IntBits
  /\ NoCall \notin Calls

VARIABLES
  bits,     \* wait_bit_map: numbers of the bits that are set
  list,     \* wait_list, from its head
  wpc,      \* where each call is
  comp,     \* its comp_id
  active, trigger,
  seen,     \* what the thread read of the map, and then of the list
  woken,    \* history: the calls whose answers were given to the call
  raced,    \* history: the map or the list was written by another thread between a
            \*   thread's look at it and its write
  gaveUp,   \* history: calls that ended without their answer
  abandoned \* history: calls that returned with their entry in the list

entryVars == <<comp, active, trigger, woken>>
waitHistory == <<raced, gaveUp, abandoned>>
waitVars == <<bits, list, wpc, entryVars, seen, waitHistory>>

WaitInit ==
  /\ bits = {} /\ list = <<>>
  /\ wpc = [c \in Calls |-> "new"]
  /\ comp = [c \in Calls |-> 0]
  /\ active = [c \in Calls |-> FALSE] /\ trigger = [c \in Calls |-> FALSE]
  /\ seen = [c \in Calls |-> <<>>]
  /\ woken = [c \in Calls |-> {}]
  /\ raced = FALSE /\ gaveUp = {} /\ abandoned = {}

WaitGo(c, l) == wpc' = [wpc EXCEPT ![c] = l]

\* The shift of a 32 bit 1 by the number modulo 32, and the sign of its result.
IdBits(i) ==
  LET base == (i \div WordBits) * WordBits
      b == (i % WordBits) % IntBits
  IN {base + k : k \in IF b = IntBits - 1 THEN b .. WordBits - 1 ELSE {b}}

FreeIds(map) == {i \in Ids : IdBits(i) \cap map = {}}

\* nx_os_event_wait_setup, the map.  Without a free id the call fails.
SetupId(c) ==
  /\ wpc[c] = "new"
  /\ c[2] > 1 => wpc[<<c[1], c[2] - 1>>] = "returned"
  /\ active' = [active EXCEPT ![c] = TRUE]
  /\ IF FreeIds(bits) = {} THEN WaitGo(c, "returned") /\ UNCHANGED <<comp, seen>>
     ELSE /\ \E i \in FreeIds(bits) :
               /\ \A j \in FreeIds(bits) : i <= j
               /\ comp' = [comp EXCEPT ![c] = i]
          /\ seen' = [seen EXCEPT ![c] = bits]
          /\ WaitGo(c, "mark")
  /\ UNCHANGED <<bits, list, trigger, woken, waitHistory>>

SetupMark(c) ==
  /\ wpc[c] = "mark"
  /\ bits' = seen[c] \cup IdBits(comp[c])
  /\ raced' = (raced \/ bits # seen[c])
  /\ seen' = [seen EXCEPT ![c] = list]
  /\ WaitGo(c, "link")
  /\ UNCHANGED <<list, entryVars, gaveUp, abandoned>>

\* Mutant of AddEntry: list_add_tail.
AddEntryLast(c, l) == Append(l, c)

\* list_add: the entry before what was the first when the thread looked.
AddEntry(c, l) == <<c>> \o l

SetupLink(c) ==
  /\ wpc[c] = "link"
  /\ list' = AddEntry(c, seen[c])
  /\ raced' = (raced \/ list # seen[c])
  /\ seen' = [seen EXCEPT ![c] = <<>>]
  /\ WaitGo(c, "send")
  /\ UNCHANGED <<bits, entryVars, gaveUp, abandoned>>

\* The caller sends the request; when that fails it returns at once.
RequestSent(c) ==
  /\ wpc[c] = "send" /\ WaitGo(c, "wait")
  /\ UNCHANGED <<bits, list, entryVars, seen, waitHistory>>

RequestFails(c) ==
  /\ wpc[c] = "send" /\ WaitGo(c, "returned")
  /\ abandoned' = abandoned \cup {c}
  /\ UNCHANGED <<bits, list, entryVars, seen, raced, gaveUp>>

\* nx_os_event_wait: the time is over, or the call was triggered.
WaitEnds(c) ==
  /\ wpc[c] = "wait" /\ WaitGo(c, "clear")
  /\ gaveUp' = IF c \in woken[c] THEN gaveUp ELSE gaveUp \cup {c}
  /\ UNCHANGED <<bits, list, entryVars, seen, raced, abandoned>>

\* Mutant of WaitClears: the bit stays.
WaitKeepsId(c) ==
  /\ wpc[c] = "clear" /\ WaitGo(c, "unlink")
  /\ UNCHANGED <<bits, list, entryVars, seen, waitHistory>>

WaitClears(c) ==
  /\ wpc[c] = "clear" /\ WaitGo(c, "unlink")
  /\ bits' = bits \ IdBits(comp[c])
  /\ UNCHANGED <<list, entryVars, seen, waitHistory>>

\* The entry is on the stack: nothing reads it from here on.
WaitUnlinks(c) ==
  /\ wpc[c] = "unlink" /\ WaitGo(c, "returned")
  /\ \/ \E k \in DOMAIN list :
          list[k] = c /\ list' = SubSeq(list, 1, k - 1) \o SubSeq(list, k + 1, Len(list))
     \/ c \notin {list[k] : k \in DOMAIN list} /\ UNCHANGED list
  /\ comp' = [comp EXCEPT ![c] = 0]
  /\ active' = [active EXCEPT ![c] = FALSE]
  /\ trigger' = [trigger EXCEPT ![c] = FALSE]
  /\ UNCHANGED <<bits, woken, seen, waitHistory>>
-----------------------------------------------------------------------------
\* The walk over the list: entries before the one with the id that belong to calls
\* that have returned are memory of anybody's, and end the walk in any way.
Matching(id) ==
  {k \in DOMAIN list :
     /\ list[k] \in abandoned \/ comp[list[k]] = id
     /\ \A j \in 1 .. k - 1 : list[j] \in abandoned \/ comp[list[j]] # id}

Found(id) ==
  IF Matching(id) = {} THEN {NoCall}
  ELSE {list[k] : k \in Matching(id)} \cup
       {NoCall : k \in {j \in Matching(id) : comp[list[j]] # id}}

\* The entry that was found takes the answer if it is active.
Wakes(c, answer) ==
  IF c = NoCall \/ ~active[c] THEN UNCHANGED <<active, trigger, woken>>
  ELSE /\ trigger' = [trigger EXCEPT ![c] = TRUE]
       /\ active' = [active EXCEPT ![c] = FALSE]
       /\ woken' = [woken EXCEPT ![c] = @ \cup {answer}]

\* unm_nic_detach wakes all entries, answered or not.
DetachWakes ==
  /\ trigger' = [c \in Calls |-> trigger[c] \/ \E k \in DOMAIN list : list[k] = c]
  /\ active' = [c \in Calls |-> active[c] /\ ~\E k \in DOMAIN list : list[k] = c]
  /\ UNCHANGED <<bits, list, wpc, comp, seen, woken, waitHistory>>

WaitStep(c) ==
  \/ SetupId(c) \/ SetupMark(c) \/ SetupLink(c) \/ RequestFails(c)
  \/ WaitEnds(c) \/ WaitClears(c) \/ WaitUnlinks(c)
-----------------------------------------------------------------------------
\* A call is given the answer to its own request and no other, unless the call whose
\* answer it is had ended without it (timed out, or woken by a reset), or two threads met in the map or the list
\* (nx_os_event_wait_setup, nx_os_event_wakeup_on_response).
RightWaiter ==
  \A c \in Calls \ abandoned : raced \/ woken[c] \subseteq {c} \cup gaveUp

\* As long as no two threads met there, the map shows the ids of the calls that wait
\* and of those that returned without taking their entry back, and the list has the
\* entries of just these (nx_os_event_wait, and the failing paths of its callers).
WaitersKnown ==
  LET holding == {c \in Calls : wpc[c] \in {"link", "send", "wait", "clear"}} \cup abandoned
      linked == {c \in Calls : wpc[c] \in {"send", "wait", "clear", "unlink"}} \cup abandoned
  IN raced \/ /\ bits = UNION {IdBits(comp[c]) : c \in holding}
              /\ {list[k] : k \in DOMAIN list} = linked
              /\ Len(list) = Cardinality(linked)
=============================================================================
