------------------------------ MODULE MemAgent ------------------------------
(***************************************************************************)
(* The memory of a card with a 2 MB memory map, reached through the test   *)
(* agent of its memory controller (unm_nic_pci_mem_read_2M and _write_2M   *)
(* of driver/unm_nic_hw.c).  The agent has an address, a data and a        *)
(* control register; the driver writes them one after the other, starts    *)
(* the agent and polls it.  No lock covers the exchange: "don't lock here  *)
(* - write_wx gets the lock if each time".  A write of less than a word    *)
(* reads the word first, by the same means, and writes it back.            *)
(***************************************************************************)
EXTENDS Naturals

CONSTANTS
  Clients,       \* threads of any function of the card
  Words,         \* aligned 8-byte words of the memory
  Parts,         \* the bytes of a word that a short access covers
  Values,
  MaxGiveUps     \* polls that end without an answer

Word == [Parts -> Values]
Zero == [p \in Parts |-> CHOOSE v \in Values : TRUE]
Accesses == [kind : {"read"}, at : Words]
              \cup [kind : {"write"}, at : Words, value : Values]
              \cup [kind : {"short"}, at : Words, part : Parts, value : Values]
NoAccess == [kind |-> "none"]

VARIABLES
  mem,      \* what the memory holds
  addr, data, op, busy,  \* registers of the agent: what it is to do, and if it does
  access,   \* the access of each client
  word,     \* the word it has read or built
  cpc,
  meant,    \* history: the memory after the writes that returned 0
  mixed,    \* history: two exchanges with the agent overlapped
  gaveUp

agentVars == <<mem, addr, data, op, busy, access, word, cpc, meant, mixed, gaveUp>>

AgentInit ==
  /\ mem = [w \in Words |-> Zero] /\ meant = mem
  /\ addr \in Words /\ data = Zero /\ op = "read" /\ busy = FALSE
  /\ access = [c \in Clients |-> NoAccess]
  /\ word = [c \in Clients |-> Zero]
  /\ cpc = [c \in Clients |-> "idle"]
  /\ mixed = FALSE /\ gaveUp = 0

InExchange(c) ==
  \/ cpc[c] \in {"data", "rstart", "wstart", "rpoll", "wpoll", "rddata"}
  \/ cpc[c] = "waddr" /\ access[c].kind = "short"
Step(c, l) == cpc' = [cpc EXCEPT ![c] = l]
registers == <<addr, data, op, busy>>
history == <<meant, mixed, gaveUp>>

\* A whole word is written as it is, a shorter access reads the word before.
\* (Bound: after an overlap, the accesses under way end and no more are begun.)
MemAccess(c, a) ==
  /\ cpc[c] = "idle" /\ ~mixed /\ gaveUp = 0
  /\ access' = [access EXCEPT ![c] = a]
  /\ word' = [word EXCEPT ![c] = IF a.kind = "write" THEN [p \in Parts |-> a.value]
                                 ELSE Zero]
  /\ Step(c, IF a.kind = "write" THEN "waddr" ELSE "raddr")
  /\ UNCHANGED <<mem, registers, history>>

\* MIU_TEST_AGT_ADDR_LO and _HI.
SetAddr(c) ==
  /\ cpc[c] \in {"raddr", "waddr"}
  /\ addr' = access[c].at
  /\ mixed' = (mixed \/ \E d \in Clients \ {c} : InExchange(d))
  /\ Step(c, IF cpc[c] = "waddr" THEN "data" ELSE "rstart")
  /\ UNCHANGED <<mem, data, op, busy, access, word, meant, gaveUp>>

\* MIU_TEST_AGT_WRDATA_LO and _HI.
SetData(c) ==
  /\ cpc[c] = "data"
  /\ data' = word[c]
  /\ Step(c, "wstart")
  /\ UNCHANGED <<mem, addr, op, busy, access, word, history>>

Start(c) ==
  /\ cpc[c] \in {"rstart", "wstart"}
  /\ op' = (IF cpc[c] = "wstart" THEN "write" ELSE "read")
  /\ busy' = TRUE
  /\ Step(c, IF cpc[c] = "wstart" THEN "wpoll" ELSE "rpoll")
  /\ UNCHANGED <<mem, addr, data, access, word, history>>

\* The card.  A word that was read is in the data registers.
AgentWorks ==
  /\ busy
  /\ busy' = FALSE
  /\ mem' = IF op = "write" THEN [mem EXCEPT ![addr] = data] ELSE mem
  /\ data' = IF op = "read" THEN mem[addr] ELSE data
  /\ UNCHANGED <<addr, op, access, word, cpc, history>>

Return(c) ==
  /\ Step(c, "idle")
  /\ access' = [access EXCEPT ![c] = NoAccess]
  /\ word' = [word EXCEPT ![c] = Zero]

NotBusy(c) == ~busy

PollRead(c) ==
  /\ cpc[c] = "rpoll" /\ NotBusy(c)
  /\ Step(c, "rddata")
  /\ UNCHANGED <<mem, registers, access, word, history>>

\* Mutant of Merge: the new bytes replace the word.
MergeNothing(old, a) == [p \in Parts |-> a.value]

\* The bytes of a short write are put into the word that was read.
Merge(old, a) == [old EXCEPT ![a.part] = a.value]

\* MIU_TEST_AGT_RDDATA: the answer of a read, or the word that a write changes.
ReadData(c) ==
  /\ cpc[c] = "rddata"
  /\ IF access[c].kind = "read"
     THEN Return(c)
     ELSE /\ word' = [word EXCEPT ![c] = Merge(data, access[c])]
          /\ Step(c, "waddr")
          /\ UNCHANGED access
  /\ UNCHANGED <<mem, registers, history>>

\* The access is over, and the caller is told that it is written.
PollWrite(c) ==
  /\ cpc[c] = "wpoll" /\ NotBusy(c)
  /\ meant' = IF mixed \/ gaveUp > 0 THEN meant ELSE [meant EXCEPT ![access[c].at] =
       IF access[c].kind = "write" THEN word[c]
       ELSE [meant[access[c].at] EXCEPT ![access[c].part] = access[c].value]]
  /\ Return(c)
  /\ UNCHANGED <<mem, registers, mixed, gaveUp>>

\* MAX_CTL_CHECK polls found the agent busy: -1, and it is left to itself.
GiveUp(c) ==
  /\ cpc[c] \in {"rpoll", "wpoll"} /\ busy /\ gaveUp < MaxGiveUps
  /\ gaveUp' = gaveUp + 1
  /\ Return(c)
  /\ UNCHANGED <<mem, registers, meant, mixed>>

AgentNext ==
  \/ AgentWorks
  \/ \E c \in Clients :
       \/ \E a \in Accesses : MemAccess(c, a)
       \/ SetAddr(c) \/ SetData(c) \/ Start(c) \/ PollRead(c) \/ ReadData(c)
       \/ PollWrite(c) \/ GiveUp(c)
-----------------------------------------------------------------------------
\* As long as no two exchanges overlapped and none was given up, a read takes
\* the word its caller asked for, and the memory is what the writes that
\* returned made of it: a short write leaves the rest of its word alone.
MemoryAsWritten ==
  ~mixed /\ gaveUp = 0 =>
    /\ \A c \in Clients : cpc[c] = "rddata" => data = mem[access[c].at]
    /\ (\A c \in Clients : cpc[c] = "idle") => mem = meant
=============================================================================
